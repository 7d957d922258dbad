-------------------------- MODULE PathORAM_proofs --------------------------
(***************************************************************************)
(* Theorems about PathORAM, for every tree height, bucket size, stash size *)
(* and set of labels, and the lemmas they rest on.                         *)
(***************************************************************************)
EXTENDS PathORAM, Common_proofs

-----------------------------------------------------------------------------
\* The buckets on the path of a label are buckets of the tree.
LEMMA PathInTree ==
  ASSUME NEW p \in Paths
  PROVE  /\ PathNodes(p) \subseteq Nodes
         /\ \A h \in Levels : NodeAt(p, h) \in Nodes
BY DEF PathNodes, Nodes

\* A bucket is on a path exactly when it is the one the label meets at the
\* bucket's level.
LEMMA OnPathByLevel ==
  ASSUME NEW p, NEW n \in PathNodes(p)
  PROVE  n[1] \in Levels /\ n = NodeAt(p, n[1])
BY DEF PathNodes, NodeAt

-----------------------------------------------------------------------------
(* The blocks on a path, and the slots that hold them.                     *)

LEMMA OnPathFinite ==
  ASSUME TypeOK, path \in Paths
  PROVE  /\ OnPath \in SUBSET Block
         /\ IsFiniteSet(OnPath)
         /\ IsFiniteSet(SlotsOnPath)
         /\ Cardinality(OnPath) =< Cardinality(SlotsOnPath)
<1>1. OnPath \in SUBSET Block
  BY PathInTree DEF TypeOK, OnPath
<1>2. IsFiniteSet(Levels)
  BY FS_Interval, TreeAssumption DEF Levels
<1>3. IsFiniteSet(OnPath)
  <2> DEFINE onLevel == [h \in Levels |-> tree[NodeAt(path, h)]]
             buckets == {onLevel[h] : h \in Levels}
  <2>1. onLevel \in Surjection(Levels, buckets)
    BY DEF Surjection
  <2>2. IsFiniteSet(buckets)
    BY <1>2, <2>1, FS_Surjection
  <2>3. \A T \in buckets : IsFiniteSet(T)
    BY PathInTree DEF TypeOK
  <2>4. OnPath = UNION buckets
    BY DEF OnPath
  <2>. QED
    BY <2>2, <2>3, <2>4, FS_UNION
<1>4. IsFiniteSet(SlotsOnPath)
  <2>1. IsFiniteSet(Levels \X OnPath)
    BY <1>2, <1>3, FS_Product
  <2>2. SlotsOnPath \in SUBSET (Levels \X OnPath)
    BY DEF SlotsOnPath
  <2>. QED
    BY <2>1, <2>2, FS_Subset
<1>5. Cardinality(OnPath) =< Cardinality(SlotsOnPath)
  <2> DEFINE block == [s \in SlotsOnPath |-> s[2]]
  <2>1. block \in [SlotsOnPath -> OnPath]
    BY DEF SlotsOnPath
  <2>2. ASSUME NEW b \in OnPath
        PROVE  \E s \in SlotsOnPath : block[s] = b
    <3>1. PICK h \in Levels : b \in tree[NodeAt(path, h)]
      BY DEF OnPath
    <3>2. <<h, b>> \in SlotsOnPath
      BY <3>1 DEF SlotsOnPath
    <3>. QED
      BY <3>2
  <2>3. block \in Surjection(SlotsOnPath, OnPath)
    BY <2>1, <2>2 DEF Surjection
  <2>. QED
    BY <2>3, <1>4, FS_Surjection
<1>. QED
  BY <1>1, <1>3, <1>4, <1>5

-----------------------------------------------------------------------------
(* Types and capacities.                                                   *)

LEMMA TypeInit == Init => TypeOK
<1> SUFFICES ASSUME Init PROVE TypeOK
  OBVIOUS
<1>1. req \in Request
  BY DataTyping DEF Init
<1>2. fetched \in Contents
  BY DataTyping DEF Init
<1>3. \A n \in Nodes : IsFiniteSet(tree[n]) /\ Cardinality(tree[n]) =< BlocksPerNode
  BY FS_EmptySet, NodeAssumption DEF Init
<1>4. IsFiniteSet(stash) /\ Cardinality(stash) =< StashCap
  BY FS_EmptySet, PathORAMAssumption DEF Init
<1>. QED
  BY <1>1, <1>2, <1>3, <1>4 DEF Init, TypeOK

LEMMA TypeStart ==
  ASSUME TypeOK, NEW r \in ReadRequests \cup WriteRequests, StartAccess(r)
  PROVE  TypeOK'
<1>1. r \in Request /\ r.ind \in 0 .. MaxPosMap - 1
  BY DataTyping, PathORAMAssumption DEF Request
<1>2. posmap[r.ind] \in Paths \cup {0}
  BY <1>1 DEF TypeOK
<1>3. path' \in Paths /\ newPath' \in Paths
  BY <1>2 DEF StartAccess
<1>4. posmap' \in [0 .. MaxPosMap - 1 -> Paths \cup {0}]
  BY PathORAMAssumption DEF TypeOK, StartAccess, Swapped
<1>5. pc' \in {"wild", "download"}
  BY DEF StartAccess
<1>. QED
  BY <1>1, <1>3, <1>4, <1>5 DEF StartAccess, TypeOK

LEMMA TypeDownload == TypeOK /\ DownloadPath => TypeOK'
<1> SUFFICES ASSUME TypeOK, DownloadPath PROVE TypeOK'
  OBVIOUS
<1>1. path \in Paths
  BY DEF TypeOK, DownloadPath
<1>2. /\ IsFiniteSet(stash \cup OnPath)
      /\ Cardinality(stash \cup OnPath)
           = Cardinality(stash) + Cardinality(OnPath) - Cardinality(stash \cap OnPath)
  BY <1>1, OnPathFinite, FS_Union DEF TypeOK
<1>3. /\ Cardinality(stash) \in Nat
      /\ Cardinality(OnPath) \in Nat
      /\ Cardinality(SlotsOnPath) \in Nat
      /\ Cardinality(stash \cap OnPath) \in Nat
  BY <1>1, OnPathFinite, FS_CardinalityType, FS_Intersection DEF TypeOK
<1>4. Cardinality(stash \cup OnPath) =< StashCap
  BY <1>1, <1>2, <1>3, OnPathFinite, PathORAMAssumption DEF DownloadPath, Fits
<1>5. stashLoad' \in Int
  BY <1>3 DEF TypeOK, DownloadPath
<1>6. stash' \in SUBSET Block
  BY <1>1, OnPathFinite DEF TypeOK, DownloadPath
<1>. QED
  BY <1>1, <1>2, <1>4, <1>5, <1>6 DEF TypeOK, DownloadPath

LEMMA TypeFetch == TypeOK /\ ObliviousFetch => TypeOK'
<1> SUFFICES ASSUME TypeOK, ObliviousFetch PROVE TypeOK'
  OBVIOUS
<1>1. PICK taken \in SUBSET InStash(BlockKey(req.ind)), content \in Contents :
        /\ stash' = LeftInStash(taken)
        /\ stashLoad' = LoadAfterFetch(taken)
        /\ fetched' = Stored(req, content)
        /\ req' = [req EXCEPT !.buf = Loaded(req, content)]
  BY DEF ObliviousFetch, BlockAfter, BufferAfter
<1>2. stash' \in SUBSET stash
  BY <1>1 DEF LeftInStash
<1>3. IsFiniteSet(stash') /\ Cardinality(stash') =< StashCap
  <2>1. IsFiniteSet(stash') /\ Cardinality(stash') =< Cardinality(stash)
    BY <1>2, FS_Subset DEF TypeOK
  <2>2. Cardinality(stash') \in Nat /\ Cardinality(stash) \in Nat
    BY <2>1, FS_CardinalityType DEF TypeOK
  <2>. QED
    BY <2>1, <2>2, PathORAMAssumption DEF TypeOK
<1>4. fetched' \in Contents /\ req' \in Request
  BY <1>1, DataTyping DEF TypeOK, Request
<1>5. stashLoad' \in Int
  BY <1>1 DEF TypeOK, LoadAfterFetch
<1>. QED
  BY <1>2, <1>3, <1>4, <1>5 DEF TypeOK, ObliviousFetch

LEMMA TypePut == TypeOK /\ PutToStash => TypeOK'
<1> SUFFICES ASSUME TypeOK, PutToStash PROVE TypeOK'
  OBVIOUS
<1>1. PutBlock \in Block
  BY DEF TypeOK, PutToStash, PutBlock, PutLabel, Block, Request
<1>2. IsFiniteSet(stash') /\ Cardinality(stash') =< StashCap
  <2>1. Cardinality(stash) \in Nat
    BY FS_CardinalityType DEF TypeOK
  <2>2. IsFiniteSet(stash)
    BY DEF TypeOK
  <2>3. /\ IsFiniteSet(stash \cup {PutBlock})
        /\ Cardinality(stash \cup {PutBlock})
             = IF PutBlock \in stash THEN Cardinality(stash)
                                    ELSE Cardinality(stash) + 1
    BY <2>2, FS_AddElement
  <2>. QED
    BY <2>1, <2>3, PathORAMAssumption DEF PutToStash
<1>. QED
  BY <1>1, <1>2 DEF TypeOK, PutToStash

LEMMA TypeEvict == TypeOK /\ EvictPath => TypeOK'
<1> SUFFICES ASSUME TypeOK, EvictPath PROVE TypeOK'
  OBVIOUS
<1>1. PICK lv \in [stash -> Levels \cup {Height}] :
        /\ IsEviction(lv)
        /\ tree' = Refilled(lv)
        /\ stash' = Leftover(lv)
        /\ stashLoad' = stashLoad - Cardinality(stash \ Placed(lv, Height))
  BY DEF EvictPath
<1>2. \A h : Placed(lv, h) \in SUBSET stash
  BY DEF Placed
<1>3. \A h : /\ IsFiniteSet(Placed(lv, h))
             /\ Cardinality(Placed(lv, h)) =< Cardinality(stash)
  BY <1>2, FS_Subset DEF TypeOK
<1>4. \A h \in Levels : Cardinality(Placed(lv, h)) =< BlocksPerNode
  BY <1>1 DEF IsEviction, EvictedLevels, FilledGreedily
<1>5. \A n \in PathNodes(path) : n[1] \in Levels
  BY OnPathByLevel
<1>6. tree' \in [Nodes -> SUBSET Block]
  BY <1>1, <1>2 DEF TypeOK, Refilled
<1>7. \A n \in Nodes :
        IsFiniteSet(tree'[n]) /\ Cardinality(tree'[n]) =< BlocksPerNode
  BY <1>1, <1>3, <1>4, <1>5 DEF TypeOK, Refilled, EvictedPath
<1>8. stash' \in SUBSET Block
  BY <1>1, <1>2 DEF TypeOK, Leftover
<1>9. IsFiniteSet(stash') /\ Cardinality(stash') =< StashCap
  <2>1. IsFiniteSet(stash') /\ Cardinality(stash') =< Cardinality(stash)
    BY <1>1, <1>3 DEF Leftover
  <2>2. Cardinality(stash') \in Nat /\ Cardinality(stash) \in Nat
    BY <2>1, FS_CardinalityType DEF TypeOK
  <2>. QED
    BY <2>1, <2>2, PathORAMAssumption DEF TypeOK
<1>10. stashLoad' \in Int
  <2>1. stash \ Placed(lv, Height) \in SUBSET stash
    OBVIOUS
  <2>2. Cardinality(stash \ Placed(lv, Height)) \in Nat
    BY <2>1, FS_Subset, FS_CardinalityType DEF TypeOK
  <2>. QED
    BY <1>1, <2>2 DEF TypeOK
<1>. QED
  BY <1>6, <1>7, <1>8, <1>9, <1>10 DEF TypeOK, EvictPath

LEMMA TypeAbort == TypeOK /\ Abort => TypeOK'
BY DEF TypeOK, Abort

LEMMA TypeStep == TypeOK /\ [Next]_vars => TypeOK'
<1> SUFFICES ASSUME TypeOK, [Next]_vars PROVE TypeOK'
  OBVIOUS
<1>1. ASSUME NEW r \in ReadRequests \cup WriteRequests, StartAccess(r)
      PROVE  TypeOK'
  BY <1>1, TypeStart
<1>2. CASE DownloadPath
  BY <1>2, TypeDownload
<1>3. CASE ObliviousFetch
  BY <1>3, TypeFetch
<1>4. CASE PutToStash
  BY <1>4, TypePut
<1>5. CASE EvictPath
  BY <1>5, TypeEvict
<1>6. CASE PathPointerFault \/ DownloadOverflow \/ PutOverflow
  BY <1>6, TypeAbort DEF PathPointerFault, DownloadOverflow, PutOverflow
<1>7. CASE UNCHANGED vars
  BY <1>7 DEF vars, TypeOK
<1>. QED
  BY <1>1, <1>2, <1>3, <1>4, <1>5, <1>6, <1>7 DEF Next, Step, Aborted

\* Whatever the callers ask for, the position map holds labels, no bucket
\* holds more than BLOCKS_PER_NODE blocks and the stash no more than it has
\* slots for.
THEOREM TypeCorrect == Spec => []TypeOK
BY TypeInit, TypeStep, PTL DEF Spec

-----------------------------------------------------------------------------
(* One copy of each block, on the path of its label.                       *)

\* A live block is a block, and not one that carries the label zero.
LEMMA LiveBlocks ==
  ASSUME TypeOK
  PROVE  /\ Live \subseteq Block
         /\ \A b \in Live : b.key - 1 \in Inds /\ b.path \in Paths /\ b.path # 0
         /\ \A b \in Live : b.key = BlockKey(b.key - 1)
<1>1. Live \subseteq Block
  BY DEF Live, LiveTree, LiveNodes, TypeOK
<1>2. \A b \in Block : /\ b.key - 1 \in Inds
                       /\ b.path \in Paths /\ b.path # 0
                       /\ b.key = BlockKey(b.key - 1)
  BY DataAssumption, TreeAssumption DEF Block, BlockKey
<1>. QED
  BY <1>1, <1>2

\* The block id of the request in progress can be read back from its key.
LEMMA ReqTyping ==
  ASSUME TypeOK
  PROVE  req.ind \in Inds /\ BlockKey(req.ind) - 1 = req.ind
<1>1. req.ind \in Inds
  BY DEF TypeOK, Request
<1>2. req.ind \in Nat
  BY <1>1, DataAssumption
<1>. QED
  BY <1>1, <1>2 DEF BlockKey

LEMMA IInvInit == Init => IInv
<1> SUFFICES ASSUME Init PROVE IInv
  OBVIOUS
<1>1. Live = {} /\ stash = {} /\ \A n \in LiveNodes : tree[n] = {}
  BY DEF Init, Live, LiveTree, LiveNodes
<1>2. OneCopy /\ OnLabelledPath
  BY <1>1 DEF OneCopy, OnLabelledPath, Init
<1>. QED
  BY <1>2, TypeInit DEF IInv, LabelInHand, Init

LEMMA IInvStart ==
  ASSUME NoNeighbours, IInv,
         NEW r \in ReadRequests \cup WriteRequests, StartAccess(r)
  PROVE  IInv'
<1>1. TypeOK /\ TypeOK'
  BY TypeStart DEF IInv
<1>2. r.ind \in Inds /\ r.ind \in 0 .. MaxPosMap - 1 /\ req' = r
  BY DataTyping, PathORAMAssumption DEF Request, StartAccess
<1>3. pc = "idle" /\ pc' \in {"wild", "download"}
  BY DEF StartAccess
<1>4. Live' = Live /\ LiveTree' = LiveTree /\ LiveNodes' = LiveNodes
  BY <1>3 DEF Live, LiveTree, LiveNodes, Shadowed, StartAccess
<1>5. OneCopy'
  BY <1>3, <1>4 DEF IInv, OneCopy, StartAccess
<1>6. PICK behind \in Junk : posmap' = Swapped(r.ind, newPath', behind)
  BY DEF StartAccess
<1>7. ASSUME NEW b \in Live
      PROVE  b.path = Label(b.key - 1)'
  <2>1. b.path = posmap[b.key - 1]
    BY <1>3 DEF IInv, OnLabelledPath, Label
  <2>2. b.key - 1 \in Inds /\ b.path # 0
    BY <1>1, LiveBlocks
  <2>3. CASE b.key - 1 = r.ind
    BY <1>2, <1>3, <2>1, <2>2, <2>3 DEF Label, StartAccess
  <2>4. CASE b.key - 1 # r.ind
    <3>1. b.key - 1 # r.ind + 1
      BY <1>2, <2>2 DEF NoNeighbours
    <3>2. posmap'[b.key - 1] = posmap[b.key - 1]
      BY <1>1, <1>6, <2>2, <2>4, <3>1, PathORAMAssumption DEF Swapped, TypeOK
    <3>. QED
      BY <1>2, <2>1, <2>4, <3>2 DEF Label
  <2>. QED
    BY <2>3, <2>4
<1>8. OnLabelledPath'
  BY <1>3, <1>4, <1>7 DEF IInv, OnLabelledPath, StartAccess
<1>9. LabelInHand'
  BY <1>1, <1>2, <1>6 DEF LabelInHand, Swapped, TypeOK
<1>. QED
  BY <1>1, <1>5, <1>8, <1>9 DEF IInv

LEMMA IInvDownload == IInv /\ DownloadPath => IInv'
<1> SUFFICES ASSUME IInv, DownloadPath PROVE IInv'
  OBVIOUS
<1>1. TypeOK /\ TypeOK' /\ pc = "download" /\ pc' = "fetch" /\ path \in Paths
  BY TypeDownload DEF IInv, DownloadPath, TypeOK
<1>2. LiveNodes = Nodes /\ LiveNodes' = Nodes \ PathNodes(path)
  BY <1>1 DEF LiveNodes, Shadowed, DownloadPath
<1>3. OnPath = UNION {tree[n] : n \in PathNodes(path)}
  BY DEF OnPath, PathNodes
<1>4. Live' = Live
  BY <1>1, <1>2, <1>3, PathInTree DEF Live, LiveTree, DownloadPath
<1>5. (stash \cap LiveTree = {})'
  <2> SUFFICES ASSUME NEW b \in stash', NEW n \in LiveNodes', b \in tree[n]
               PROVE  FALSE
    BY DEF LiveTree, DownloadPath
  <2>1. CASE b \in stash
    BY <1>1, <1>2, <2>1 DEF IInv, OneCopy, LiveTree
  <2>2. CASE b \in OnPath
    <3>1. PICK m \in PathNodes(path) : b \in tree[m]
      BY <1>3, <2>2
    <3>2. m \in Nodes /\ n \in Nodes /\ m # n
      BY <1>1, <1>2, <3>1, PathInTree
    <3>. QED
      BY <1>1, <1>2, <3>1, <3>2 DEF IInv, OneCopy
  <2>. QED
    BY <2>1, <2>2 DEF DownloadPath
<1>6. OneCopy'
  BY <1>1, <1>2, <1>4, <1>5 DEF IInv, OneCopy, DownloadPath
<1>7. \A i : Label(i)' = Label(i)
  BY <1>1 DEF Label, DownloadPath
<1>8. OnLabelledPath'
  BY <1>1, <1>2, <1>4, <1>7 DEF IInv, OnLabelledPath, DownloadPath
<1>9. LabelInHand'
  BY <1>1 DEF IInv, LabelInHand, DownloadPath
<1>. QED
  BY <1>1, <1>6, <1>8, <1>9 DEF IInv

\* While a path is in the stash, the block being accessed is in the stash or
\* nowhere: a copy in the tree would be in a bucket of the path.
LEMMA FetchFinds ==
  ASSUME IInv, pc = "fetch"
  PROVE  /\ \A b \in Live : b.key = BlockKey(req.ind) => b \in InStash(BlockKey(req.ind))
         /\ \A b, c \in InStash(BlockKey(req.ind)) : b = c
<1>1. ASSUME NEW b \in Live, b.key = BlockKey(req.ind), b \notin stash
      PROVE  FALSE
  <2>1. PICK n \in LiveNodes : b \in tree[n]
    BY <1>1 DEF Live, LiveTree
  <2>2. b.key - 1 = req.ind
    BY <1>1, ReqTyping DEF IInv
  <2>3. b.path = path
    BY <1>1, <2>2 DEF IInv, OnLabelledPath, Label
  <2>4. n \in PathNodes(path)
    BY <2>1, <2>3 DEF IInv, OnLabelledPath
  <2>. QED
    BY <2>1, <2>4 DEF LiveNodes, Shadowed
<1>2. \A b, c \in InStash(BlockKey(req.ind)) : b = c
  BY DEF IInv, OneCopy, InStash, Live
<1>. QED
  BY <1>1, <1>2 DEF InStash

LEMMA IInvFetch == IInv /\ ObliviousFetch => IInv'
<1> SUFFICES ASSUME IInv, ObliviousFetch PROVE IInv'
  OBVIOUS
<1>1. TypeOK /\ TypeOK' /\ pc = "fetch" /\ pc' = "put"
  BY TypeFetch DEF IInv, ObliviousFetch
<1>2. req'.ind = req.ind
  BY <1>1 DEF ObliviousFetch, TypeOK, Request
<1>3. PICK taken \in SUBSET InStash(BlockKey(req.ind)) :
        /\ taken = {} => InStash(BlockKey(req.ind)) = {}
        /\ stash' = stash \ taken
  BY DEF ObliviousFetch, LeftInStash
<1>4. taken = InStash(BlockKey(req.ind))
  BY <1>1, <1>3, FetchFinds
<1>5. LiveNodes' = LiveNodes /\ LiveTree' = LiveTree
  BY <1>1 DEF LiveNodes, LiveTree, Shadowed, ObliviousFetch
<1>6. Live' \subseteq Live
  BY <1>3, <1>5 DEF Live
<1>7. \A b \in Live' : b.key # BlockKey(req.ind)
  <2> SUFFICES ASSUME NEW b \in Live', b.key = BlockKey(req.ind) PROVE FALSE
    OBVIOUS
  <2>1. b \in InStash(BlockKey(req.ind))
    BY <1>1, <1>6, FetchFinds
  <2>2. b \in stash /\ b \notin LiveTree
    BY <1>1, <2>1 DEF InStash, IInv, OneCopy
  <2>. QED
    BY <1>3, <1>4, <1>5, <2>1, <2>2 DEF Live
<1>8. OneCopy'
  BY <1>1, <1>2, <1>3, <1>5, <1>6, <1>7 DEF IInv, OneCopy, ObliviousFetch
<1>9. ASSUME NEW b \in Live'
      PROVE  b.path = Label(b.key - 1)'
  <2>1. b.path = Label(b.key - 1) /\ b.key - 1 # req.ind
    BY <1>1, <1>6, <1>7, LiveBlocks DEF IInv, OnLabelledPath
  <2>. QED
    BY <1>2, <2>1 DEF Label, ObliviousFetch
<1>10. OnLabelledPath'
  BY <1>1, <1>5, <1>9 DEF IInv, OnLabelledPath, ObliviousFetch
<1>11. LabelInHand'
  BY <1>1, <1>2 DEF IInv, LabelInHand, ObliviousFetch
<1>. QED
  BY <1>1, <1>8, <1>10, <1>11 DEF IInv

LEMMA IInvPut == IInv /\ PutToStash => IInv'
<1> SUFFICES ASSUME IInv, PutToStash PROVE IInv'
  OBVIOUS
<1>1. TypeOK /\ TypeOK' /\ pc = "put" /\ pc' = "evict" /\ req' = req
  BY TypePut DEF IInv, PutToStash
<1>2. /\ PutBlock.key = BlockKey(req.ind)
      /\ PutBlock.key - 1 = req.ind
      /\ PutBlock.path = posmap[req.ind]
  BY <1>1, ReqTyping DEF PutBlock, PutLabel, IInv, LabelInHand
<1>3. LiveNodes' = LiveNodes /\ LiveTree' = LiveTree
  BY <1>1 DEF LiveNodes, LiveTree, Shadowed, PutToStash
<1>4. Live' = Live \cup {PutBlock}
  BY <1>3 DEF Live, PutToStash
<1>5. \A b \in Live : b.key # PutBlock.key
  BY <1>1, <1>2 DEF IInv, OneCopy
<1>6. (stash \cap LiveTree = {})'
  BY <1>1, <1>3, <1>5 DEF IInv, OneCopy, Live, PutToStash
<1>7. OneCopy'
  BY <1>1, <1>3, <1>4, <1>5, <1>6 DEF IInv, OneCopy, PutToStash
<1>8. \A b \in Live' : b.path = Label(b.key - 1)'
  BY <1>1, <1>2, <1>4 DEF IInv, OnLabelledPath, Label, PutToStash
<1>9. OnLabelledPath'
  BY <1>1, <1>3, <1>8 DEF IInv, OnLabelledPath, PutToStash
<1>. QED
  BY <1>1, <1>7, <1>9 DEF IInv, LabelInHand

LEMMA IInvEvict == IInv /\ EvictPath => IInv'
<1> SUFFICES ASSUME IInv, EvictPath PROVE IInv'
  OBVIOUS
<1>1. TypeOK /\ TypeOK' /\ pc = "evict" /\ pc' = "idle" /\ path \in Paths
  BY TypeEvict DEF IInv, EvictPath, TypeOK
<1>2. PICK lv \in [stash -> Levels \cup {Height}] :
        /\ IsEviction(lv)
        /\ tree' = Refilled(lv)
        /\ stash' = Placed(lv, Height)
  BY DEF EvictPath, Leftover
<1>3. LiveNodes = Nodes \ PathNodes(path) /\ LiveNodes' = Nodes
  BY <1>1 DEF LiveNodes, Shadowed
<1>4. \A n \in PathNodes(path) :
        n \in Nodes /\ n[1] \in Levels /\ n = NodeAt(path, n[1]) /\ n[1] # Height
  BY <1>1, PathInTree, OnPathByLevel, TreeAssumption DEF Levels
<1>5. \A n \in Nodes :
        tree'[n] = IF n \in PathNodes(path) THEN Placed(lv, n[1]) ELSE tree[n]
  BY <1>2 DEF Refilled, EvictedPath
<1>6. \A h : Placed(lv, h) \subseteq stash
  BY DEF Placed
<1>7. \A n \in LiveNodes : tree[n] \subseteq LiveTree
  BY DEF LiveTree
<1>8. Live' \subseteq Live
  BY <1>2, <1>3, <1>5, <1>6 DEF Live, LiveTree
<1>9. (stash \cap LiveTree = {})'
  <2> SUFFICES ASSUME NEW b \in stash', NEW n \in Nodes, b \in tree'[n]
               PROVE  FALSE
    BY <1>3 DEF LiveTree
  <2>1. b \in stash /\ lv[b] = Height
    BY <1>2 DEF Placed
  <2>2. CASE n \in PathNodes(path)
    BY <1>4, <1>5, <2>1, <2>2 DEF Placed
  <2>3. CASE n \notin PathNodes(path)
    BY <1>1, <1>3, <1>5, <1>7, <2>1, <2>3 DEF IInv, OneCopy
  <2>. QED
    BY <2>2, <2>3
<1>10. ASSUME NEW m \in Nodes, NEW n \in Nodes, m # n
       PROVE  tree'[m] \cap tree'[n] = {}
  <2>1. CASE m \in PathNodes(path) /\ n \in PathNodes(path)
    <3>1. m[1] # n[1]
      BY <1>4, <1>10, <2>1
    <3>2. tree'[m] = Placed(lv, m[1]) /\ tree'[n] = Placed(lv, n[1])
      BY <1>5, <2>1
    <3>3. \A b : b \in Placed(lv, m[1]) => b \notin Placed(lv, n[1])
      BY <3>1 DEF Placed
    <3>. QED
      BY <3>2, <3>3
  <2>2. CASE m \notin PathNodes(path) /\ n \notin PathNodes(path)
    BY <1>1, <1>3, <1>5, <1>10, <2>2 DEF IInv, OneCopy
  <2>3. CASE ~ (m \in PathNodes(path) <=> n \in PathNodes(path))
    BY <1>1, <1>3, <1>5, <1>6, <1>7, <2>3 DEF IInv, OneCopy
  <2>. QED
    BY <2>1, <2>2, <2>3
<1>11. OneCopy'
  BY <1>1, <1>3, <1>8, <1>9, <1>10 DEF IInv, OneCopy
<1>12. \A b \in Live' : b.path = Label(b.key - 1)'
  BY <1>1, <1>8 DEF IInv, OnLabelledPath, Label, EvictPath
<1>13. ASSUME NEW n \in Nodes, NEW b \in tree'[n]
       PROVE  n \in PathNodes(b.path)
  <2>1. CASE n \in PathNodes(path)
    <3>1. n[1] \in EvictedLevels /\ b \in Placed(lv, n[1])
      BY <1>4, <1>5, <2>1 DEF EvictedLevels
    <3>2. SamePrefix(b.path, path, n[1])
      BY <1>2, <3>1 DEF IsEviction, FilledGreedily, Eligible, EvictedPath
    <3>3. n = NodeAt(b.path, n[1])
      BY <1>4, <2>1, <3>2 DEF NodeAt, SamePrefix
    <3>. QED
      BY <1>4, <2>1, <3>3 DEF PathNodes
  <2>2. CASE n \notin PathNodes(path)
    BY <1>1, <1>3, <1>5, <2>2 DEF IInv, OnLabelledPath
  <2>. QED
    BY <2>1, <2>2
<1>14. OnLabelledPath'
  BY <1>1, <1>3, <1>12, <1>13 DEF OnLabelledPath
<1>. QED
  BY <1>1, <1>11, <1>14 DEF IInv, LabelInHand

LEMMA IInvAbort == IInv /\ Abort => IInv'
<1>1. IInv /\ Abort => pc' = "aborted" /\ TypeOK'
  BY TypeAbort DEF IInv, Abort
<1>. QED
  BY <1>1 DEF IInv, OneCopy, OnLabelledPath, LabelInHand

LEMMA IInvStep ==
  ASSUME NoNeighbours, IInv, [Next]_vars
  PROVE  IInv'
<1>1. ASSUME NEW r \in ReadRequests \cup WriteRequests, StartAccess(r)
      PROVE  IInv'
  BY <1>1, IInvStart
<1>2. CASE DownloadPath
  BY <1>2, IInvDownload
<1>3. CASE ObliviousFetch
  BY <1>3, IInvFetch
<1>4. CASE PutToStash
  BY <1>4, IInvPut
<1>5. CASE EvictPath
  BY <1>5, IInvEvict
<1>6. CASE PathPointerFault \/ DownloadOverflow \/ PutOverflow
  BY <1>6, IInvAbort DEF PathPointerFault, DownloadOverflow, PutOverflow
<1>7. CASE UNCHANGED vars
  BY <1>7 DEF vars, IInv, TypeOK, OneCopy, OnLabelledPath, LabelInHand,
              Live, LiveTree, LiveNodes, Shadowed, Label
<1>. QED
  BY <1>1, <1>2, <1>3, <1>4, <1>5, <1>6, <1>7 DEF Next, Step, Aborted

\* The inductive invariant holds of every access sequence over block ids of
\* which no two are neighbours.
THEOREM Invariant == ASSUME NoNeighbours PROVE Spec => []IInv
BY IInvInit, IInvStep, PTL DEF Spec

\* No sequence of accesses makes a second copy of a block.
THEOREM NeverTwoCopies == ASSUME NoNeighbours PROVE Spec => []OneCopy
BY Invariant, PTL DEF IInv

\* Every block outside the caller's hands is where its label leads.
THEOREM BlocksStayOnPath == ASSUME NoNeighbours PROVE Spec => []OnLabelledPath
BY Invariant, PTL DEF IInv

-----------------------------------------------------------------------------
(* What the steps do to the live blocks.                                   *)

\* A download moves no block in or out of sight: what the buckets of the path
\* lose, the stash has.
LEMMA DownloadKeepsLive == IInv /\ DownloadPath => Live' = Live
<1> SUFFICES ASSUME IInv, DownloadPath PROVE Live' = Live
  OBVIOUS
<1>1. pc = "download" /\ pc' = "fetch" /\ path \in Paths
  BY DEF IInv, DownloadPath, TypeOK
<1>2. LiveNodes = Nodes /\ LiveNodes' = Nodes \ PathNodes(path)
  BY <1>1 DEF LiveNodes, Shadowed, DownloadPath
<1>3. OnPath = UNION {tree[n] : n \in PathNodes(path)}
  BY DEF OnPath, PathNodes
<1>. QED
  BY <1>1, <1>2, <1>3, PathInTree DEF Live, LiveTree, DownloadPath

\* An eviction keeps every live block: those it moves are in a bucket of the
\* path, those it does not stay in the stash.
LEMMA EvictionKeepsLive == IInv /\ EvictPath => Live \subseteq Live'
<1> SUFFICES ASSUME IInv, EvictPath, NEW b \in Live PROVE b \in Live'
  OBVIOUS
<1>1. pc = "evict" /\ pc' = "idle" /\ path \in Paths
  BY DEF IInv, EvictPath, TypeOK
<1>2. PICK lv \in [stash -> Levels \cup {Height}] :
        tree' = Refilled(lv) /\ stash' = Placed(lv, Height)
  BY DEF EvictPath, Leftover
<1>3. LiveNodes = Nodes \ PathNodes(path) /\ LiveNodes' = Nodes
  BY <1>1 DEF LiveNodes, Shadowed
<1>4. \A n \in Nodes :
        tree'[n] = IF n \in PathNodes(path) THEN Placed(lv, n[1]) ELSE tree[n]
  BY <1>2 DEF Refilled, EvictedPath
<1>5. CASE b \in stash /\ lv[b] = Height
  BY <1>2, <1>5 DEF Placed, Live
<1>6. CASE b \in stash /\ lv[b] \in Levels
  <2>1. /\ NodeAt(path, lv[b]) \in PathNodes(path)
        /\ NodeAt(path, lv[b]) \in Nodes
        /\ NodeAt(path, lv[b])[1] = lv[b]
    BY <1>1, <1>6, PathInTree DEF PathNodes, NodeAt
  <2>2. b \in tree'[NodeAt(path, lv[b])]
    BY <1>4, <1>6, <2>1 DEF Placed
  <2>. QED
    BY <1>3, <2>1, <2>2 DEF Live, LiveTree
<1>7. CASE b \in LiveTree
  <2>1. PICK n \in LiveNodes : b \in tree[n]
    BY <1>7 DEF LiveTree
  <2>2. n \in LiveNodes' /\ b \in tree'[n]
    BY <1>3, <1>4, <2>1
  <2>. QED
    BY <2>2 DEF Live, LiveTree
<1>. QED
  BY <1>2, <1>5, <1>6, <1>7 DEF Live

\* Nor does it add one: it puts in the buckets what was in the stash.
LEMMA EvictionAddsNone == IInv /\ EvictPath => Live' \subseteq Live
<1> SUFFICES ASSUME IInv, EvictPath PROVE Live' \subseteq Live
  OBVIOUS
<1>1. pc = "evict" /\ pc' = "idle"
  BY DEF EvictPath
<1>2. PICK lv \in [stash -> Levels \cup {Height}] :
        tree' = Refilled(lv) /\ stash' = Placed(lv, Height)
  BY DEF EvictPath, Leftover
<1>3. LiveNodes = Nodes \ PathNodes(path) /\ LiveNodes' = Nodes
  BY <1>1 DEF LiveNodes, Shadowed
<1>4. \A h : Placed(lv, h) \subseteq stash
  BY DEF Placed
<1>. QED
  BY <1>2, <1>3, <1>4 DEF Live, LiveTree, Refilled, EvictedPath

-----------------------------------------------------------------------------
(* No block is lost.                                                       *)

LEMMA NothingLostInit == Init => NothingLost
<1> SUFFICES ASSUME Init PROVE NothingLost
  OBVIOUS
<1>1. \A i \in Inds : posmap[i] = 0
  BY PathORAMAssumption DEF Init
<1>. QED
  BY <1>1 DEF NothingLost

LEMMA NothingLostStart ==
  ASSUME NoNeighbours, IInv, NothingLost,
         NEW r \in ReadRequests \cup WriteRequests, StartAccess(r)
  PROVE  NothingLost'
<1>1. r.ind \in Inds /\ req' = r /\ pc = "idle" /\ pc' \in {"wild", "download"}
  BY DataTyping DEF Request, StartAccess
<1>2. Live' = Live
  BY <1>1 DEF Live, LiveTree, LiveNodes, Shadowed, StartAccess
<1>3. ASSUME NEW i \in Inds, i # r.ind
      PROVE  posmap'[i] = posmap[i]
  <2>1. i # r.ind + 1
    BY <1>1, <1>3 DEF NoNeighbours
  <2>. QED
    BY <1>3, <2>1, PathORAMAssumption DEF IInv, TypeOK, StartAccess, Swapped
<1>. QED
  BY <1>1, <1>2, <1>3 DEF NothingLost

LEMMA NothingLostFetch == IInv /\ NothingLost /\ ObliviousFetch => NothingLost'
<1> SUFFICES ASSUME IInv, NothingLost, ObliviousFetch, NEW i \in Inds
             PROVE  \/ posmap[i] = 0
                    \/ i = req.ind
                    \/ \E b \in Live' : b.key = BlockKey(i)
  BY DEF NothingLost, ObliviousFetch, IInv, TypeOK, Request
<1>1. pc = "fetch" /\ pc' = "put"
  BY DEF ObliviousFetch
<1>2. PICK taken \in SUBSET InStash(BlockKey(req.ind)) : stash' = stash \ taken
  BY DEF ObliviousFetch, LeftInStash
<1>3. LiveTree' = LiveTree
  BY <1>1 DEF LiveNodes, LiveTree, Shadowed, ObliviousFetch
<1>4. ASSUME NEW b \in Live, b.key = BlockKey(i), i # req.ind
      PROVE  b \in Live'
  <2>1. b.key # BlockKey(req.ind)
    BY <1>4, ReqTyping, DataAssumption DEF IInv, BlockKey
  <2>. QED
    BY <1>2, <1>3, <2>1 DEF Live, InStash
<1>. QED
  BY <1>1, <1>4 DEF NothingLost

LEMMA NothingLostPut == IInv /\ NothingLost /\ PutToStash => NothingLost'
<1> SUFFICES ASSUME IInv, NothingLost, PutToStash PROVE NothingLost'
  OBVIOUS
<1>1. pc = "put" /\ pc' = "evict" /\ req' = req /\ posmap' = posmap
  BY DEF PutToStash
<1>2. LiveTree' = LiveTree
  BY <1>1 DEF LiveNodes, LiveTree, Shadowed, PutToStash
<1>3. Live' = Live \cup {PutBlock} /\ PutBlock.key = BlockKey(req.ind)
  BY <1>2 DEF Live, PutToStash, PutBlock
<1>. QED
  BY <1>1, <1>3 DEF NothingLost

LEMMA NothingLostStep ==
  ASSUME NoNeighbours, IInv, NothingLost, [Next]_vars
  PROVE  NothingLost'
<1>1. ASSUME NEW r \in ReadRequests \cup WriteRequests, StartAccess(r)
      PROVE  NothingLost'
  BY <1>1, NothingLostStart
<1>2. CASE DownloadPath
  BY <1>2, DownloadKeepsLive DEF NothingLost, DownloadPath
<1>3. CASE ObliviousFetch
  BY <1>3, NothingLostFetch
<1>4. CASE PutToStash
  BY <1>4, NothingLostPut
<1>5. CASE EvictPath
  BY <1>5, EvictionKeepsLive DEF NothingLost, EvictPath
<1>6. CASE PathPointerFault \/ DownloadOverflow \/ PutOverflow
  BY <1>6 DEF PathPointerFault, DownloadOverflow, PutOverflow, Abort, NothingLost
<1>7. CASE UNCHANGED vars
  BY <1>7 DEF vars, NothingLost, Live, LiveTree, LiveNodes, Shadowed
<1>. QED
  BY <1>1, <1>2, <1>3, <1>4, <1>5, <1>6, <1>7 DEF Next, Step, Aborted

\* A block the position map has a label for is never lost, however often
\* evictions of other blocks move it and leave it in the stash.
THEOREM NoBlockLost == ASSUME NoNeighbours PROVE Spec => []NothingLost
BY NothingLostInit, NothingLostStep, Invariant, PTL DEF Spec

-----------------------------------------------------------------------------
(* What an eviction leaves in the stash.                                   *)

\* The root is on every path, at level 0, where all labels agree.
LEMMA RootOnEveryPath ==
  /\ 0 \in Levels
  /\ \A p \in Paths : NodeAt(p, 0) = Root
  /\ \A p, q \in Paths : SamePrefix(p, q, 0)
<1>1. 0 \in Levels
  BY TreeAssumption DEF Levels
<1>2. \A p \in Paths : Masked(p, 0) = 0
  <2>1. TwoTo[0] = 1
    BY PowersOfTwo
  <2>2. \A p \in Nat : p % 1 = 0
    BY SMT
  <2>. QED
    BY <2>1, <2>2, TreeAssumption DEF Masked
<1>. QED
  BY <1>1, <1>2 DEF NodeAt, Root, SamePrefix

LEMMA EvictionFillsRoot ==
  ASSUME TypeOK, EvictPath, stash' # {}
  PROVE  Cardinality(tree'[Root]) = BlocksPerNode
<1>1. path \in Paths
  BY DEF EvictPath, TypeOK
<1>2. PICK lv \in [stash -> Levels \cup {Height}] :
        /\ IsEviction(lv)
        /\ tree' = Refilled(lv)
        /\ stash' = Placed(lv, Height)
  BY DEF EvictPath, Leftover
<1>3. PICK b \in stash : lv[b] = Height
  BY <1>2 DEF Placed
<1>4. b \in Eligible(lv, 0)
  BY <1>1, <1>3, RootOnEveryPath
     DEF TypeOK, Block, Eligible, StillThere, EvictedPath
<1>5. b \notin Placed(lv, 0)
  BY <1>3, TreeAssumption DEF Placed
<1>6. Cardinality(Placed(lv, 0)) = BlocksPerNode
  BY <1>2, <1>4, <1>5, RootOnEveryPath
     DEF IsEviction, EvictedLevels, FilledGreedily
<1>7. Root \in PathNodes(path) /\ Root \in Nodes /\ Root[1] = 0
  <2>1. NodeAt(path, 0) = Root
    BY <1>1, RootOnEveryPath
  <2>. QED
    BY <1>1, <2>1, RootOnEveryPath, PathInTree DEF PathNodes, Root
<1>8. tree'[Root] = Placed(lv, 0)
  BY <1>2, <1>7 DEF Refilled, EvictedPath
<1>. QED
  BY <1>6, <1>8

LEMMA RootFullStep ==
  ASSUME TypeOK, StashOnlyWhenRootFull, [Next]_vars
  PROVE  StashOnlyWhenRootFull'
<1>1. ASSUME NEW r \in ReadRequests \cup WriteRequests, StartAccess(r)
      PROVE  StashOnlyWhenRootFull'
  BY <1>1 DEF StartAccess, StashOnlyWhenRootFull
<1>2. CASE DownloadPath \/ ObliviousFetch \/ PutToStash
  BY <1>2 DEF DownloadPath, ObliviousFetch, PutToStash, StashOnlyWhenRootFull
<1>3. CASE EvictPath
  BY <1>3, EvictionFillsRoot DEF StashOnlyWhenRootFull
<1>4. CASE PathPointerFault \/ DownloadOverflow \/ PutOverflow
  BY <1>4 DEF PathPointerFault, DownloadOverflow, PutOverflow, Abort,
              StashOnlyWhenRootFull
<1>5. CASE UNCHANGED vars
  BY <1>5 DEF vars, StashOnlyWhenRootFull
<1>. QED
  BY <1>1, <1>2, <1>3, <1>4, <1>5 DEF Next, Step, Aborted

\* Between accesses a block waits in the stash only when the root, which every
\* block is eligible for, has no slot left.  Neighbouring ids included.
THEOREM StashIsOverflow == Spec => []StashOnlyWhenRootFull
<1>1. Init => StashOnlyWhenRootFull
  BY DEF Init, StashOnlyWhenRootFull
<1>. QED
  BY <1>1, RootFullStep, TypeCorrect, PTL DEF Spec

-----------------------------------------------------------------------------
(* The count of blocks in the stash.                                       *)

\* The buckets of a path have no block in common and none with the stash.
LEMMA DownloadDisjoint ==
  ASSUME IInv, pc = "download"
  PROVE  /\ IsFiniteSet(stash \cup OnPath)
         /\ stash \cup OnPath \subseteq Live
         /\ Cardinality(stash \cup OnPath)
              = Cardinality(stash) + Cardinality(SlotsOnPath)
<1>1. pc = "download" /\ path \in Paths /\ LiveNodes = Nodes
  BY DEF IInv, TypeOK, LiveNodes, Shadowed
<1>2. /\ IsFiniteSet(stash) /\ IsFiniteSet(OnPath) /\ IsFiniteSet(SlotsOnPath)
      /\ Cardinality(OnPath) \in Nat /\ Cardinality(SlotsOnPath) \in Nat
      /\ Cardinality(stash) \in Nat
  BY <1>1, OnPathFinite, FS_CardinalityType DEF IInv, TypeOK
<1>3. Cardinality(OnPath) = Cardinality(SlotsOnPath)
  <2> DEFINE block == [s \in SlotsOnPath |-> s[2]]
  <2>1. block \in [SlotsOnPath -> OnPath]
    BY DEF SlotsOnPath
  <2>2. ASSUME NEW s \in SlotsOnPath, NEW t \in SlotsOnPath, s[2] = t[2]
        PROVE  s = t
    <3>1. /\ s = <<s[1], s[2]>> /\ s[1] \in Levels /\ s[2] \in tree[NodeAt(path, s[1])]
          /\ t = <<t[1], t[2]>> /\ t[1] \in Levels /\ t[2] \in tree[NodeAt(path, t[1])]
      BY DEF SlotsOnPath
    <3>2. NodeAt(path, s[1]) \in Nodes /\ NodeAt(path, t[1]) \in Nodes
      BY <1>1, <3>1, PathInTree
    <3>3. NodeAt(path, s[1]) = NodeAt(path, t[1])
      BY <1>1, <2>2, <3>1, <3>2 DEF IInv, OneCopy
    <3>4. s[1] = t[1]
      BY <3>3 DEF NodeAt
    <3>. QED
      BY <2>2, <3>1, <3>4
  <2>3. \A s, t \in SlotsOnPath : block[s] = block[t] => s = t
    BY <2>2
  <2>4. block \in Injection(SlotsOnPath, OnPath)
    BY <2>1, <2>3 DEF Injection, IsInjective
  <2>5. Cardinality(SlotsOnPath) =< Cardinality(OnPath)
    BY <1>2, <2>4, FS_Injection
  <2>6. Cardinality(OnPath) =< Cardinality(SlotsOnPath)
    BY <1>1, OnPathFinite DEF IInv
  <2>. QED
    BY <1>2, <2>5, <2>6
<1>4. OnPath \subseteq LiveTree
  BY <1>1, PathInTree DEF OnPath, LiveTree
<1>5. stash \cap OnPath = {}
  BY <1>1, <1>4 DEF IInv, OneCopy
<1>6. Cardinality(stash \cup OnPath) = Cardinality(stash) + Cardinality(OnPath)
  <2>1. Cardinality(stash \cap OnPath) = 0
    BY <1>5, FS_EmptySet
  <2>2. Cardinality(stash \cup OnPath)
          = Cardinality(stash) + Cardinality(OnPath) - Cardinality(stash \cap OnPath)
    BY <1>2, FS_Union, Zenon
  <2>. QED
    BY <1>2, <2>1, <2>2
<1>. QED
  BY <1>2, <1>3, <1>4, <1>6, FS_Union DEF Live

\* So a download adds to the stash one block for every slot it loads.
LEMMA DownloadCounts ==
  IInv /\ StashLoadExact /\ DownloadPath => StashLoadExact'
BY DownloadDisjoint DEF StashLoadExact, DownloadPath

\* The node the fetch takes its copies from has one of the block: one block
\* less, one count less.
LEMMA FetchCounts ==
  IInv /\ StashLoadExact /\ ObliviousFetch => StashLoadExact'
<1> SUFFICES ASSUME IInv, StashLoadExact, ObliviousFetch PROVE StashLoadExact'
  OBVIOUS
<1>1. pc = "fetch" /\ stashLoad = Cardinality(stash) /\ IsFiniteSet(stash)
  BY DEF ObliviousFetch, StashLoadExact, IInv, TypeOK
<1>2. PICK taken \in SUBSET InStash(BlockKey(req.ind)) :
        /\ stash' = stash \ taken
        /\ stashLoad' = IF taken = {} THEN stashLoad ELSE stashLoad - 1
  BY DEF ObliviousFetch, LeftInStash, LoadAfterFetch
<1>3. CASE taken = {}
  BY <1>1, <1>2, <1>3 DEF StashLoadExact
<1>4. CASE taken # {}
  <2>1. PICK b \in taken : taken = {b}
    BY <1>1, <1>4, FetchFinds
  <2>2. stash' = stash \ {b} /\ b \in stash /\ stashLoad' = stashLoad - 1
    BY <1>2, <1>4, <2>1 DEF InStash
  <2>. QED
    BY <1>1, <2>2, FS_RemoveElement DEF StashLoadExact
<1>. QED
  BY <1>3, <1>4

\* No copy of the block put back is in the stash: one block more.
LEMMA PutCounts == IInv /\ StashLoadExact /\ PutToStash => StashLoadExact'
<1> SUFFICES ASSUME IInv, StashLoadExact, PutToStash PROVE StashLoadExact'
  OBVIOUS
<1>1. pc = "put" /\ stashLoad = Cardinality(stash) /\ IsFiniteSet(stash)
  BY DEF PutToStash, StashLoadExact, IInv, TypeOK
<1>2. PutBlock \notin stash
  <2>1. PutBlock.key = BlockKey(req.ind)
    BY DEF PutBlock
  <2>. QED
    BY <1>1, <2>1 DEF IInv, OneCopy, Live
<1>. QED
  BY <1>1, <1>2, FS_AddElement DEF StashLoadExact, PutToStash

\* The eviction counts down by what it moves to the buckets; the rest stays.
LEMMA EvictCounts == IInv /\ StashLoadExact /\ EvictPath => StashLoadExact'
<1> SUFFICES ASSUME IInv, StashLoadExact, EvictPath PROVE StashLoadExact'
  OBVIOUS
<1>1. pc = "evict" /\ stashLoad = Cardinality(stash) /\ IsFiniteSet(stash)
  BY DEF EvictPath, StashLoadExact, IInv, TypeOK
<1>2. PICK lv \in [stash -> Levels \cup {Height}] :
        /\ stash' = Placed(lv, Height)
        /\ stashLoad' = stashLoad - Cardinality(stash \ Placed(lv, Height))
  BY DEF EvictPath, Leftover
<1>3. Placed(lv, Height) \in SUBSET stash
  BY DEF Placed
<1>4. Cardinality(stash \ Placed(lv, Height))
        = Cardinality(stash) - Cardinality(Placed(lv, Height))
  <2>1. stash \cap Placed(lv, Height) = Placed(lv, Height)
    BY <1>3
  <2>. QED
    BY <1>1, <2>1, FS_Difference
<1>5. Cardinality(stash) \in Nat /\ Cardinality(Placed(lv, Height)) \in Nat
  BY <1>1, <1>3, FS_Subset, FS_CardinalityType
<1>. QED
  BY <1>1, <1>2, <1>4, <1>5 DEF StashLoadExact

LEMMA StashLoadStep ==
  ASSUME IInv, StashLoadExact, [Next]_vars PROVE StashLoadExact'
<1>1. ASSUME NEW r \in ReadRequests \cup WriteRequests, StartAccess(r)
      PROVE  StashLoadExact'
  BY <1>1 DEF StartAccess, StashLoadExact
<1>2. CASE DownloadPath
  BY <1>2, DownloadCounts
<1>3. CASE ObliviousFetch
  BY <1>3, FetchCounts
<1>4. CASE PutToStash
  BY <1>4, PutCounts
<1>5. CASE EvictPath
  BY <1>5, EvictCounts
<1>6. CASE PathPointerFault \/ DownloadOverflow \/ PutOverflow
  BY <1>6 DEF PathPointerFault, DownloadOverflow, PutOverflow, Abort, StashLoadExact
<1>7. CASE UNCHANGED vars
  BY <1>7 DEF vars, StashLoadExact
<1>. QED
  BY <1>1, <1>2, <1>3, <1>4, <1>5, <1>6, <1>7 DEF Next, Step, Aborted

\* stash_load, kept by increments, is the number of blocks in the stash: that
\* no step counts a block twice or forgets one needs that none has two copies.
THEOREM StashLoadCounts == ASSUME NoNeighbours PROVE Spec => []StashLoadExact
<1>1. Init => StashLoadExact
  BY FS_EmptySet DEF Init, StashLoadExact
<1>. QED
  BY <1>1, StashLoadStep, Invariant, PTL DEF Spec

-----------------------------------------------------------------------------
(* When the assertions can fail.                                           *)

\* Live blocks have distinct ids, each in use: there are no more live blocks
\* than ids in use.
LEMMA NoMoreThanInUse ==
  ASSUME IInv, pc # "aborted",
         NEW S \in SUBSET Live, NEW T \in SUBSET InUse,
         \A b \in S : b.key - 1 \in InUse => b.key - 1 \in T
  PROVE  /\ IsFiniteSet(T)
         /\ Cardinality(T) \in Nat
         /\ Cardinality(S) =< Cardinality(T)
<1> DEFINE id == [b \in S |-> b.key - 1]
<1>1. IsFiniteSet(T) /\ Cardinality(T) \in Nat
  <2>1. IsFiniteSet(0 .. MaxPosMap - 1)
    BY FS_Interval, PathORAMAssumption
  <2>2. T \subseteq 0 .. MaxPosMap - 1
    BY PathORAMAssumption DEF InUse
  <2>. QED
    BY <2>1, <2>2, FS_Subset, FS_CardinalityType
<1>2. S \subseteq Block
  BY LiveBlocks DEF IInv
<1>3. ASSUME NEW b \in S PROVE b.key - 1 \in T
  <2>1. b \in Live /\ b.key - 1 \in Inds /\ b.path \in Paths
    BY LiveBlocks DEF IInv
  <2>2. b.path = Label(b.key - 1)
    BY DEF IInv, OnLabelledPath
  <2>3. posmap[b.key - 1] # 0
    BY <2>1, <2>2, TreeAssumption DEF IInv, TypeOK, LabelInHand, Label
  <2>. QED
    BY <2>1, <2>3 DEF InUse
<1>4. ASSUME NEW b \in S, NEW c \in S, b.key - 1 = c.key - 1 PROVE b = c
  <2>1. b.key \in Int /\ c.key \in Int
    BY <1>2, DataAssumption DEF Block, BlockKey
  <2>2. b.key = c.key
    BY <1>4, <2>1
  <2>. QED
    BY <2>2 DEF IInv, OneCopy
<1>5. id \in Injection(S, T)
  <2>1. id \in [S -> T]
    BY <1>3
  <2>2. \A b, c \in S : id[b] = id[c] => b = c
    BY <1>4
  <2>. QED
    BY <2>1, <2>2 DEF Injection, IsInjective
<1>. QED
  BY <1>1, <1>5, FS_Injection

\* The pointer behind the map is lost only to an access of the last entry.
WildAtLastEntry == pc = "wild" => req.ind = MaxPosMap - 1

LEMMA WorkingSetStart ==
  ASSUME IInv, NEW r \in ReadRequests \cup WriteRequests, StartAccess(r)
  PROVE  WorkingSetFits' /\ WildAtLastEntry'
<1>1. r.ind \in Inds /\ req' = r
  BY DataTyping DEF Request, StartAccess
<1>2. r.ind \in Nat /\ MaxPosMap \in Nat
  BY <1>1, DataAssumption, PathORAMAssumption
<1>3. pc' = "wild" => r.ind + 1 = MaxPosMap
  BY DEF StartAccess
<1>4. WildAtLastEntry'
  BY <1>1, <1>2, <1>3 DEF WildAtLastEntry
<1>5. pc' # "aborted"
  BY DEF StartAccess
<1>. QED
  BY <1>4, <1>5 DEF WorkingSetFits

LEMMA WorkingSetFault ==
  ASSUME IInv, WildAtLastEntry, PathPointerFault PROVE WorkingSetFits'
<1>1. req.ind \in Inds /\ posmap[req.ind] # 0 /\ req.ind = MaxPosMap - 1
  BY ReqTyping, TreeAssumption
     DEF PathPointerFault, WildAtLastEntry, IInv, TypeOK, LabelInHand
<1>. QED
  BY <1>1 DEF WorkingSetFits, InUse, PathPointerFault, Abort

LEMMA WorkingSetDownload ==
  ASSUME IInv, DownloadOverflow PROVE WorkingSetFits'
<1>1. pc = "download" /\ posmap' = posmap
  BY DEF DownloadOverflow, Abort
<1>2. ~ (Cardinality(stash \cup OnPath) =< StashCap)
  BY <1>1, DownloadDisjoint DEF DownloadOverflow, Fits
<1>3. Cardinality(stash \cup OnPath) =< Cardinality(InUse)
  BY <1>1, DownloadDisjoint, NoMoreThanInUse
<1>4. Cardinality(stash \cup OnPath) \in Nat /\ Cardinality(InUse) \in Nat
  BY <1>1, DownloadDisjoint, NoMoreThanInUse, FS_CardinalityType
<1>5. Cardinality(InUse) > StashCap
  BY <1>2, <1>3, <1>4, PathORAMAssumption
<1>. QED
  BY <1>1, <1>5 DEF WorkingSetFits, InUse

\* The block in hand is in use, and none of the blocks the stash is full of.
LEMMA WorkingSetPut == ASSUME IInv, PutOverflow PROVE WorkingSetFits'
<1> DEFINE others == InUse \ {req.ind}
<1>1. pc = "put" /\ posmap' = posmap
  BY DEF PutOverflow, Abort
<1>2. req.ind \in InUse
  BY <1>1, ReqTyping, TreeAssumption DEF IInv, TypeOK, LabelInHand, InUse
<1>3. Cardinality(stash) =< Cardinality(others) /\ Cardinality(others) \in Nat
  <2>1. \A b \in stash : b.key - 1 # req.ind
    <3>1. \A b \in stash : b.key # BlockKey(req.ind) /\ b.key \in Int
      BY <1>1, DataAssumption DEF IInv, OneCopy, Live, TypeOK, Block, BlockKey
    <3>. QED
      BY <3>1, ReqTyping, DataAssumption DEF IInv, BlockKey
  <2>2. stash \in SUBSET Live /\ others \in SUBSET InUse
    BY DEF Live
  <2>. QED
    BY <1>1, <2>1, <2>2, NoMoreThanInUse
<1>4. IsFiniteSet(InUse) /\ Cardinality(InUse) \in Nat
  BY <1>1, NoMoreThanInUse
<1>5. Cardinality(others) = Cardinality(InUse) - 1
  BY <1>2, <1>4, FS_RemoveElement
<1>6. Cardinality(stash) >= StashCap /\ Cardinality(stash) \in Nat
  BY FS_CardinalityType DEF PutOverflow, IInv, TypeOK
<1>7. Cardinality(InUse) > StashCap
  BY <1>3, <1>4, <1>5, <1>6, PathORAMAssumption
<1>. QED
  BY <1>1, <1>7 DEF WorkingSetFits, InUse

LEMMA WorkingSetStep ==
  ASSUME IInv, WorkingSetFits, WildAtLastEntry, [Next]_vars
  PROVE  WorkingSetFits' /\ WildAtLastEntry'
<1>1. ASSUME NEW r \in ReadRequests \cup WriteRequests, StartAccess(r)
      PROVE  WorkingSetFits' /\ WildAtLastEntry'
  BY <1>1, WorkingSetStart
<1>2. CASE DownloadPath \/ ObliviousFetch \/ PutToStash \/ EvictPath
  BY <1>2 DEF DownloadPath, ObliviousFetch, PutToStash, EvictPath,
              WorkingSetFits, WildAtLastEntry
<1>3. CASE PathPointerFault \/ DownloadOverflow \/ PutOverflow
  <2>1. WildAtLastEntry'
    BY <1>3 DEF PathPointerFault, DownloadOverflow, PutOverflow, Abort,
                WildAtLastEntry
  <2>. QED
    BY <1>3, <2>1, WorkingSetFault, WorkingSetDownload, WorkingSetPut
<1>4. CASE UNCHANGED vars
  BY <1>4 DEF vars, WorkingSetFits, InUse, WildAtLastEntry
<1>. QED
  BY <1>1, <1>2, <1>3, <1>4 DEF Next, Step, Aborted

\* The process ends only with more blocks in use than the stash has slots, or
\* by an access to the last entry of the map.
THEOREM NoEarlyOverflow == ASSUME NoNeighbours PROVE Spec => []WorkingSetFits
<1>1. Init => WorkingSetFits /\ WildAtLastEntry
  BY DEF Init, WorkingSetFits, WildAtLastEntry
<1>. QED
  BY <1>1, WorkingSetStep, Invariant, PTL DEF Spec

-----------------------------------------------------------------------------
(***************************************************************************)
(* PathORAM implements the memory of module ORAM, proved step by step from *)
(* the invariants: only the fetch changes the memory the callers see,      *)
(* wherever the other steps move the blocks.                               *)
(***************************************************************************)

(* The memory, read off the live blocks.                                   *)

\* What block i holds: the data of any live block with its key, for there is
\* one at most.
MemIsLive ==
  \A i \in Inds :
    pc # "aborted" /\ ~ (pc = "put" /\ i = req.ind) =>
      /\ \A b \in Live : b.key = BlockKey(i) => MemBar[i] = b.data
      /\ (\A b \in Live : b.key # BlockKey(i)) => MemBar[i] = ZeroBlock

LEMMA MemOfLive == IInv => MemIsLive
<1> SUFFICES ASSUME IInv, NEW i \in Inds,
                    pc # "aborted", ~ (pc = "put" /\ i = req.ind)
             PROVE  /\ \A b \in Live : b.key = BlockKey(i) => MemBar[i] = b.data
                    /\ (\A b \in Live : b.key # BlockKey(i)) => MemBar[i] = ZeroBlock
  BY DEF MemIsLive
<1>1. MemBar[i] = IF \E b \in Live : b.key = BlockKey(i)
                  THEN (CHOOSE b \in Live : b.key = BlockKey(i)).data
                  ELSE ZeroBlock
  BY DEF MemBar
<1>2. ASSUME NEW b \in Live, b.key = BlockKey(i)
      PROVE  (CHOOSE c \in Live : c.key = BlockKey(i)) = b
  BY <1>2 DEF IInv, OneCopy
<1>. QED
  BY <1>1, <1>2

\* The same in the state after a step.
LEMMA MemOfLiveNext == IInv' => MemIsLive'
BY MemOfLive, PTL

LEMMA KeysDistinct ==
  ASSUME NEW i \in Inds, NEW j \in Inds, i # j
  PROVE  BlockKey(i) # BlockKey(j)
<1>1. i \in Nat /\ j \in Nat
  BY DataAssumption
<1>. QED
  BY <1>1 DEF BlockKey

\* A step that leaves the live blocks alone leaves the memory alone.
LEMMA SameLiveSameMem ==
  ASSUME IInv, IInv', Live' = Live,
         pc \notin {"aborted", "put"}, pc' \notin {"aborted", "put"}
  PROVE  MemBar' = MemBar
<1>1. ASSUME NEW i \in Inds PROVE MemBar'[i] = MemBar[i]
  <2>1. CASE \E b \in Live : b.key = BlockKey(i)
    BY <2>1, MemOfLive, MemOfLiveNext DEF MemIsLive
  <2>2. CASE \A b \in Live : b.key # BlockKey(i)
    BY <2>2, MemOfLive, MemOfLiveNext DEF MemIsLive
  <2>. QED
    BY <2>1, <2>2
<1>2. MemBar = [i \in Inds |-> MemBar[i]] /\ MemBar' = [i \in Inds |-> MemBar'[i]]
  BY DEF MemBar
<1>. QED
  BY <1>1, <1>2

\* The phase of the access, by where it is.
Phases ==
  /\ pc = "idle" => PhaseBar = "idle"
  /\ pc \in {"wild", "download", "fetch"} => PhaseBar = "called"
  /\ pc \in {"put", "evict"} => PhaseBar = "served"
  /\ pc = "aborted" => PhaseBar = "crashed"

LEMMA PhaseOf == Phases
BY Zenon DEF Phases, PhaseBar

LEMMA PhaseOfNext == Phases'
BY PhaseOf, PTL

\* Requests and the exchange of bytes are the same in both.
LEMMA SameData ==
  /\ RAM!ZeroBlock = ZeroBlock
  /\ RAM!ReadRequests = ReadRequests
  /\ RAM!WriteRequests = WriteRequests
  /\ \A r, c : RAM!Stored(r, c) = Stored(r, c) /\ RAM!Loaded(r, c) = Loaded(r, c)
<1>1. RAM!Words = Words
  BY DEF Words, RAM!Words
<1>2. RAM!ZeroBlock = ZeroBlock /\ RAM!Contents = Contents
  BY <1>1 DEF ZeroBlock, RAM!ZeroBlock, Contents, RAM!Contents
<1>3. RAM!WriteRanges = WriteRanges
  BY <1>1 DEF WriteRanges, RAM!WriteRanges
<1>4. RAM!ReadRequests = ReadRequests /\ RAM!WriteRequests = WriteRequests
  BY <1>1, <1>2, <1>3
     DEF ReadRequests, RAM!ReadRequests, WriteRequests, RAM!WriteRequests
<1>5. \A r, c : RAM!Stored(r, c) = Stored(r, c) /\ RAM!Loaded(r, c) = Loaded(r, c)
  BY <1>1 DEF Stored, RAM!Stored, Loaded, RAM!Loaded
<1>. QED
  BY <1>2, <1>4, <1>5

-----------------------------------------------------------------------------
(* Each step is a step of the memory, or none.                             *)

LEMMA RefinesInit == Init => RAM!Init
<1> SUFFICES ASSUME Init PROVE RAM!Init
  OBVIOUS
<1>1. pc = "idle" /\ Live = {}
  BY DEF Init, Live, LiveTree, LiveNodes
<1>2. MemBar = [i \in Inds |-> ZeroBlock]
  BY <1>1 DEF MemBar
<1>3. PhaseBar = "idle"
  BY <1>1 DEF PhaseBar
<1>. QED
  BY <1>2, <1>3, SameData DEF Init, RAM!Init

\* The label drawn and swapped is no concern of the memory.
LEMMA RefinesStart ==
  ASSUME IInv, IInv', NEW r \in ReadRequests \cup WriteRequests, StartAccess(r)
  PROVE  RAM!Invoke(r)
<1>1. pc = "idle" /\ pc' \in {"wild", "download"} /\ req' = r
  BY DEF StartAccess
<1>2. Live' = Live
  BY <1>1 DEF Live, LiveTree, LiveNodes, Shadowed, StartAccess
<1>3. MemBar' = MemBar
  BY <1>1, <1>2, SameLiveSameMem
<1>4. PhaseBar = "idle" /\ PhaseBar' = "called"
  BY <1>1, PhaseOf, PhaseOfNext DEF Phases
<1>. QED
  BY <1>1, <1>3, <1>4 DEF RAM!Invoke

LEMMA RefinesDownload ==
  ASSUME IInv, IInv', DownloadPath
  PROVE  UNCHANGED RAM!vars
<1>1. pc = "download" /\ pc' = "fetch" /\ req' = req
  BY DEF DownloadPath
<1>2. MemBar' = MemBar
  BY <1>1, DownloadKeepsLive, SameLiveSameMem
<1>3. PhaseBar = "called" /\ PhaseBar' = "called"
  BY <1>1, PhaseOf, PhaseOfNext DEF Phases
<1>. QED
  BY <1>1, <1>2, <1>3 DEF RAM!vars

\* The fetch serves the request: what it takes out of the stash is what the
\* memory has for the block, and no other block goes with it.
LEMMA RefinesFetch ==
  ASSUME IInv, IInv', ObliviousFetch
  PROVE  RAM!Serve
<1> DEFINE key == BlockKey(req.ind)
<1>1. /\ pc = "fetch" /\ pc' = "put"
      /\ req \in Request /\ req.ind \in Inds
  BY DEF ObliviousFetch, IInv, TypeOK, Request
<1>2. PICK taken \in SUBSET InStash(key), content \in Contents :
        /\ taken = {} => InStash(key) = {}
        /\ stash' = stash \ taken
        /\ taken = {} => content = ZeroBlock
        /\ taken # {} => \E b \in taken : content = b.data
        /\ fetched' = Stored(req, content)
        /\ req' = [req EXCEPT !.buf = Loaded(req, content)]
  BY DEF ObliviousFetch, LeftInStash, BlockAfter, BufferAfter
<1>3. content = MemBar[req.ind]
  <2>1. CASE taken = {}
    <3>1. \A b \in Live : b.key # key
      BY <1>1, <1>2, <2>1, FetchFinds
    <3>. QED
      BY <1>1, <1>2, <2>1, <3>1, MemOfLive DEF MemIsLive
  <2>2. CASE taken # {}
    <3>1. PICK b \in taken : content = b.data
      BY <1>2, <2>2
    <3>2. b \in Live /\ b.key = key
      BY <3>1 DEF InStash, Live
    <3>. QED
      BY <1>1, <3>1, <3>2, MemOfLive DEF MemIsLive
  <2>. QED
    BY <2>1, <2>2
<1>4. req'.ind = req.ind
  BY <1>1, <1>2 DEF Request
<1>5. LiveTree' = LiveTree
  BY <1>1 DEF LiveNodes, LiveTree, Shadowed, ObliviousFetch
<1>6. ASSUME NEW i \in Inds, i # req.ind
      PROVE  MemBar'[i] = MemBar[i]
  <2>1. BlockKey(i) # key
    BY <1>1, <1>6, KeysDistinct
  <2>2. \A b : b.key = BlockKey(i) => (b \in Live <=> b \in Live')
    BY <1>2, <1>5, <2>1 DEF Live, InStash
  <2>3. CASE \E b \in Live : b.key = BlockKey(i)
    BY <1>1, <1>4, <1>6, <2>2, <2>3, MemOfLive, MemOfLiveNext DEF MemIsLive
  <2>4. CASE \A b \in Live : b.key # BlockKey(i)
    BY <1>1, <1>4, <1>6, <2>2, <2>4, MemOfLive, MemOfLiveNext DEF MemIsLive
  <2>. QED
    BY <2>3, <2>4
<1>7. MemBar'[req.ind] = Stored(req, content)
  BY <1>1, <1>2, <1>4 DEF MemBar
<1>8. MemBar' = [MemBar EXCEPT ![req.ind] = Stored(req, content)]
  <2>1. MemBar = [i \in Inds |-> MemBar[i]] /\ MemBar' = [i \in Inds |-> MemBar'[i]]
    BY DEF MemBar
  <2>. QED
    BY <1>1, <1>6, <1>7, <2>1
<1>9. PhaseBar = "called" /\ PhaseBar' = "served"
  BY <1>1, PhaseOf, PhaseOfNext DEF Phases
<1>. QED
  BY <1>2, <1>3, <1>8, <1>9, SameData DEF RAM!Serve

LEMMA RefinesPut ==
  ASSUME IInv, IInv', PutToStash
  PROVE  UNCHANGED RAM!vars
<1>1. pc = "put" /\ pc' = "evict" /\ req' = req /\ req.ind \in Inds
  BY DEF PutToStash, IInv, TypeOK, Request
<1>2. LiveTree' = LiveTree
  BY <1>1 DEF LiveNodes, LiveTree, Shadowed, PutToStash
<1>3. /\ Live' = Live \cup {PutBlock}
      /\ PutBlock.key = BlockKey(req.ind) /\ PutBlock.data = fetched
  BY <1>2 DEF Live, PutToStash, PutBlock
<1>4. MemBar'[req.ind] = MemBar[req.ind]
  <2>1. MemBar'[req.ind] = fetched
    BY <1>1, <1>3, MemOfLiveNext DEF MemIsLive
  <2>2. MemBar[req.ind] = fetched
    BY <1>1 DEF MemBar
  <2>. QED
    BY <2>1, <2>2
<1>5. ASSUME NEW i \in Inds, i # req.ind
      PROVE  MemBar'[i] = MemBar[i]
  <2>1. BlockKey(i) # BlockKey(req.ind)
    BY <1>1, <1>5, KeysDistinct
  <2>2. \A b : b.key = BlockKey(i) => (b \in Live <=> b \in Live')
    BY <1>3, <2>1
  <2>3. CASE \E b \in Live : b.key = BlockKey(i)
    BY <1>1, <1>5, <2>2, <2>3, MemOfLive, MemOfLiveNext DEF MemIsLive
  <2>4. CASE \A b \in Live : b.key # BlockKey(i)
    BY <1>1, <1>5, <2>2, <2>4, MemOfLive, MemOfLiveNext DEF MemIsLive
  <2>. QED
    BY <2>3, <2>4
<1>6. MemBar' = MemBar
  <2>1. MemBar = [i \in Inds |-> MemBar[i]] /\ MemBar' = [i \in Inds |-> MemBar'[i]]
    BY DEF MemBar
  <2>. QED
    BY <1>4, <1>5, <2>1
<1>7. PhaseBar = "served" /\ PhaseBar' = "served"
  BY <1>1, PhaseOf, PhaseOfNext DEF Phases
<1>. QED
  BY <1>1, <1>6, <1>7 DEF RAM!vars

LEMMA RefinesEvict ==
  ASSUME IInv, IInv', EvictPath
  PROVE  RAM!Return
<1>1. pc = "evict" /\ pc' = "idle" /\ req' = req
  BY DEF EvictPath
<1>2. Live' = Live
  BY EvictionKeepsLive, EvictionAddsNone
<1>3. MemBar' = MemBar
  BY <1>1, <1>2, SameLiveSameMem
<1>4. PhaseBar = "served" /\ PhaseBar' = "idle"
  BY <1>1, PhaseOf, PhaseOfNext DEF Phases
<1>. QED
  BY <1>1, <1>3, <1>4 DEF RAM!Return

\* A process that ends takes its memory with it.
LEMMA RefinesAbort ==
  ASSUME pc \in {"wild", "download", "put"}, Abort
  PROVE  RAM!Crash
<1>1. pc' = "aborted" /\ req' = req
  BY DEF Abort
<1>2. MemBar' = [i \in Inds |-> ZeroBlock]
  BY <1>1 DEF MemBar
<1>3. PhaseBar \in {"called", "served"} /\ PhaseBar' = "crashed"
  BY <1>1, PhaseOf, PhaseOfNext DEF Phases
<1>. QED
  BY <1>1, <1>2, <1>3, SameData DEF RAM!Crash

LEMMA RefinesStep ==
  ASSUME IInv, IInv', [Next]_vars
  PROVE  [RAM!Next]_(RAM!vars)
<1>1. ASSUME NEW r \in ReadRequests \cup WriteRequests, StartAccess(r)
      PROVE  RAM!Next
  BY <1>1, RefinesStart, SameData DEF RAM!Next
<1>2. CASE DownloadPath
  BY <1>2, RefinesDownload
<1>3. CASE ObliviousFetch
  BY <1>3, RefinesFetch DEF RAM!Next
<1>4. CASE PutToStash
  BY <1>4, RefinesPut
<1>5. CASE EvictPath
  BY <1>5, RefinesEvict DEF RAM!Next
<1>6. CASE PathPointerFault \/ DownloadOverflow \/ PutOverflow
  BY <1>6, RefinesAbort
     DEF PathPointerFault, DownloadOverflow, PutOverflow, RAM!Next
<1>7. CASE UNCHANGED vars
  <2>1. UNCHANGED <<pc, req, fetched, stash, tree, path>>
    BY <1>7 DEF vars
  <2>2. Live' = Live
    BY <2>1 DEF Live, LiveTree, LiveNodes, Shadowed
  <2>. QED
    BY <2>1, <2>2 DEF RAM!vars, MemBar, PhaseBar
<1>. QED
  BY <1>1, <1>2, <1>3, <1>4, <1>5, <1>6, <1>7 DEF Next, Step, Aborted

\* For trees, buckets and stashes of every size, any labels drawn and any
\* choices of the evictions, the accesses of PathORAM are the reads and writes
\* of a memory of blocks, as long as no caller uses two neighbouring ids.
THEOREM RefinesORAM == ASSUME NoNeighbours PROVE Spec => ImplementsORAM
<1>1. IInv /\ IInv' /\ [Next]_vars => [RAM!Next]_(RAM!vars)
  BY RefinesStep
<1>. QED
  BY <1>1, RefinesInit, Invariant, PTL DEF Spec, ImplementsORAM, RAM!Spec
=============================================================================
