-------------------------- MODULE TreeWalk_proofs --------------------------
(***************************************************************************)
(* The walks of labels through the tree, for trees of every height the     *)
(* code can address.                                                       *)
(***************************************************************************)
EXTENDS TreeWalk, TLAPS

LEMMA IInvInit == Init => IInv
<1> SUFFICES ASSUME Init PROVE IInv
  OBVIOUS
<1>. USE WalkAssumption DEF Init, Levels, Bit, Zeros
<1>1. TypeOK /\ CounterOK
  BY DEF TypeOK, CounterOK
<1>2. LevelsDisjoint /\ AddrIsWalk
  BY DEF LevelsDisjoint, AddrIsWalk, Known, Read
<1>3. KeptByPrefix /\ SameNodeSamePrefix
  BY DEF KeptByPrefix, SameNodeSamePrefix, SamePrefix, Read
<1>. QED
  BY <1>1, <1>2, <1>3 DEF IInv

\* The masks of two successive levels.
LEMMA PrefixStep ==
  ASSUME NEW a, NEW b, NEW l \in Nat
  PROVE  SamePrefix(a, b, l + 1) <=> SamePrefix(a, b, l) /\ a[l] = b[l]
BY DEF SamePrefix

\* One address tells which parent it is a child of and on which side.
LEMMA NextAddrInjective ==
  ASSUME NEW a \in Nat, NEW b \in Nat, NEW c \in Bit, NEW d \in Bit
  PROVE  NextAddr(a, c) = NextAddr(b, d) <=> a = b /\ c = d
BY DEF NextAddr, Bit

\* A child lies among the nodes of the level below its parent's.
LEMMA NextAddrInLevel ==
  ASSUME NEW a \in Nat, NEW f \in Nat, NEW c \in Bit, f =< a, a =< 2 * f
  PROVE  /\ NextAddr(a, c) \in Nat
         /\ 2 * f + 1 =< NextAddr(a, c) /\ NextAddr(a, c) =< 2 * (2 * f + 1)
BY DEF NextAddr, Bit

\* What TypeOK says of single entries.
LEMMA EntryTypes ==
  ASSUME TypeOK
  PROVE  /\ h \in Int
         /\ \A l \in 0 .. Height : addr[l] \in Nat /\ seen[l] \in Nat /\ first[l] \in Nat
         /\ \A l \in Levels : p[l] \in Bit /\ q[l] \in Bit
<1>1. h \in Int
  BY WalkAssumption DEF TypeOK
<1>2. \A l \in 0 .. Height : addr[l] \in Nat /\ seen[l] \in Nat /\ first[l] \in Nat
  BY DEF TypeOK
<1>3. p \in [Levels -> Bit] /\ q \in [Levels -> Bit]
  BY WalkAssumption DEF TypeOK
<1>. QED
  BY <1>1, <1>2, <1>3

LEMMA IInvAddress == IInv /\ Address => IInv'
<1> SUFFICES ASSUME IInv, Address PROVE IInv'
  OBVIOUS
<1>0. TypeOK /\ h \in Int /\ Height \in Nat /\ ~ (pc = "evict") /\ ~ (pc = "download")
  BY EntryTypes, WalkAssumption DEF IInv, Address
<1>a. /\ pc = "addresses" /\ pc' = pc /\ h < Height /\ h' = h + 1
      /\ addr' = [addr EXCEPT ![h + 1] = NextAddr(addr[h], p[h])]
      /\ first' = [first EXCEPT ![h + 1] = first[h] * 2 + 1]
      /\ p' = p /\ q' = q /\ kept' = kept /\ seen' = seen
  BY DEF Address
<1>b. h \in 0 .. Height - 1 /\ h + 1 \in 1 .. Height
  BY <1>0, <1>a DEF IInv, CounterOK
<1>c. Known = h /\ Known' = h + 1 /\ Read = 0 /\ Read' = 0
  BY <1>0, <1>a DEF Known, Read
<1>1. /\ TypeOK /\ pc = "addresses" /\ pc' = pc
      /\ h \in Levels /\ h + 1 \in 1 .. Height /\ h' = h + 1
      /\ Known = h /\ Known' = h + 1 /\ Read = 0 /\ Read' = 0
      /\ addr' = [addr EXCEPT ![h + 1] = NextAddr(addr[h], p[h])]
      /\ first' = [first EXCEPT ![h + 1] = first[h] * 2 + 1]
      /\ p' = p /\ q' = q /\ kept' = kept /\ seen' = seen
  BY <1>0, <1>a, <1>b, <1>c DEF Levels
<1>2. /\ addr[h] \in Nat /\ first[h] \in Nat /\ p[h] \in Bit
      /\ first[h] =< addr[h] /\ addr[h] =< 2 * first[h]
  <2>1. h \in 0 .. Height /\ h \in 0 .. Known
    BY <1>0, <1>1 DEF Levels
  <2>. QED
    BY <1>1, <2>1, EntryTypes DEF IInv, LevelsDisjoint
<1>3. /\ NextAddr(addr[h], p[h]) \in Nat
      /\ 2 * first[h] + 1 =< NextAddr(addr[h], p[h])
      /\ NextAddr(addr[h], p[h]) =< 2 * (2 * first[h] + 1)
  BY <1>2, NextAddrInLevel
<1>4. TypeOK' /\ CounterOK'
  <2>1. h' \in -1 .. Height /\ h' >= 0
    BY <1>0, <1>1
  <2>2. addr' \in [0 .. Height -> Nat]
    <3>1. addr \in [0 .. Height -> Nat]
      BY <1>1 DEF TypeOK
    <3>2. NextAddr(addr[h], p[h]) \in Nat
      BY <1>3
    <3>. QED BY <1>1, <3>1, <3>2
  <2>3. first' \in [0 .. Height -> Nat]
    <3>1. first[h] * 2 + 1 \in Nat
      BY <1>2
    <3>. QED
      BY <1>0, <1>1, <3>1 DEF TypeOK
  <2>. QED
    BY <1>1, <2>1, <2>2, <2>3 DEF TypeOK, CounterOK
<1>5. \A l \in 0 .. h : addr'[l] = addr[l] /\ first'[l] = first[l]
  <2>1. /\ DOMAIN addr = 0 .. Height /\ DOMAIN first = 0 .. Height
        /\ \A l \in 0 .. h : l \in 0 .. Height /\ l # h + 1
    BY <1>0, <1>1 DEF TypeOK, Levels
  <2>. QED BY <1>1, <2>1
<1>6. addr'[h + 1] = NextAddr(addr[h], p[h]) /\ first'[h + 1] = 2 * first[h] + 1
  BY <1>0, <1>1, <1>2 DEF TypeOK, Levels
<1>7. LevelsDisjoint'
  <2>1. \A l \in 0 .. h + 1 : first'[l] =< addr'[l] /\ addr'[l] =< 2 * first'[l]
    BY <1>1, <1>3, <1>5, <1>6 DEF IInv, LevelsDisjoint, Levels
  <2>2. \A l \in 0 .. 0 : first'[l] =< seen'[l] /\ seen'[l] =< 2 * first'[l]
    BY <1>1, <1>5 DEF IInv, LevelsDisjoint, Levels
  <2>3. \A l, m \in 0 .. h + 1 : l < m => 2 * first'[l] < first'[m]
    <3> SUFFICES ASSUME NEW l \in 0 .. h + 1, NEW m \in 0 .. h + 1, l < m
                 PROVE  2 * first'[l] < first'[m]
      OBVIOUS
    <3>1. l \in 0 .. h /\ first'[l] = first[l] /\ first[l] \in Nat
      <4>1. l \in 0 .. h /\ l \in 0 .. Height
        BY <1>0, <1>1 DEF Levels
      <4>. QED
        BY <1>1, <1>5, <4>1, EntryTypes
    <3>2. CASE m \in 0 .. h
      BY <1>1, <1>5, <3>1, <3>2 DEF IInv, LevelsDisjoint
    <3>3. CASE m = h + 1
      <4>1. l = h \/ 2 * first[l] < first[h]
        BY <1>1, <3>1 DEF IInv, LevelsDisjoint, Levels
      <4>. QED
        BY <1>2, <1>6, <3>1, <3>3, <4>1
    <3>. QED
      BY <1>1, <3>2, <3>3 DEF Levels
  <2>. QED
    BY <1>1, <2>1, <2>2, <2>3 DEF LevelsDisjoint
<1>8. KeptByPrefix'
  BY <1>1 DEF IInv, KeptByPrefix
<1>9. SameNodeSamePrefix'
  BY <1>1, <1>5 DEF IInv, SameNodeSamePrefix, SamePrefix, Levels
<1>10. AddrIsWalk'
  <2>1. \A l \in Levels : l < h + 1 => /\ addr'[l + 1] = NextAddr(addr'[l], p[l])
                                       /\ first'[l + 1] = 2 * first'[l] + 1
    <3> SUFFICES ASSUME NEW l \in Levels, l < h + 1
                 PROVE  /\ addr'[l + 1] = NextAddr(addr'[l], p[l])
                        /\ first'[l + 1] = 2 * first'[l] + 1
      OBVIOUS
    <3>1. CASE l = h
      BY <1>1, <1>5, <1>6, <3>1 DEF Levels
    <3>2. CASE l < h
      BY <1>1, <1>5, <3>2 DEF IInv, AddrIsWalk, Levels
    <3>. QED
      BY <1>1, <3>1, <3>2 DEF Levels
  <2>. QED
    BY <1>1, <1>5, <2>1 DEF IInv, AddrIsWalk, Levels
<1>. QED
  BY <1>4, <1>7, <1>8, <1>9, <1>10 DEF IInv

LEMMA IInvStartEvict == IInv /\ StartEvict => IInv'
<1> SUFFICES ASSUME IInv, StartEvict PROVE IInv'
  OBVIOUS
<1>1. Known' = Known /\ Read' = Read
  BY DEF StartEvict, Known, Read
<1>2. TypeOK' /\ CounterOK'
  BY WalkAssumption DEF IInv, TypeOK, CounterOK, StartEvict
<1>3. KeptByPrefix'
  BY WalkAssumption DEF IInv, KeptByPrefix, StartEvict
<1>4. LevelsDisjoint' /\ SameNodeSamePrefix' /\ AddrIsWalk'
  BY <1>1 DEF IInv, StartEvict, LevelsDisjoint, SameNodeSamePrefix, AddrIsWalk
<1>. QED
  BY <1>2, <1>3, <1>4 DEF IInv

LEMMA IInvEvictLevel == IInv /\ EvictLevel => IInv'
<1> SUFFICES ASSUME IInv, EvictLevel PROVE IInv'
  OBVIOUS
<1>1. Known' = Known /\ Read' = Read
  BY DEF EvictLevel, Known, Read
<1>2. h \in Levels /\ h' = h - 1
  BY WalkAssumption DEF IInv, TypeOK, CounterOK, EvictLevel, Levels
<1>3. TypeOK' /\ CounterOK'
  <2>1. /\ h' = h - 1 /\ h \in 0 .. Height - 1 /\ Height \in Nat /\ pc' = "evict"
        /\ TypeOK /\ UNCHANGED <<p, q, addr, seen, first>>
    BY <1>2, WalkAssumption DEF IInv, EvictLevel, Levels
  <2>2. h' \in -1 .. Height /\ h' < Height
    BY <2>1
  <2>3. kept' \subseteq Levels
    BY <1>2 DEF IInv, TypeOK, EvictLevel
  <2>. QED BY <2>1, <2>2, <2>3 DEF TypeOK, CounterOK
<1>4. KeptByPrefix'
  <2>1. kept = {l \in h + 1 .. Height - 1 : SamePrefix(p, q, l)}
    BY DEF IInv, KeptByPrefix, EvictLevel
  <2>2. h .. Height - 1 = {h} \cup (h + 1 .. Height - 1)
    BY <1>2, WalkAssumption DEF Levels
  <2>3. kept' = {l \in h .. Height - 1 : SamePrefix(p, q, l)}
    BY <2>1, <2>2 DEF EvictLevel
  <2>. QED
    BY <1>2, <2>3, WalkAssumption DEF EvictLevel, KeptByPrefix, SamePrefix, Levels
<1>5. LevelsDisjoint' /\ SameNodeSamePrefix' /\ AddrIsWalk'
  BY <1>1 DEF IInv, EvictLevel, LevelsDisjoint, SameNodeSamePrefix, AddrIsWalk
<1>. QED
  BY <1>3, <1>4, <1>5 DEF IInv

LEMMA IInvStartDownload == IInv /\ StartDownload => IInv'
<1> SUFFICES ASSUME IInv, StartDownload PROVE IInv'
  OBVIOUS
<1>1. Known' = Known /\ Read' = Read
  BY DEF StartDownload, Known, Read
<1>2. TypeOK' /\ CounterOK'
  BY WalkAssumption DEF IInv, TypeOK, CounterOK, StartDownload
<1>3. KeptByPrefix'
  BY WalkAssumption DEF IInv, KeptByPrefix, StartDownload, Levels
<1>4. LevelsDisjoint' /\ SameNodeSamePrefix' /\ AddrIsWalk'
  BY <1>1 DEF IInv, StartDownload, LevelsDisjoint, SameNodeSamePrefix, AddrIsWalk
<1>. QED
  BY <1>2, <1>3, <1>4 DEF IInv

LEMMA IInvDownloadLevel == IInv /\ DownloadLevel => IInv'
<1> SUFFICES ASSUME IInv, DownloadLevel PROVE IInv'
  OBVIOUS
<1>0. TypeOK /\ h \in Int /\ Height \in Nat /\ ~ (pc = "evict") /\ ~ (pc = "addresses")
  BY EntryTypes, WalkAssumption DEF IInv, DownloadLevel
<1>a. /\ pc = "download" /\ pc' = pc /\ h < Height /\ h' = h + 1
      /\ seen' = [seen EXCEPT ![h + 1] = NextAddr(seen[h], q[h])]
      /\ p' = p /\ q' = q /\ kept' = kept /\ addr' = addr /\ first' = first
  BY DEF DownloadLevel
<1>b. h \in 0 .. Height - 1 /\ h + 1 \in 1 .. Height
  BY <1>0, <1>a DEF IInv, CounterOK
<1>c. Known = Height /\ Known' = Height /\ Read = h /\ Read' = h + 1
  BY <1>0, <1>a DEF Known, Read
<1>1. /\ TypeOK /\ pc = "download" /\ pc' = pc
      /\ h \in Levels /\ h + 1 \in 1 .. Height /\ h' = h + 1
      /\ Known = Height /\ Known' = Height /\ Read = h /\ Read' = h + 1
      /\ seen' = [seen EXCEPT ![h + 1] = NextAddr(seen[h], q[h])]
      /\ p' = p /\ q' = q /\ kept' = kept /\ addr' = addr /\ first' = first
  BY <1>0, <1>a, <1>b, <1>c DEF Levels
<1>2. /\ seen[h] \in Nat /\ addr[h] \in Nat /\ first[h] \in Nat
      /\ p[h] \in Bit /\ q[h] \in Bit
      /\ first[h] =< seen[h] /\ seen[h] =< 2 * first[h]
  <2>1. h \in 0 .. Height /\ h \in 0 .. Read
    BY <1>0, <1>1 DEF Levels
  <2>. QED
    BY <1>1, <2>1, EntryTypes DEF IInv, LevelsDisjoint
<1>3. /\ NextAddr(seen[h], q[h]) \in Nat
      /\ 2 * first[h] + 1 =< NextAddr(seen[h], q[h])
      /\ NextAddr(seen[h], q[h]) =< 2 * (2 * first[h] + 1)
  BY <1>2, NextAddrInLevel
<1>4. TypeOK' /\ CounterOK'
  <2>1. h' \in -1 .. Height /\ h' >= 0
    BY <1>0, <1>1
  <2>2. seen' \in [0 .. Height -> Nat]
    <3>1. seen \in [0 .. Height -> Nat]
      BY <1>1 DEF TypeOK
    <3>2. NextAddr(seen[h], q[h]) \in Nat
      BY <1>3
    <3>. QED BY <1>1, <3>1, <3>2
  <2>. QED
    BY <1>1, <2>1, <2>2 DEF TypeOK, CounterOK
<1>5. /\ \A l \in 0 .. h : seen'[l] = seen[l]
      /\ seen'[h + 1] = NextAddr(seen[h], q[h])
  BY <1>0, <1>1, <1>2 DEF TypeOK, Levels
<1>6. /\ addr[h + 1] = NextAddr(addr[h], p[h])
      /\ first[h + 1] = 2 * first[h] + 1
  <2>1. h \in Levels /\ h < Known
    BY <1>0, <1>1 DEF Levels
  <2>. QED
    BY <2>1 DEF IInv, AddrIsWalk
<1>7. LevelsDisjoint'
  <2>1. \A l \in 0 .. h + 1 : first[l] =< seen'[l] /\ seen'[l] =< 2 * first[l]
    BY <1>1, <1>3, <1>5, <1>6 DEF IInv, LevelsDisjoint, Levels
  <2>. QED
    BY <1>1, <2>1 DEF IInv, LevelsDisjoint
<1>8. KeptByPrefix'
  BY <1>1 DEF IInv, KeptByPrefix
<1>9. SameNodeSamePrefix'
  <2>1. SamePrefix(p, q, h) <=> seen[h] = addr[h]
    BY <1>1 DEF IInv, SameNodeSamePrefix, Levels
  <2>2. SamePrefix(p, q, h + 1) <=> SamePrefix(p, q, h) /\ p[h] = q[h]
    BY <1>1, PrefixStep DEF Levels
  <2>3. seen'[h + 1] = addr[h + 1] <=> seen[h] = addr[h] /\ q[h] = p[h]
    BY <1>2, <1>5, <1>6, NextAddrInjective
  <2>4. SamePrefix(p, q, h + 1) <=> seen'[h + 1] = addr[h + 1]
    BY <2>1, <2>2, <2>3
  <2>5. \A l \in 0 .. h : SamePrefix(p, q, l) <=> seen'[l] = addr[l]
    BY <1>1, <1>5 DEF IInv, SameNodeSamePrefix
  <2>6. \A l \in 0 .. h + 1 : SamePrefix(p, q, l) <=> seen'[l] = addr[l]
    BY <1>1, <2>4, <2>5 DEF Levels
  <2>. QED
    BY <1>1, <2>6 DEF SameNodeSamePrefix, SamePrefix
<1>10. AddrIsWalk'
  BY <1>1, <1>5 DEF IInv, AddrIsWalk, Levels
<1>. QED
  BY <1>4, <1>7, <1>8, <1>9, <1>10 DEF IInv

LEMMA IInvStep == IInv /\ [Next]_vars => IInv'
<1>1. IInv /\ UNCHANGED vars => IInv'
  BY DEF vars, IInv, TypeOK, CounterOK, LevelsDisjoint, KeptByPrefix, SameNodeSamePrefix,
         AddrIsWalk, Known, Read
<1>. QED
  BY <1>1, IInvAddress, IInvStartEvict, IInvEvictLevel, IInvStartDownload,
     IInvDownloadLevel DEF Next, Done

LEMMA IInvNodes == IInv => NodesOfTheTree
<1> SUFFICES ASSUME IInv, Finished, NEW l \in Levels
             PROVE  /\ first[l] =< addr[l] /\ addr[l] < first[l + 1] /\ addr[l] < first[Height]
                    /\ first[l] =< seen[l] /\ seen[l] < first[l + 1] /\ seen[l] < first[Height]
  BY DEF NodesOfTheTree
<1>1. Known = Height /\ Read = Height
  BY DEF Finished, Known, Read
<1>2. /\ l \in 0 .. Height /\ l + 1 \in 0 .. Height /\ Height \in 0 .. Height
      /\ l < l + 1 /\ l < Height
  BY WalkAssumption DEF Levels
<1>3. /\ addr[l] \in Nat /\ seen[l] \in Nat /\ first[l] \in Nat
      /\ first[l + 1] \in Nat /\ first[Height] \in Nat
  BY <1>2 DEF IInv, TypeOK
<1>4. /\ first[l] =< addr[l] /\ addr[l] =< 2 * first[l]
      /\ first[l] =< seen[l] /\ seen[l] =< 2 * first[l]
      /\ 2 * first[l] < first[l + 1] /\ 2 * first[l] < first[Height]
  BY <1>1, <1>2 DEF IInv, LevelsDisjoint
<1>. QED
  BY <1>3, <1>4

LEMMA IInvMask == IInv => MaskAdmitsSharedNodes
<1> SUFFICES ASSUME IInv, Finished
             PROVE  {addr[l] : l \in kept}
                      = {addr[l] : l \in Levels} \cap {seen[l] : l \in Levels}
  BY DEF MaskAdmitsSharedNodes
<1>1. Known = Height /\ Read = Height
  BY DEF Finished, Known, Read
<1>2. kept = {l \in Levels : SamePrefix(p, q, l)}
  BY DEF IInv, KeptByPrefix, Finished
<1>3. \A l \in Levels : SamePrefix(p, q, l) <=> seen[l] = addr[l]
  BY <1>1, WalkAssumption DEF IInv, SameNodeSamePrefix, Levels
<1>4. ASSUME NEW l \in Levels, NEW m \in Levels, addr[l] = seen[m] PROVE l = m
  <2>1. /\ first[l] \in Nat /\ first[m] \in Nat /\ addr[l] \in Nat /\ seen[m] \in Nat
        /\ first[l] =< addr[l] /\ addr[l] =< 2 * first[l]
        /\ first[m] =< seen[m] /\ seen[m] =< 2 * first[m]
        /\ l < m => 2 * first[l] < first[m]
        /\ m < l => 2 * first[m] < first[l]
    <3>1. l \in 0 .. Height /\ m \in 0 .. Height
      BY WalkAssumption DEF Levels
    <3>. QED
      BY <1>1, <3>1, EntryTypes DEF IInv, LevelsDisjoint
  <2>2. ~ (l < m) /\ ~ (m < l)
    BY <1>4, <2>1
  <2>. QED
    BY <2>2, WalkAssumption DEF Levels
<1>. QED
  BY <1>2, <1>3, <1>4

\* Counters stay in their loops and addresses are natural numbers.
THEOREM TypeCorrect == Spec => []TypeOK
<1>1. IInv => TypeOK
  BY DEF IInv
<1>. QED
  BY <1>1, IInvInit, IInvStep, PTL DEF Spec

\* In a tree of any height no walk leaves the allocated nodes, and every
\* address is that of a node on the level the loop is at.
THEOREM WalksStayInTree == Spec => []NodesOfTheTree
BY IInvInit, IInvStep, IInvNodes, PTL DEF Spec

\* In a tree of any height the eviction's mask admits a block to exactly the
\* nodes of the path that the download along the block's label reads.
THEOREM MaskIsTheWalk == Spec => []MaskAdmitsSharedNodes
BY IInvInit, IInvStep, IInvMask, PTL DEF Spec
=============================================================================
