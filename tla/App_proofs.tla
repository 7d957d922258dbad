----------------------------- MODULE App_proofs -----------------------------
(***************************************************************************)
(* Theorems about the two models of the application's own process, of the  *)
(* objects it makes and of the buffers it hands them.                      *)
(*                                                                         *)
(* Lifecycle, for all capacities and block sizes, any map bound and path   *)
(* array, and any number of objects and accesses.                          *)
(*                                                                         *)
(* Benchmark, for any numbers of blocks, any number of rounds and any heap *)
(* of one chunk or more.                                                   *)
(***************************************************************************)
EXTENDS Lifecycle, Benchmark, Common_proofs

-----------------------------------------------------------------------------
(* Sums over finite sets of objects.                                       *)

\* What every nonempty subset has when it has it without any one of its
\* members, all subsets of a finite set have.
LEMMA SubsetInduction ==
  ASSUME NEW S, IsFiniteSet(S), NEW G, {} \in G,
         \A T \in SUBSET S : T # {} /\ (\A x \in T : T \ {x} \in G) => T \in G
  PROVE  \A T \in SUBSET S : T \in G
<1> DEFINE H == {n \in Nat : \A T \in SUBSET S : Cardinality(T) = n => T \in G}
<1>1. ASSUME NEW T \in SUBSET S
      PROVE  IsFiniteSet(T) /\ Cardinality(T) \in Nat
  BY FS_Subset, FS_CardinalityType
<1>2. H \in SUBSET Nat /\ 0 \in H
  BY <1>1, FS_EmptySet
<1>3. ASSUME NEW n \in H PROVE n + 1 \in H
  <2>1. n \in Nat /\ \A T \in SUBSET S : Cardinality(T) = n => T \in G
    BY <1>3
  <2>2. ASSUME NEW T \in SUBSET S, Cardinality(T) = n + 1 PROVE T \in G
    <3>1. T # {}
      BY <2>1, <2>2, FS_EmptySet
    <3>2. ASSUME NEW x \in T PROVE T \ {x} \in G
      <4>1. Cardinality(T \ {x}) = Cardinality(T) - 1
        BY <1>1, FS_RemoveElement
      <4>2. T \ {x} \in SUBSET S
        OBVIOUS
      <4>. QED BY <2>1, <2>2, <4>1, <4>2
    <3>. QED BY <3>1, <3>2
  <2>. QED BY <2>1, <2>2
<1> HIDE DEF H
<1>4. H = Nat
  BY <1>2, <1>3, SetInduction
<1>. QED BY <1>1, <1>4 DEF H

\* The chunks the objects of a set allocate: the sum Lifecycle takes, and the
\* functions of subsets that add the objects up in the order it does.
Sized(S) == IsFiniteSet(S) /\ \A o \in S : o.height \in Nat
Pick(s) == CHOOSE x \in s : TRUE
Sum(S) == MapThenSumSet(Allocates, S)
Adding(S, f) ==
  [s \in SUBSET S |-> IF s = {} THEN 0 ELSE Allocates(Pick(s)) + f[s \ {Pick(s)}]]
IsTotal(f, S) == f \in [SUBSET S -> Nat] /\ f = Adding(S, f)
InAnyOrder(f, S) == \A s \in SUBSET S : \A y \in s : f[s] = Allocates(y) + f[s \ {y}]

LEMMA SumIsFixed ==
  ASSUME NEW S
  PROVE  Sum(S) = (CHOOSE f : f = Adding(S, f))[S]
BY DEF Sum, MapThenSumSet, MapThenFoldSet, Adding, Pick

\* FreeMemTree and the rest free as many chunks as were allocated.
LEMMA FreesAllocated ==
  ASSUME NEW S
  PROVE  MapThenSumSet(Frees, S) = Sum(S)
BY DEF Sum, MapThenSumSet, MapThenFoldSet, Frees, Allocates, TreeChunks, FreedTreeChunks

LEMMA AllocatesType ==
  ASSUME NEW o, o.height \in Nat
  PROVE  Allocates(o) \in Nat
<1>1. TwoTo[o.height] \in Nat \ {0}
  BY PowersOfTwo
<1>2. TwoTo[o.height] * BlocksPerNode \in Nat
  BY <1>1, NodeAssumption
<1>. QED BY <1>2 DEF Allocates, TreeChunks

\* What IsTotal says of one subset.
LEMMA TotalFacts ==
  ASSUME NEW S, NEW f, f = Adding(S, f)
  PROVE  /\ f[{}] = 0
         /\ \A s \in SUBSET S : s # {} =>
              /\ Pick(s) \in s
              /\ f[s] = Allocates(Pick(s)) + f[s \ {Pick(s)}]
<1>1. f[{}] = 0
  BY DEF Adding
<1>2. ASSUME NEW s \in SUBSET S, s # {}
      PROVE  Pick(s) \in s /\ f[s] = Allocates(Pick(s)) + f[s \ {Pick(s)}]
  <2>1. Pick(s) \in s
    BY <1>2 DEF Pick
  <2>2. f[s] = Adding(S, f)[s] /\ s \in SUBSET S /\ s # {}
    BY <1>2
  <2>3. Adding(S, f)[s] = Allocates(Pick(s)) + f[s \ {Pick(s)}]
    BY <2>2 DEF Adding
  <2>. QED BY <2>1, <2>2, <2>3
<1>. QED BY <1>1, <1>2

\* There is such a function: after as many rounds of adding as there are
\* objects every subset has its sum.
LEMMA TotalExists ==
  ASSUME NEW S, Sized(S)
  PROVE  \E f : IsTotal(f, S)
<1> DEFINE Sums == [SUBSET S -> Nat]
           base == [s \in SUBSET S |-> 0]
           pred == [n \in Nat \ {0} |-> n - 1]
           step == [x \in (Nat \ {0}) \X Sums |-> Adding(S, x[2])]
<1>1. /\ pred \in [Nat \ {0} -> Nat] /\ \A n \in Nat \ {0} : pred[n] < n
      /\ base \in Sums
  OBVIOUS
<1>2. ASSUME NEW f \in Sums PROVE Adding(S, f) \in Sums
  <2>1. ASSUME NEW s \in SUBSET S
        PROVE  (IF s = {} THEN 0 ELSE Allocates(Pick(s)) + f[s \ {Pick(s)}]) \in Nat
    <3>1. CASE s = {}
      BY <3>1
    <3>2. CASE s # {}
      <4>1. Pick(s) \in s /\ Pick(s) \in S
        BY <3>2 DEF Pick
      <4>2. Allocates(Pick(s)) \in Nat
        BY <4>1, AllocatesType DEF Sized
      <4>3. f[s \ {Pick(s)}] \in Nat
        OBVIOUS
      <4>. QED BY <4>2, <4>3
    <3>. QED BY <3>1, <3>2
  <2>. QED BY <2>1 DEF Adding
<1>3. step \in [(Nat \ {0}) \X Sums -> Sums]
  <2> HIDE DEF Sums
  <2>. QED BY <1>2
<1>4. PICK r : IsRecursion(r, Sums, base, pred, step)
  <2> HIDE DEF Sums, base, pred, step
  <2>. QED BY <1>1, <1>3, RecursionExists
<1> HIDE DEF Sums
<1>5. /\ r \in [Nat -> Sums] /\ r[0] = base
      /\ \A n \in Nat : r[n + 1] = Adding(S, r[n])
  <2>1. /\ r \in [Nat -> Sums] /\ r[0] = base
        /\ \A n \in Nat \ {0} : r[n] = step[<<n, r[pred[n]]>>]
    <3> HIDE DEF step, pred, base
    <3>. QED BY <1>4 DEF IsRecursion
  <2>2. ASSUME NEW n \in Nat PROVE r[n + 1] = Adding(S, r[n])
    <3>1. n + 1 \in Nat \ {0} /\ pred[n + 1] = n /\ r[n] \in Sums
      BY <2>1
    <3>2. step[<<n + 1, r[n]>>] = Adding(S, r[n])
      BY <3>1
    <3> HIDE DEF step, pred, base
    <3>. QED BY <2>1, <3>1, <3>2
  <2>. QED BY <2>1, <2>2
<1> HIDE DEF step, pred
<1>6. ASSUME NEW s \in SUBSET S PROVE IsFiniteSet(s) /\ Cardinality(s) \in Nat
  BY FS_Subset, FS_CardinalityType DEF Sized
<1> DEFINE Settled(s) == \A n \in Nat : Cardinality(s) =< n => r[n + 1][s] = r[n][s]
           G == {s \in SUBSET S : Settled(s)}
<1>7. {} \in G
  <2>1. ASSUME NEW n \in Nat PROVE r[n + 1][{}] = 0
    BY <1>5 DEF Adding
  <2>2. r[0][{}] = 0
    BY <1>5
  <2>3. ASSUME NEW n \in Nat PROVE r[n][{}] = 0
    <3>1. CASE n = 0
      BY <2>2, <3>1
    <3>2. CASE n # 0
      <4>1. n - 1 \in Nat /\ n = (n - 1) + 1
        BY <3>2
      <4>2. r[(n - 1) + 1][{}] = 0
        BY <2>1, <4>1
      <4>. QED BY <4>1, <4>2
    <3>. QED BY <3>1, <3>2
  <2>. QED BY <2>1, <2>3
<1>8. ASSUME NEW s \in SUBSET S, s # {}, \A x \in s : s \ {x} \in G PROVE s \in G
  <2> DEFINE p == Pick(s)
             t == s \ {p}
  <2>1. p \in s
    BY <1>8 DEF Pick
  <2>2. t \in G /\ t \in SUBSET S
    BY <1>8, <2>1
  <2>3. Cardinality(s) = Cardinality(t) + 1 /\ Cardinality(t) \in Nat
    BY <1>6, <2>1, <2>2, FS_RemoveElement
  <2>4. ASSUME NEW n \in Nat, Cardinality(s) =< n PROVE r[n + 1][s] = r[n][s]
    <3>1. n - 1 \in Nat /\ (n - 1) + 1 = n /\ Cardinality(t) =< n - 1
      BY <2>3, <2>4
    <3>2. r[(n - 1) + 1][t] = r[n - 1][t]
      BY <2>2, <3>1
    <3>3. ASSUME NEW m \in Nat PROVE r[m + 1][s] = Allocates(p) + r[m][t]
      BY <1>5, <1>8 DEF Adding
    <3>4. r[n + 1][s] = Allocates(p) + r[n][t]
      BY <3>3
    <3>5. r[(n - 1) + 1][s] = Allocates(p) + r[n - 1][t]
      BY <3>1, <3>3
    <3>. QED BY <3>1, <3>2, <3>4, <3>5
  <2>. QED BY <2>4
<1>9. \A s \in SUBSET S : s \in G
  <2> HIDE DEF G
  <2>. QED BY <1>7, <1>8, SubsetInduction DEF Sized
<1> DEFINE n == Cardinality(S)
<1>10. n \in Nat /\ \A s \in SUBSET S : Cardinality(s) =< n
  BY <1>6, FS_Subset DEF Sized
<1>11. \A s \in SUBSET S : r[n + 1][s] = r[n][s]
  BY <1>9, <1>10
<1> HIDE DEF n, G, base
<1>12. r[n] \in Sums /\ r[n + 1] \in Sums
  BY <1>5, <1>10
<1>13. r[n + 1] = r[n]
  BY <1>11, <1>12 DEF Sums
<1>14. r[n] = Adding(S, r[n])
  BY <1>5, <1>10, <1>13
<1>. QED BY <1>12, <1>14 DEF IsTotal, Sums

\* It is the only one, also on the subsets of a smaller set.
LEMMA TotalUnique ==
  ASSUME NEW U, IsFiniteSet(U), NEW S \in SUBSET U,
         NEW f, f = Adding(U, f), NEW g, g = Adding(S, g)
  PROVE  \A s \in SUBSET S : g[s] = f[s]
<1> DEFINE G == {s \in SUBSET S : g[s] = f[s]}
<1>1. {} \in G
  BY TotalFacts
<1>2. ASSUME NEW s \in SUBSET S, s # {}, \A x \in s : s \ {x} \in G PROVE s \in G
  <2>1. s \in SUBSET U /\ s # {}
    BY <1>2
  <2>2. Pick(s) \in s /\ g[s] = Allocates(Pick(s)) + g[s \ {Pick(s)}]
    BY <2>1, TotalFacts
  <2>3. f[s] = Allocates(Pick(s)) + f[s \ {Pick(s)}]
    BY <2>1, TotalFacts
  <2>4. g[s \ {Pick(s)}] = f[s \ {Pick(s)}]
    BY <1>2, <2>2
  <2>. QED BY <1>2, <2>2, <2>3, <2>4
<1>3. IsFiniteSet(S)
  BY FS_Subset
<1> HIDE DEF G
<1>4. \A s \in SUBSET S : s \in G
  BY <1>1, <1>2, <1>3, SubsetInduction
<1>. QED BY <1>4 DEF G

\* The sum is its value.
LEMMA SumIsTotal ==
  ASSUME NEW U, Sized(U), NEW f, IsTotal(f, U), NEW S \in SUBSET U
  PROVE  Sum(S) = f[S] /\ f[S] \in Nat
<1>1. Sized(S)
  BY FS_Subset DEF Sized
<1>2. PICK g : IsTotal(g, S)
  BY <1>1, TotalExists
<1> DEFINE c == CHOOSE h : h = Adding(S, h)
<1>3. c = Adding(S, c)
  BY <1>2 DEF IsTotal
<1> HIDE DEF c
<1>4. c[S] = f[S]
  BY <1>3, TotalUnique DEF IsTotal, Sized
<1>5. Sum(S) = c[S]
  BY SumIsFixed DEF c
<1>. QED BY <1>4, <1>5 DEF IsTotal

\* The order of adding does not matter.
LEMMA TotalWithout ==
  ASSUME NEW U, Sized(U), NEW f, IsTotal(f, U)
  PROVE  InAnyOrder(f, U)
<1> DEFINE G == {s \in SUBSET U : \A y \in s : f[s] = Allocates(y) + f[s \ {y}]}
<1>1. {} \in G
  OBVIOUS
<1>2. ASSUME NEW s \in SUBSET U, s # {}, \A x \in s : s \ {x} \in G PROVE s \in G
  <2> DEFINE p == Pick(s)
  <2>1. p \in s /\ f[s] = Allocates(p) + f[s \ {p}]
    <3>1. s \in SUBSET U /\ s # {} /\ f = Adding(U, f)
      BY <1>2 DEF IsTotal
    <3>. QED BY <3>1, TotalFacts
  <2>2. ASSUME NEW y \in s PROVE f[s] = Allocates(y) + f[s \ {y}]
    <3>1. CASE y = p
      BY <2>1, <3>1
    <3>2. CASE y # p
      <4> DEFINE t == s \ {p, y}
      <4>1. (s \ {p}) \ {y} = t /\ (s \ {y}) \ {p} = t
        OBVIOUS
      <4>2. f[s \ {p}] = Allocates(y) + f[t]
        <5>1. s \ {p} \in G /\ y \in s \ {p}
          BY <1>2, <2>1, <3>2
        <5> HIDE DEF p, t
        <5>. QED BY <4>1, <5>1
      <4>3. f[s \ {y}] = Allocates(p) + f[t]
        <5>1. s \ {y} \in G /\ p \in s \ {y}
          BY <1>2, <2>1, <3>2
        <5> HIDE DEF p, t
        <5>. QED BY <4>1, <5>1
      <4>4. f[t] \in Nat /\ Allocates(p) \in Nat /\ Allocates(y) \in Nat
        <5>1. f[t] \in Nat
          BY DEF IsTotal
        <5>2. p \in U /\ y \in U
          BY <2>1
        <5>. QED BY <5>1, <5>2, AllocatesType DEF Sized
      <4> HIDE DEF p, t, G
      <4>. QED BY <2>1, <4>2, <4>3, <4>4
    <3>. QED BY <3>1, <3>2
  <2>. QED BY <2>2
<1> HIDE DEF G
<1>3. \A s \in SUBSET U : s \in G
  BY <1>1, <1>2, SubsetInduction DEF Sized
<1>. QED BY <1>3 DEF G, InAnyOrder

\* So the chunks of two sets that share no object add up.
LEMMA SumUnion ==
  ASSUME NEW S, NEW T, Sized(S), Sized(T), S \cap T = {}
  PROVE  Sum(S \cup T) = Sum(S) + Sum(T) /\ Sum(S) \in Nat /\ Sum(T) \in Nat
<1> DEFINE U == S \cup T
<1>1. Sized(U)
  BY FS_Union DEF Sized
<1>2. PICK f : IsTotal(f, U)
  BY <1>1, TotalExists
<1>3. \A s \in SUBSET U : Sum(s) = f[s] /\ f[s] \in Nat
  BY <1>1, <1>2, SumIsTotal
<1>4. \A s \in SUBSET U : \A y \in s : f[s] = Allocates(y) + f[s \ {y}]
  <2>1. InAnyOrder(f, U)
    <3> HIDE DEF U
    <3>. QED BY <1>1, <1>2, TotalWithout
  <2>. QED BY <2>1 DEF InAnyOrder
<1>5. f[{}] = 0
  BY <1>2, TotalFacts DEF IsTotal
<1> DEFINE G == {R \in SUBSET T : f[S \cup R] = f[S] + f[R]}
<1>6. {} \in G
  <2>1. S \cup {} = S /\ S \in SUBSET U /\ f[S] \in Nat
    BY <1>3
  <2>. QED BY <1>5, <2>1
<1>7. ASSUME NEW R \in SUBSET T, R # {}, \A x \in R : R \ {x} \in G PROVE R \in G
  <2>1. PICK x : x \in R
    BY <1>7
  <2>2. /\ (S \cup R) \ {x} = S \cup (R \ {x})
        /\ S \cup R \in SUBSET U /\ R \in SUBSET U /\ S \in SUBSET U
        /\ x \in S \cup R /\ R \ {x} \in SUBSET U
    BY <2>1
  <2> HIDE DEF U
  <2>3. f[S \cup R] = Allocates(x) + f[S \cup (R \ {x})]
    BY <1>4, <2>2
  <2>4. f[R] = Allocates(x) + f[R \ {x}]
    BY <1>4, <2>1, <2>2
  <2>5. f[S \cup (R \ {x})] = f[S] + f[R \ {x}]
    BY <1>7, <2>1
  <2>6. x.height \in Nat
    BY <2>1 DEF Sized
  <2>7. Allocates(x) \in Nat /\ f[S] \in Nat /\ f[R \ {x}] \in Nat
    BY <1>3, <2>2, <2>6, AllocatesType
  <2>8. f[S \cup R] = f[S] + f[R]
    <3> HIDE DEF G
    <3>. QED BY <2>3, <2>4, <2>5, <2>7
  <2>. QED BY <2>8
<1>8. T \in G
  <2> HIDE DEF G
  <2>. QED BY <1>6, <1>7, SubsetInduction DEF Sized
<1>9. S \in SUBSET U /\ T \in SUBSET U /\ U \in SUBSET U
  OBVIOUS
<1>. QED BY <1>3, <1>8, <1>9

LEMMA SumOfNone == Sum({}) = 0
<1>1. Sized({})
  BY FS_EmptySet DEF Sized
<1>2. PICK f : IsTotal(f, {})
  BY <1>1, TotalExists
<1>3. Sum({}) = f[{}]
  BY <1>1, <1>2, SumIsTotal
<1>. QED BY <1>2, <1>3, TotalFacts DEF IsTotal

-----------------------------------------------------------------------------
(* The chains, the client and the memory.                                  *)

\* Chain, for an outermost object with any id, and the objects of one chain.
ChainFrom(t, capacity, width) ==
  LET cap == CapacitiesBelow(capacity, width)
  IN  {[id |-> t + d, depth |-> d, capacity |-> cap[d], width |-> width,
        height |-> ComputeTreeHeight[cap[d]], top |-> t] :
          d \in DepthsBelow(capacity, width, MaxPosMap)}
With(t) == {i \in objects : i.top = t}

\* What lives are whole chains, of sizes the assertions let pass.
ChainsInv ==
  /\ nextId \in Nat \ {0}
  /\ IsFiniteSet(objects)
  /\ \A o \in objects :
       /\ o.top \in 1 .. nextId - 1
       /\ \E c \in Capacities, w \in Widths :
            /\ WidthAllowed(c, w)
            /\ With(o.top) = ChainFrom(o.top, c, w)
            /\ o.top = 1 => ComputeTreeHeight[c] < ClientMaxPath

\* The client lives as long as the first chain and is as wide.
ClientInv ==
  /\ client \in [state : {"none", "live", "freed"}, width : Nat]
  /\ client.state = "live" <=> With(1) # {}
  /\ \A o \in With(1) : o.width = client.width

\* The first object made is the first chain, and no fault comes before a
\* second one.
MadeInv ==
  /\ made \in Nat
  /\ made = 0 => nextId = 1
  /\ made = 1 => \A o \in objects : o.top = 1
  /\ fate = "fault" => made > 1

\* What is allocated is what the objects and the client took, what accesses
\* and reads left behind, and the buffer callers hold.
MemoryInv ==
  /\ accesses \in Nat
  /\ reads \in Nat
  /\ chunks = Sum(objects)
                + (IF client.state = "live" THEN ClientChunks ELSE 0)
                + accesses + reads
                + (IF buffer = "held" THEN 1 ELSE 0)

IInv == ChainsInv /\ ClientInv /\ MadeInv /\ MemoryInv

LEMMA WidthTwo ==
  ASSUME NEW c \in Capacities, NEW w \in Widths, WidthAllowed(c, w)
  PROVE  c \in Nat \ {0} /\ w \in Nat \ {0} /\ w > 1
<1>1. c \in Nat \ {0} /\ w \in Nat \ {0} /\ w % 2 = 0
  BY LifecycleAssumption DEF WidthAllowed
<1>2. w # 1
  BY <1>1
<1>. QED BY <1>1, <1>2

\* A chain has its outermost object, which is the highest, and one below each
\* object whose map does not fit.
LEMMA ChainFacts ==
  ASSUME NEW t \in Nat \ {0}, NEW c \in Capacities, NEW w \in Widths, WidthAllowed(c, w)
  PROVE  LET T == ChainFrom(t, c, w)
         IN  /\ Sized(T) /\ Cardinality(T) \in Nat \ {0}
             /\ \A o \in T :
                  /\ o.top = t /\ o.width = w /\ o.depth \in Nat /\ o.id = t + o.depth
                  /\ o.height \in Nat /\ o.height =< ComputeTreeHeight[c]
                  /\ o.depth = 0 => o.height = ComputeTreeHeight[c]
             /\ \E o \in T : o.depth = 0
             /\ \A o \in T :
                  /\ o.capacity \in Nat \ {0}
                  /\ Below(o) => \E i \in T :
                       /\ i.capacity = HigherCapacity(o.capacity, w)
                       /\ {j \in T : j.depth = o.depth + 1} = {i}
                  /\ ~ Below(o) => {j \in T : j.depth = o.depth + 1} = {}
<1> DEFINE C == CapacitiesBelow(c, w)
           D == DepthsBelow(c, w, MaxPosMap)
           O(d) == [id |-> t + d, depth |-> d, capacity |-> C[d], width |-> w,
                    height |-> ComputeTreeHeight[C[d]], top |-> t]
           T == ChainFrom(t, c, w)
<1>1. T = {O(d) : d \in D}
  BY DEF ChainFrom
<1>2. c \in Nat \ {0} /\ w \in Nat \ {0} /\ w > 1 /\ MaxPosMap \in Nat \ {0}
  BY WidthTwo, LifecycleAssumption
<1>3. /\ C \in [Nat -> Nat \ {0}] /\ C[0] = c
      /\ \A k \in Nat : C[k + 1] = HigherCapacity(C[k], w)
  BY <1>2, CapacitiesDescend
<1>4. /\ D \subseteq Nat /\ 0 \in D /\ IsFiniteSet(D)
      /\ \A k \in D : ~ (C[k] =< MaxPosMap) => k + 1 \in D
      /\ \A k \in D : \A j \in 0 .. k - 1 : j \in D /\ ~ (C[j] =< MaxPosMap)
  BY <1>2, DepthsDescend
<1>5. \A k \in Nat : /\ ComputeTreeHeight[C[k]] \in Nat
                     /\ ComputeTreeHeight[C[k]] =< ComputeTreeHeight[c]
  BY <1>2, HeightsDescend
<1> HIDE DEF C, D, T
<1>6. IsFiniteSet(T)
  <2> DEFINE f == [d \in D |-> O(d)]
  <2>1. f \in [D -> T] /\ \A o \in T : \E d \in D : f[d] = o
    BY <1>1
  <2> HIDE DEF f, O
  <2>2. f \in Surjection(D, T)
    BY <2>1 DEF Surjection
  <2>. QED BY <1>4, <2>2, FS_Surjection
<1>7. ASSUME NEW o \in T
      PROVE  /\ o.depth \in D /\ o = O(o.depth) /\ o.depth \in Nat
             /\ o.top = t /\ o.width = w /\ o.id = t + o.depth
             /\ o.height = ComputeTreeHeight[C[o.depth]] /\ o.capacity = C[o.depth]
  <2>1. PICK d \in D : o = O(d)
    BY <1>1
  <2>. QED BY <1>4, <2>1
<1>8. \A d \in D : O(d) \in T /\ O(d).depth = d /\ O(d).capacity = C[d]
  BY <1>1
<1>9. O(0) \in T /\ O(0).depth = 0
  BY <1>4, <1>8
<1>10. Sized(T) /\ Cardinality(T) \in Nat \ {0}
  <2>1. \A o \in T : o.height \in Nat
    BY <1>5, <1>7
  <2>2. Cardinality(T) \in Nat /\ (Cardinality(T) = 0 <=> T = {})
    BY <1>6, FS_CardinalityType, FS_EmptySet
  <2> HIDE DEF O
  <2>. QED BY <1>6, <1>9, <2>1, <2>2 DEF Sized
<1> HIDE DEF O
<1>11. ASSUME NEW o \in T
       PROVE  /\ o.top = t /\ o.width = w /\ o.depth \in Nat /\ o.id = t + o.depth
              /\ o.height \in Nat /\ o.height =< ComputeTreeHeight[c]
              /\ o.depth = 0 => o.height = ComputeTreeHeight[c]
  BY <1>3, <1>5, <1>7
<1>12. ASSUME NEW o \in T
       PROVE  /\ o.capacity \in Nat \ {0}
              /\ Below(o) => \E i \in T :
                   /\ i.capacity = HigherCapacity(o.capacity, w)
                   /\ {j \in T : j.depth = o.depth + 1} = {i}
              /\ ~ Below(o) => {j \in T : j.depth = o.depth + 1} = {}
  <2> DEFINE d == o.depth
             Next1 == {j \in T : j.depth = d + 1}
  <2>1. d \in D /\ d \in Nat /\ d + 1 \in Nat /\ o.capacity = C[d]
    BY <1>7
  <2> HIDE DEF d
  <2>2. o.capacity \in Nat \ {0}
    BY <1>3, <2>1
  <2>3. ASSUME Below(o)
        PROVE  \E i \in T : i.capacity = HigherCapacity(o.capacity, w) /\ Next1 = {i}
    <3>1. ~ (C[d] =< MaxPosMap)
      BY <1>2, <2>1, <2>2, <2>3 DEF Below
    <3>2. d + 1 \in D
      BY <1>4, <2>1, <3>1
    <3>3. /\ O(d + 1) \in T /\ O(d + 1).depth = d + 1
          /\ O(d + 1).capacity = HigherCapacity(o.capacity, w)
      BY <1>3, <1>8, <2>1, <3>2
    <3>4. \A j \in T : j.depth = d + 1 => j = O(d + 1)
      BY <1>7
    <3>. QED BY <3>3, <3>4
  <2>4. ASSUME ~ Below(o) PROVE Next1 = {}
    <3> SUFFICES ASSUME NEW j \in T, j.depth = d + 1 PROVE FALSE
      OBVIOUS
    <3>1. d + 1 \in D
      BY <1>7
    <3>2. d \in 0 .. (d + 1) - 1
      BY <2>1
    <3>3. ~ (C[d] =< MaxPosMap)
      BY <1>4, <3>1, <3>2
    <3>. QED BY <1>2, <2>1, <2>2, <2>4, <3>3 DEF Below
  <2>. QED BY <2>2, <2>3, <2>4 DEF d
<1>13. \E o \in T : o.depth = 0
  BY <1>9
<1>. QED BY <1>10, <1>11, <1>12, <1>13 DEF T

\* What the invariant says of one object: the chain it is of.
LEMMA ObjectFacts ==
  ASSUME ChainsInv, NEW o \in objects
  PROVE  /\ o.top \in Nat \ {0} /\ o.top < nextId /\ o \in With(o.top)
         /\ o.depth \in Nat /\ o.id = o.top + o.depth /\ o.height \in Nat
         /\ \E c \in Capacities, w \in Widths :
              /\ WidthAllowed(c, w)
              /\ With(o.top) = ChainFrom(o.top, c, w)
              /\ o.top = 1 => ComputeTreeHeight[c] < ClientMaxPath
<1>1. o.top \in Nat \ {0} /\ o.top < nextId /\ o \in With(o.top)
  BY DEF ChainsInv, With
<1>2. PICK c \in Capacities, w \in Widths :
        /\ WidthAllowed(c, w)
        /\ With(o.top) = ChainFrom(o.top, c, w)
        /\ o.top = 1 => ComputeTreeHeight[c] < ClientMaxPath
  BY DEF ChainsInv
<1>3. o.depth \in Nat /\ o.id = o.top + o.depth /\ o.height \in Nat
  BY <1>1, <1>2, ChainFacts
<1>. QED BY <1>1, <1>2, <1>3

\* The client serves the objects of the first chain.
LEMMA FirstServed ==
  ASSUME ChainsInv, ClientInv, NEW o \in With(1)
  PROVE  Serves(o)
<1>1. o \in objects /\ o.top = 1
  BY DEF With
<1>2. PICK c \in Capacities, w \in Widths :
        /\ WidthAllowed(c, w)
        /\ With(1) = ChainFrom(1, c, w)
        /\ ComputeTreeHeight[c] < ClientMaxPath
  BY <1>1, ObjectFacts
<1>3. o.height \in Nat /\ o.height =< ComputeTreeHeight[c] /\ o.width = w
  BY <1>2, ChainFacts
<1>4. ComputeTreeHeight[c] \in Nat /\ ClientMaxPath \in Nat /\ w \in Nat
  BY <1>2, WidthTwo, HeightsGrow, LifecycleAssumption
<1>5. client.state = "live" /\ o.width = client.width
  BY DEF ClientInv
<1>. QED BY <1>2, <1>3, <1>4, <1>5 DEF Serves

LEMMA ObjectsSized == ChainsInv => Sized(objects)
BY ObjectFacts DEF Sized, ChainsInv

LEMMA ClientChunksType == ClientChunks \in Nat
<1>1. ClientMaxPath \in Nat /\ BlocksPerNode \in Nat
  BY LifecycleAssumption, NodeAssumption
<1>2. ClientMaxPath * (2 + BlocksPerNode) \in Nat
  BY <1>1
<1>. QED BY <1>1, <1>2 DEF ClientChunks

LEMMA IInvInit == ObjectsInit => IInv
<1> SUFFICES ASSUME ObjectsInit PROVE IInv
  OBVIOUS
<1>. USE DEF ObjectsInit
<1>1. ChainsInv
  BY FS_EmptySet DEF ChainsInv
<1>2. ClientInv
  BY DEF ClientInv, With, NoClient
<1>3. MadeInv
  BY DEF MadeInv
<1>4. MemoryInv
  BY SumOfNone DEF MemoryInv, NoClient
<1>. QED BY <1>1, <1>2, <1>3, <1>4 DEF IInv

LEMMA DieKeeps ==
  ASSUME IInv, NEW why, Die(why), why # "fault"
  PROVE  IInv'
BY DEF IInv, ChainsInv, ClientInv, MadeInv, MemoryInv, With, Die, ClientChunks

LEMMA Before ==
  ASSUME NEW a \in Nat \ {0}, NEW b \in Nat, a < b
  PROVE  a \in 1 .. b - 1
OBVIOUS

\* The other chains are what they were when one is added with new ids.
LEMMA NewKeeps ==
  ASSUME IInv, NEW c \in Capacities, NEW w \in Widths, WidthAllowed(c, w),
         \A o \in Chain(c, w) : HeightAllowed(o), NewChain(Chain(c, w)), fate = "alive"
  PROVE  IInv'
<1> DEFINE T == ChainFrom(nextId, c, w)
<1>1. Chain(c, w) = T
  BY DEF Chain, ChainFrom
<1>2. ChainsInv /\ ClientInv /\ MadeInv /\ MemoryInv /\ nextId \in Nat \ {0}
  BY DEF IInv, ChainsInv
<1>3. /\ Sized(T) /\ Cardinality(T) \in Nat \ {0}
      /\ \A o \in T : /\ o.top = nextId /\ o.width = w /\ o.depth \in Nat
                      /\ o.id = nextId + o.depth
                      /\ o.depth = 0 => o.height = ComputeTreeHeight[c]
      /\ \E o \in T : o.depth = 0
  BY <1>2, ChainFacts
<1>4. /\ objects' = objects \cup T /\ nextId' = nextId + Cardinality(T)
      /\ client' = IF nextId = 1
                   THEN [state |-> "live", width |-> (CHOOSE o \in T : o.depth = 0).width]
                   ELSE client
      /\ chunks' = chunks + Sum(T) + IF nextId = 1 THEN ClientChunks ELSE 0
      /\ made' = made + 1 /\ accesses' = accesses /\ fate' = fate
      /\ reads' = reads /\ buffer' = buffer
  BY <1>1 DEF NewChain, Sum
<1> HIDE DEF T
<1>5. \A o \in objects : o.top \in Nat \ {0} /\ o.top < nextId
  BY <1>2, ObjectFacts
<1>6. objects \cap T = {}
  BY <1>2, <1>3, <1>5
<1>7. \A t \in Nat : t < nextId => With(t)' = With(t)
  BY <1>2, <1>3, <1>4 DEF With
<1>8. \A t : t = nextId => With(t)' = T
  BY <1>2, <1>3, <1>4, <1>5 DEF With
<1>9. nextId = 1 => ComputeTreeHeight[c] < ClientMaxPath
  BY <1>1, <1>2, <1>3 DEF HeightAllowed
<1>10. ChainsInv'
  <2>1. nextId' \in Nat \ {0} /\ nextId < nextId'
    BY <1>2, <1>3, <1>4
  <2>2. IsFiniteSet(objects')
    BY <1>2, <1>3, <1>4, FS_Union DEF ChainsInv, Sized
  <2>3. ASSUME NEW o \in objects'
        PROVE  /\ o.top \in 1 .. nextId' - 1
               /\ \E k \in Capacities, v \in Widths :
                    /\ WidthAllowed(k, v)
                    /\ With(o.top)' = ChainFrom(o.top, k, v)
                    /\ o.top = 1 => ComputeTreeHeight[k] < ClientMaxPath
    <3>1. CASE o \in objects
      <4>1. With(o.top)' = With(o.top)
        BY <1>5, <1>7, <3>1
      <4>2. o.top \in 1 .. nextId' - 1
        BY <1>2, <1>5, <2>1, <3>1
      <4>. QED BY <1>2, <3>1, <4>1, <4>2, ObjectFacts
    <3>2. CASE o \in T
      <4>1. o.top = nextId
        BY <1>3, <3>2
      <4>2. With(o.top)' = ChainFrom(o.top, c, w)
        BY <1>8, <4>1 DEF T
      <4>3. nextId \in 1 .. nextId' - 1
        <5>1. nextId \in Nat \ {0} /\ nextId' \in Nat /\ nextId < nextId'
          BY <1>2, <2>1
        <5>. QED BY <5>1, Before
      <4>. QED BY <1>9, <4>1, <4>2, <4>3
    <3>. QED BY <1>4, <3>1, <3>2
  <2>. QED BY <2>1, <2>2, <2>3 DEF ChainsInv
<1>11. ClientInv'
  <2>1. CASE nextId = 1
    <3>1. With(1)' = T
      BY <1>8, <2>1
    <3>2. (CHOOSE o \in T : o.depth = 0).width = w
      BY <1>3
    <3>3. client' = [state |-> "live", width |-> w] /\ w \in Nat
      BY <1>4, <2>1, <3>2, LifecycleAssumption
    <3>. QED BY <1>3, <3>1, <3>3 DEF ClientInv
  <2>2. CASE nextId # 1
    <3>1. With(1)' = With(1) /\ client' = client
      BY <1>2, <1>4, <1>7, <2>2
    <3>. QED BY <1>2, <3>1 DEF ClientInv
  <2>. QED BY <2>1, <2>2
<1>12. MadeInv'
  <2>1. made \in Nat /\ made' = made + 1
    BY <1>2, <1>4 DEF MadeInv
  <2>2. ASSUME made' = 1 PROVE \A o \in objects' : o.top = 1
    <3>1. nextId = 1
      BY <1>2, <2>1, <2>2 DEF MadeInv
    <3>2. objects = {}
      BY <1>5, <3>1
    <3>. QED BY <1>3, <1>4, <3>1, <3>2
  <2>. QED BY <1>4, <2>1, <2>2 DEF MadeInv
<1>13. MemoryInv'
  <2>1. Sum(objects') = Sum(objects) + Sum(T) /\ Sum(objects) \in Nat /\ Sum(T) \in Nat
    BY <1>2, <1>3, <1>4, <1>6, ObjectsSized, SumUnion
  <2>2. ClientChunks \in Nat /\ accesses \in Nat /\ reads \in Nat
    BY <1>2, ClientChunksType DEF MemoryInv
  <2>3. /\ nextId = 1 => client.state # "live" /\ client'.state = "live"
        /\ nextId # 1 => client' = client
    <3>1. nextId = 1 => With(1) = {}
      BY <1>5 DEF With
    <3>. QED BY <1>2, <1>4, <3>1 DEF ClientInv
  <2>4. chunks' = Sum(objects')
                    + (IF client'.state = "live" THEN ClientChunks ELSE 0)
                    + accesses' + reads' + (IF buffer' = "held" THEN 1 ELSE 0)
    BY <1>2, <1>4, <2>1, <2>2, <2>3 DEF MemoryInv
  <2>. QED BY <1>4, <2>2, <2>4 DEF MemoryInv, ClientChunks
<1>. QED BY <1>10, <1>11, <1>12, <1>13 DEF IInv

LEMMA DeleteKeeps ==
  ASSUME IInv, NEW o \in objects, Delete(o)
  PROVE  IInv'
<1> DEFINE gone == With(o.top)
<1>1. ChainsInv /\ ClientInv /\ MadeInv /\ MemoryInv
  BY DEF IInv
<1>2. /\ objects' = objects \ gone /\ client' = ClientAfter(o)
      /\ chunks' = chunks - Sum(gone)
                     - IF ClientAfter(o) # client THEN ClientChunks ELSE 0
      /\ nextId' = nextId /\ made' = made /\ accesses' = accesses /\ fate' = fate
      /\ reads' = reads /\ buffer' = buffer /\ o.depth = 0
  BY FreesAllocated DEF Delete, With
<1>3. o.top \in Nat \ {0} /\ o.top < nextId /\ o \in gone /\ o.id = o.top
  BY <1>1, <1>2, ObjectFacts
<1>4. \A t : t # o.top => With(t)' = With(t)
  BY <1>2 DEF With
<1>5. With(o.top)' = {} /\ \A i \in objects' : i \in objects /\ i.top # o.top
  BY <1>2 DEF With
<1> HIDE DEF gone
<1>6. gone \subseteq objects /\ Sized(objects)
  BY <1>1, ObjectsSized DEF gone, With
<1>7. ChainsInv'
  <2>1. IsFiniteSet(objects') /\ nextId' \in Nat \ {0}
    BY <1>1, <1>2, FS_Subset DEF ChainsInv
  <2>2. ASSUME NEW i \in objects'
        PROVE  /\ i.top \in 1 .. nextId' - 1
               /\ \E k \in Capacities, v \in Widths :
                    /\ WidthAllowed(k, v)
                    /\ With(i.top)' = ChainFrom(i.top, k, v)
                    /\ i.top = 1 => ComputeTreeHeight[k] < ClientMaxPath
    <3>1. i \in objects /\ With(i.top)' = With(i.top)
      BY <1>4, <1>5
    <3>. QED BY <1>1, <1>2, <3>1 DEF ChainsInv
  <2>. QED BY <2>1, <2>2 DEF ChainsInv
<1>8. /\ o.top = 1 => client.state = "live" /\ client' = [client EXCEPT !.state = "freed"]
      /\ o.top # 1 => client' = client /\ ClientAfter(o) = client
  BY <1>1, <1>2, <1>3 DEF ClientInv, ClientAfter, gone
<1>9. ClientInv'
  <2>1. CASE o.top = 1
    <3>1. With(1)' = {}
      BY <1>5, <2>1
    <3>. QED BY <1>1, <1>8, <2>1, <3>1 DEF ClientInv
  <2>2. CASE o.top # 1
    <3>1. With(1)' = With(1)
      BY <1>4, <2>2
    <3>. QED BY <1>1, <1>8, <2>2, <3>1 DEF ClientInv
  <2>. QED BY <2>1, <2>2
<1>10. MadeInv'
  BY <1>1, <1>2, <1>5 DEF MadeInv
<1>11. MemoryInv'
  <2>1. /\ Sum(objects) = Sum(objects') + Sum(gone)
        /\ Sum(objects') \in Nat /\ Sum(gone) \in Nat
    <3>1. objects = objects' \cup gone /\ objects' \cap gone = {}
      BY <1>2, <1>6
    <3>2. Sized(objects') /\ Sized(gone)
      BY <1>2, <1>6, FS_Subset DEF Sized
    <3>. QED BY <3>1, <3>2, SumUnion
  <2>2. ClientChunks \in Nat /\ accesses \in Nat /\ reads \in Nat
    BY <1>1, ClientChunksType DEF MemoryInv
  <2>3. /\ ClientAfter(o) # client => client.state = "live" /\ client'.state # "live"
        /\ ClientAfter(o) = client => client' = client
    BY <1>1, <1>2, <1>8 DEF ClientInv
  <2>4. chunks' = Sum(objects')
                    + (IF client'.state = "live" THEN ClientChunks ELSE 0)
                    + accesses' + reads' + (IF buffer' = "held" THEN 1 ELSE 0)
    BY <1>1, <1>2, <2>1, <2>2, <2>3 DEF MemoryInv
  <2>. QED BY <1>2, <2>2, <2>4 DEF MemoryInv, ClientChunks
<1>. QED BY <1>7, <1>9, <1>10, <1>11 DEF IInv

\* The allocated chunks with another number of accesses, reads and buffers: the
\* objects and the client being the same, their sum is.
LEMMA MemoryShifts ==
  ASSUME IInv, objects' = objects, client' = client,
         NEW n \in Int, chunks' = chunks + n,
         accesses' \in Nat, reads' \in Nat,
         n = (accesses' - accesses) + (reads' - reads)
               + (IF buffer' = "held" THEN 1 ELSE 0) - (IF buffer = "held" THEN 1 ELSE 0)
  PROVE  MemoryInv'
<1>1. ChainsInv /\ MemoryInv
  BY DEF IInv
<1>2. Sum(objects) \in Nat /\ Sum(objects') = Sum(objects)
  <2>1. Sized(objects) /\ Sized({}) /\ objects \cap {} = {}
    BY <1>1, ObjectsSized, FS_EmptySet DEF Sized
  <2>. QED BY <2>1, SumUnion
<1> DEFINE clients == IF client.state = "live" THEN ClientChunks ELSE 0
<1>3. clients \in Nat /\ clients' = clients
  BY ClientChunksType DEF ClientChunks
<1>4. chunks = Sum(objects) + clients + accesses + reads + (IF buffer = "held" THEN 1 ELSE 0)
      /\ accesses \in Nat /\ reads \in Nat
  BY <1>1 DEF MemoryInv
<1> HIDE DEF clients
<1>5. chunks' = Sum(objects') + clients' + accesses' + reads'
                  + (IF buffer' = "held" THEN 1 ELSE 0)
  BY <1>2, <1>3, <1>4
<1>. QED BY <1>5 DEF MemoryInv, clients

\* An access, whatever its caller does with the buffer meanwhile: allocated
\* chunks more than before, apart from the BlockPath of each level.
LEMMA AccessKeeps ==
  ASSUME IInv, NEW o \in objects, NEW n \in Int, Access(o, n), fate = "alive",
         reads' \in Nat,
         n = (reads' - reads)
               + (IF buffer' = "held" THEN 1 ELSE 0) - (IF buffer = "held" THEN 1 ELSE 0)
  PROVE  IInv'
<1>1. ChainsInv /\ ClientInv /\ MadeInv /\ MemoryInv /\ Used(o) = With(o.top)
  BY DEF IInv, Used, With
<1>2. reads \in Nat /\ accesses \in Nat
  BY <1>1 DEF MemoryInv
<1>3. CASE \A i \in Used(o) : Serves(i)
  <2>1. /\ chunks' = chunks + n + Cardinality(Used(o))
        /\ accesses' = accesses + Cardinality(Used(o))
        /\ nextId' = nextId /\ objects' = objects /\ client' = client
        /\ made' = made /\ fate' = fate
    BY <1>3 DEF Access
  <2>2. Cardinality(Used(o)) \in Nat
    <3>1. IsFiniteSet(Used(o))
      BY <1>1, FS_Subset DEF ChainsInv, Used
    <3>. QED BY <3>1, FS_CardinalityType
  <2>3. ChainsInv' /\ ClientInv' /\ MadeInv'
    BY <1>1, <2>1 DEF ChainsInv, ClientInv, MadeInv, With
  <2>4. MemoryInv'
    <3> DEFINE m == Cardinality(Used(o))
    <3>1. m \in Nat /\ chunks' = chunks + n + m /\ accesses' = accesses + m
      BY <2>1, <2>2
    <3> HIDE DEF m
    <3>2. n + m \in Int /\ chunks \in Int /\ accesses' \in Nat
      <4>1. chunks \in Int
        <5>1. Sized(objects) /\ Sized({}) /\ objects \cap {} = {}
          BY <1>1, ObjectsSized, FS_EmptySet DEF Sized
        <5>2. Sum(objects) \in Nat
          BY <5>1, SumUnion
        <5>. QED BY <1>1, <5>2, ClientChunksType DEF MemoryInv
      <4>. QED BY <1>2, <3>1, <4>1
    <3>3. chunks' = chunks + (n + m)
      BY <3>1, <3>2
    <3>4. n + m = (accesses' - accesses) + (reads' - reads)
                    + (IF buffer' = "held" THEN 1 ELSE 0) - (IF buffer = "held" THEN 1 ELSE 0)
      BY <1>2, <3>1
    <3>. QED BY <2>1, <3>2, <3>3, <3>4, MemoryShifts
  <2>. QED BY <2>3, <2>4 DEF IInv
<1>4. CASE ~ \A i \in Used(o) : Serves(i)
  <2>1. /\ chunks' = chunks + n /\ accesses' = accesses /\ fate' = "fault"
        /\ nextId' = nextId /\ objects' = objects /\ client' = client /\ made' = made
    BY <1>4 DEF Access
  <2>2. PICK i \in With(o.top) : ~ Serves(i)
    BY <1>1, <1>4
  <2>3. o.top # 1
    BY <1>1, <2>2, FirstServed
  <2>4. objects # {} /\ made # 1
    BY <1>1, <2>3 DEF MadeInv
  <2>5. made # 0
    <3>1. o.top \in Nat \ {0} /\ o.top < nextId
      BY <1>1, ObjectFacts
    <3>. QED BY <1>1, <3>1 DEF MadeInv
  <2>6. made > 1
    BY <1>1, <2>4, <2>5 DEF MadeInv
  <2>7. ChainsInv' /\ ClientInv' /\ MadeInv'
    BY <1>1, <2>1, <2>6 DEF ChainsInv, ClientInv, MadeInv, With
  <2>8. MemoryInv'
    <3>1. n = (accesses' - accesses) + (reads' - reads)
                + (IF buffer' = "held" THEN 1 ELSE 0) - (IF buffer = "held" THEN 1 ELSE 0)
      BY <1>2, <2>1
    <3>. QED BY <1>2, <2>1, <3>1, MemoryShifts
  <2>. QED BY <2>7, <2>8 DEF IInv
<1>. QED BY <1>3, <1>4

LEMMA WriteKeeps ==
  ASSUME IInv, NEW o \in objects, WriteObject(o)
  PROVE  IInv'
<1>1. CASE buffer = "held"
  <2>1. Access(o, 0) /\ buffer' = buffer /\ reads' = reads /\ fate = "alive"
    BY <1>1 DEF WriteObject, CanAccess
  <2>2. reads \in Nat
    BY DEF IInv, MemoryInv
  <2>. QED BY <2>1, <2>2, AccessKeeps
<1>2. CASE buffer # "held"
  BY <1>2, DieKeeps DEF WriteObject
<1>. QED BY <1>1, <1>2

\* A read leaves one chunk more behind, and takes the caller's if it had one.
LEMMA ReadKeeps ==
  ASSUME IInv, NEW o \in objects, ReadObject(o)
  PROVE  IInv'
<1> DEFINE n == ReadAllocates - ReadFrees
<1>1. /\ Access(o, n) /\ fate = "alive" /\ reads' = reads + 1
      /\ buffer' = IF buffer = "held" THEN "gone" ELSE buffer
  BY DEF ReadObject, CanAccess
<1>2. reads \in Nat
  BY DEF IInv, MemoryInv
<1>3. n \in Int /\ n = IF buffer = "held" THEN 0 ELSE 1
  BY DEF ReadAllocates, ReadFrees
<1> HIDE DEF n
<1>4. n = (reads' - reads)
            + (IF buffer' = "held" THEN 1 ELSE 0) - (IF buffer = "held" THEN 1 ELSE 0)
  BY <1>1, <1>2, <1>3
<1>. QED BY <1>1, <1>2, <1>3, <1>4, AccessKeeps

LEMMA BufferKeeps ==
  ASSUME IInv, AllocateBuffer \/ FreeBuffer
  PROVE  IInv'
<1>1. /\ UNCHANGED <<nextId, objects, client, made, accesses, reads, fate>>
      /\ \/ buffer # "held" /\ buffer' = "held" /\ chunks' = chunks + 1
         \/ buffer = "held" /\ buffer' = "none" /\ chunks' = chunks - 1
  BY DEF AllocateBuffer, FreeBuffer
<1>2. ChainsInv' /\ ClientInv' /\ MadeInv'
  BY <1>1 DEF IInv, ChainsInv, ClientInv, MadeInv, With
<1>3. accesses \in Nat /\ reads \in Nat
  BY DEF IInv, MemoryInv
<1>4. CASE buffer # "held"
  <2>1. chunks' = chunks + 1
    BY <1>1, <1>4
  <2>. QED BY <1>1, <1>2, <1>3, <1>4, <2>1, MemoryShifts DEF IInv
<1>5. CASE buffer = "held"
  <2>1. chunks' = chunks + (-1)
    <3>1. chunks \in Int
      <4>1. ChainsInv /\ MemoryInv
        BY DEF IInv
      <4>2. Sized(objects) /\ Sized({}) /\ objects \cap {} = {}
        BY <4>1, ObjectsSized, FS_EmptySet DEF Sized
      <4>3. Sum(objects) \in Nat
        BY <4>2, SumUnion
      <4>. QED BY <4>1, <4>3, ClientChunksType DEF MemoryInv
    <3>. QED BY <1>1, <1>5, <3>1
  <2>. QED BY <1>1, <1>2, <1>3, <1>5, <2>1, MemoryShifts DEF IInv
<1>. QED BY <1>4, <1>5

LEMMA IInvStep == IInv /\ [ObjectsNext]_objectVars => IInv'
<1> SUFFICES ASSUME IInv, [ObjectsNext]_objectVars PROVE IInv'
  OBVIOUS
<1>1. ASSUME NEW c \in Capacities, NEW w \in Widths, New(c, w) PROVE IInv'
  <2>1. CASE WidthAllowed(c, w) /\ \A o \in Chain(c, w) : HeightAllowed(o)
    <3>1. NewChain(Chain(c, w)) /\ fate = "alive"
      BY <1>1, <2>1 DEF New
    <3>. QED BY <2>1, <3>1, NewKeeps
  <2>2. CASE ~ (WidthAllowed(c, w) /\ \A o \in Chain(c, w) : HeightAllowed(o))
    <3>1. Die("assertion")
      BY <1>1, <2>2 DEF New
    <3>. QED BY <3>1, DieKeeps
  <2>. QED BY <2>1, <2>2
<1>2. ASSUME NEW c \in Capacities, NEW w \in Widths, NewShortOfMemory(c, w) PROVE IInv'
  <2>1. Die("no memory")
    BY <1>2 DEF NewShortOfMemory
  <2>. QED BY <2>1, DieKeeps
<1>3. ASSUME NEW o \in objects, Delete(o) PROVE IInv'
  BY <1>3, DeleteKeeps
<1>4. ASSUME NEW o \in objects, WriteObject(o) \/ ReadObject(o) PROVE IInv'
  BY <1>4, WriteKeeps, ReadKeeps
<1>5. CASE Ended \/ UNCHANGED objectVars
  BY <1>5 DEF Ended, objectVars, IInv, ChainsInv, ClientInv, MadeInv, MemoryInv, With,
              ClientChunks
<1>. QED BY <1>1, <1>2, <1>3, <1>4, <1>5, BufferKeeps DEF ObjectsNext

LEMMA IInvHolds == ObjectsSpec => []IInv
BY IInvInit, IInvStep, PTL DEF ObjectsSpec

\* The client serves the first object and every object no larger as long as
\* the first one lives, whatever else was made and deleted: ecall_init_client
\* sizes its buffers by the first object alone, and of the heights only that
\* one's is asserted against CLIENT_MAX_PATH.
THEOREM ServesAll == ObjectsSpec => []ClientServesAll
<1>1. IInv => ClientServesAll
  <2> SUFFICES ASSUME IInv PROVE ClientServesAll
    OBVIOUS
  <2>1. ChainsInv /\ ClientInv /\ MadeInv
    BY DEF IInv
  <2>2. ASSUME NEW f \in objects, f.id = 1, NEW o \in objects,
               o.top = 1 \/ (o.height =< f.height /\ o.width =< f.width)
        PROVE  Serves(o)
    <3>1. f.top = 1
      BY <2>1, <2>2, ObjectFacts
    <3>2. f \in With(1)
      BY <3>1 DEF With
    <3>3. Serves(f) /\ f.width = client.width
      BY <2>1, <3>2, FirstServed DEF ClientInv
    <3>4. CASE o.top = 1
      BY <2>1, <3>4, FirstServed DEF With
    <3>5. CASE o.height =< f.height /\ o.width =< f.width
      <4>1. o.height \in Nat /\ f.height \in Nat /\ ClientMaxPath \in Nat
        BY <2>1, ObjectFacts, LifecycleAssumption
      <4>. QED BY <3>3, <3>5, <4>1 DEF Serves
    <3>. QED BY <2>2, <3>4, <3>5
  <2>. QED BY <2>1, <2>2 DEF ClientServesAll, MadeInv
<1>. QED BY <1>1, IInvHolds, PTL

\* Every label of every block has its place in the ORAM below, down to a map
\* that fits the enclave: what the constructors compute with ceil and what an
\* access computes with / agree.
THEOREM MapsCover == ObjectsSpec => []MapsCoverBlocks
<1>1. IInv => MapsCoverBlocks
  <2> SUFFICES ASSUME IInv, NEW o \in objects
               PROVE  IF Below(o)
                      THEN /\ Cardinality(InnerOf(o)) = 1
                           /\ \A i \in InnerOf(o) : \A ind \in 0 .. o.capacity - 1 :
                                MapInd(ind, o.width) < i.capacity
                      ELSE InnerOf(o) = {}
    BY DEF MapsCoverBlocks
  <2>1. ChainsInv
    BY DEF IInv
  <2>2. o.top \in Nat \ {0} /\ o \in With(o.top)
    BY <2>1, ObjectFacts
  <2>3. PICK c \in Capacities, w \in Widths :
          WidthAllowed(c, w) /\ With(o.top) = ChainFrom(o.top, c, w)
    BY <2>1, ObjectFacts
  <2> DEFINE T == ChainFrom(o.top, c, w)
  <2>4. InnerOf(o) = {j \in T : j.depth = o.depth + 1}
    BY <2>3 DEF InnerOf, With
  <2>5. /\ o.capacity \in Nat \ {0} /\ o.width = w
        /\ Below(o) => \E i \in T :
             /\ i.capacity = HigherCapacity(o.capacity, w)
             /\ {j \in T : j.depth = o.depth + 1} = {i}
        /\ ~ Below(o) => {j \in T : j.depth = o.depth + 1} = {}
    BY <2>2, <2>3, ChainFacts
  <2> HIDE DEF T
  <2>6. CASE Below(o)
    <3>1. PICK i \in T : i.capacity = HigherCapacity(o.capacity, w) /\ InnerOf(o) = {i}
      BY <2>4, <2>5, <2>6
    <3>2. Cardinality(InnerOf(o)) = 1
      BY <3>1, FS_Singleton
    <3>3. w \in Nat \ {0}
      BY LifecycleAssumption
    <3>4. /\ i.capacity \in Nat
          /\ \A ind \in 0 .. o.capacity - 1 : MapInd(ind, w) \in 0 .. i.capacity - 1
      BY <2>5, <3>1, <3>3, MapIsSmaller
    <3>5. \A ind \in 0 .. o.capacity - 1 : MapInd(ind, o.width) < i.capacity
      BY <2>5, <3>4
    <3>. QED BY <2>6, <3>1, <3>2, <3>5
  <2>7. CASE ~ Below(o)
    BY <2>4, <2>5, <2>7
  <2>. QED BY <2>6, <2>7
<1>. QED BY <1>1, IInvHolds, PTL

\* The destructors free what the constructors allocated, the client's arrays
\* with the first object, in whatever order objects are made and deleted.
\* What is left is what no pointer leads to, a BlockPath for each level of an
\* access and the block each read allocates, and the buffer the callers hold.
THEOREM AllReturned == ObjectsSpec => []MemoryReturned
<1>1. IInv => MemoryReturned
  <2> SUFFICES ASSUME IInv, objects = {}
               PROVE  chunks = accesses + reads + IF buffer = "held" THEN 1 ELSE 0
    BY DEF MemoryReturned
  <2>1. client.state # "live"
    BY DEF IInv, ClientInv, With
  <2>. QED BY <2>1, SumOfNone DEF IInv, MemoryInv
<1>. QED BY <1>1, IInvHolds, PTL

-----------------------------------------------------------------------------
(* Benchmark: where the program is, and what the test has stored by then.  *)

Places == {"start", "write 61", "write 19", "write 23", "read 19", "check", "writing",
           "reading", "done", "failed", "aborted", "stash full", "undefined"}
ChunkContents == Patterns \cup {"free"}

HeapInv ==
  /\ pc \in Places
  /\ asserts \in BOOLEAN
  /\ numBlocks \in Nat
  /\ mem \in [TestIds -> ChunkContents]
  /\ heap \in [Addrs -> ChunkContents]
  /\ data \in Addrs

\* The contents of the three blocks and of the buffer at each line of the test,
\* in a build that makes the calls.  After the read the pointer is to what was
\* read, or to a chunk that is free.
TestBlock(i) == IF i = 61 THEN "mod13" ELSE IF i = 19 THEN "mod19" ELSE "mod23"
Holds(written) ==
  \A i \in TestIds : mem[i] = IF i \in written THEN TestBlock(i) ELSE "zero"

Testing ==
  /\ pc \in {"start", "write 61"} => Holds({})
  /\ pc = "write 61" => heap[data] = "mod13"
  /\ pc = "write 19" => Holds({61}) /\ heap[data] = "mod19" /\ numBlocks > 61
  /\ pc = "write 23" => Holds({61, 19}) /\ heap[data] = "mod23" /\ numBlocks > 61
  /\ pc = "read 19" => Holds({61, 19, 23}) /\ numBlocks > 61
  /\ pc = "check" => heap[data] \in {"free", "mod19"} /\ numBlocks > 61

NotTesting == pc \in {"read 19", "check"} => heap[data] = "zero"

TestInv ==
  /\ asserts => Testing
  /\ ~ asserts => NotTesting
  /\ pc \in {"writing", "reading", "done", "stash full", "undefined"} =>
       asserts /\ numBlocks > 61
  /\ pc = "failed" => ~ asserts
  /\ pc = "aborted" => asserts /\ numBlocks =< 61

Inv == HeapInv /\ TestInv

LEMMA TestBlocks ==
  TestBlock(61) = "mod13" /\ TestBlock(19) = "mod19" /\ TestBlock(23) = "mod23"
BY DEF TestBlock

LEMMA InvInit == Init => Inv
BY DEF Init, Inv, HeapInv, TestInv, Testing, NotTesting, Holds, Places, ChunkContents,
       Patterns

LEMMA InvStart ==
  ASSUME Inv, Start, UNCHANGED <<asserts, numBlocks>>
  PROVE  Inv'
<1>1. /\ pc = "start" /\ pc' = "write 61" /\ mem' = mem
      /\ data' \in Addrs /\ heap' = [heap EXCEPT ![data'] = "mod13"]
  BY DEF Start, FreeChunks
<1>2. HeapInv'
  BY <1>1 DEF Inv, HeapInv, Places, ChunkContents, Patterns
<1>3. TestInv'
  BY <1>1 DEF Inv, HeapInv, TestInv, Testing, NotTesting, Holds
<1>. QED
  BY <1>2, <1>3 DEF Inv

\* The three writes of the test: block ids that are blocks of the ORAM exactly
\* when the first of them is.
LEMMA InvWrite ==
  ASSUME Inv, UNCHANGED <<asserts, numBlocks>>,
         NEW at \in Places, NEW id \in TestIds, NEW fill \in Patterns, NEW next \in Places,
         AssertedWrite(at, id, fill, next)
  PROVE  HeapInv'
<1>1. /\ pc' \in Places /\ data' = data
      /\ mem' = mem \/ mem' = [mem EXCEPT ![id] = heap[data]]
      /\ heap' = heap \/ heap' = [heap EXCEPT ![data] = fill]
  BY DEF AssertedWrite, Stop, StoredBlock, Places
<1>2. heap[data] \in ChunkContents /\ fill \in ChunkContents
  BY DEF Inv, HeapInv, ChunkContents
<1>. QED
  BY <1>1, <1>2 DEF Inv, HeapInv

LEMMA InvTestWrites ==
  ASSUME Inv, TestWrites, UNCHANGED <<asserts, numBlocks>>
  PROVE  Inv'
<1>1. numBlocks \in Nat
  BY DEF Inv, HeapInv
<1>2. CASE AssertedWrite("write 61", 61, "mod19", "write 19")
  <2>1. HeapInv'
    <3>1. /\ "write 61" \in Places /\ "write 19" \in Places
          /\ 61 \in TestIds /\ "mod19" \in Patterns
      BY DEF Places, TestIds, Patterns
    <3>. QED
      BY <1>2, <3>1, InvWrite
  <2>2. CASE asserts /\ 61 < numBlocks
    <3>1. /\ pc = "write 61" /\ pc' = "write 19" /\ data' = data
          /\ mem' = [mem EXCEPT ![61] = heap[data]]
          /\ heap' = [heap EXCEPT ![data] = "mod19"]
      BY <1>2, <2>2 DEF AssertedWrite, InRange, StoredBlock
    <3>2. Holds({}) /\ heap[data] = TestBlock(61) /\ numBlocks > 61
      BY <1>1, <2>2, <3>1, TestBlocks DEF Inv, TestInv, Testing
    <3>3. Holds({61})'
      <4>1. \A j \in TestIds : mem'[j] = IF j = 61 THEN TestBlock(61) ELSE mem[j]
        BY <3>1, <3>2 DEF Inv, HeapInv
      <4>. QED
        BY <3>2, <4>1 DEF Holds
    <3>4. heap'[data'] = "mod19"
      BY <3>1 DEF Inv, HeapInv
    <3>. QED
      BY <2>1, <2>2, <3>1, <3>2, <3>3, <3>4 DEF Inv, TestInv, Testing
  <2>3. CASE asserts /\ ~ (61 < numBlocks)
    <3>1. pc = "write 61" /\ pc' = "aborted"
      BY <1>2, <2>3 DEF AssertedWrite, InRange, Stop
    <3>2. numBlocks =< 61
      BY <1>1, <2>3
    <3>. QED
      BY <2>1, <2>3, <3>1, <3>2 DEF Inv, TestInv, Testing
  <2>4. CASE ~ asserts
    <3>1. pc = "write 61" /\ pc' = "write 19" /\ heap'[data'] = "mod19"
      BY <1>2, <2>4 DEF AssertedWrite, Inv, HeapInv
    <3>. QED
      BY <2>1, <2>4, <3>1 DEF Inv, TestInv, NotTesting
  <2>. QED
    BY <2>2, <2>3, <2>4
<1>3. CASE AssertedWrite("write 19", 19, "mod23", "write 23")
  <2>1. HeapInv'
    <3>1. /\ "write 19" \in Places /\ "write 23" \in Places
          /\ 19 \in TestIds /\ "mod23" \in Patterns
      BY DEF Places, TestIds, Patterns
    <3>. QED
      BY <1>3, <3>1, InvWrite
  <2>2. CASE asserts /\ 19 < numBlocks
    <3>1. /\ pc = "write 19" /\ pc' = "write 23" /\ data' = data
          /\ mem' = [mem EXCEPT ![19] = heap[data]]
          /\ heap' = [heap EXCEPT ![data] = "mod23"]
      BY <1>3, <2>2 DEF AssertedWrite, InRange, StoredBlock
    <3>2. Holds({61}) /\ heap[data] = TestBlock(19) /\ numBlocks > 61
      BY <1>1, <2>2, <3>1, TestBlocks DEF Inv, TestInv, Testing
    <3>3. Holds({61, 19})'
      <4>1. \A j \in TestIds : mem'[j] = IF j = 19 THEN TestBlock(19) ELSE mem[j]
        BY <3>1, <3>2 DEF Inv, HeapInv
      <4>. QED
        BY <3>2, <4>1 DEF Holds
    <3>4. heap'[data'] = "mod23"
      BY <3>1 DEF Inv, HeapInv
    <3>. QED
      BY <2>1, <2>2, <3>1, <3>2, <3>3, <3>4 DEF Inv, TestInv, Testing
  <2>3. CASE asserts /\ ~ (19 < numBlocks)
    <3>1. pc = "write 19" /\ pc' = "aborted"
      BY <1>3, <2>3 DEF AssertedWrite, InRange, Stop
    <3>2. numBlocks =< 61
      BY <1>1, <2>3
    <3>. QED
      BY <2>1, <2>3, <3>1, <3>2 DEF Inv, TestInv, Testing
  <2>4. CASE ~ asserts
    <3>1. pc = "write 19" /\ pc' = "write 23" /\ heap'[data'] = "mod23"
      BY <1>3, <2>4 DEF AssertedWrite, Inv, HeapInv
    <3>. QED
      BY <2>1, <2>4, <3>1 DEF Inv, TestInv, NotTesting
  <2>. QED
    BY <2>2, <2>3, <2>4
<1>4. CASE AssertedWrite("write 23", 23, "zero", "read 19")
  <2>1. HeapInv'
    <3>1. /\ "write 23" \in Places /\ "read 19" \in Places
          /\ 23 \in TestIds /\ "zero" \in Patterns
      BY DEF Places, TestIds, Patterns
    <3>. QED
      BY <1>4, <3>1, InvWrite
  <2>2. CASE asserts /\ 23 < numBlocks
    <3>1. /\ pc = "write 23" /\ pc' = "read 19" /\ data' = data
          /\ mem' = [mem EXCEPT ![23] = heap[data]]
          /\ heap' = [heap EXCEPT ![data] = "zero"]
      BY <1>4, <2>2 DEF AssertedWrite, InRange, StoredBlock
    <3>2. Holds({61, 19}) /\ heap[data] = TestBlock(23) /\ numBlocks > 61
      BY <1>1, <2>2, <3>1, TestBlocks DEF Inv, TestInv, Testing
    <3>3. Holds({61, 19, 23})'
      <4>1. \A j \in TestIds : mem'[j] = IF j = 23 THEN TestBlock(23) ELSE mem[j]
        BY <3>1, <3>2 DEF Inv, HeapInv
      <4>. QED
        BY <3>2, <4>1 DEF Holds
    <3>4. heap'[data'] = "zero"
      BY <3>1 DEF Inv, HeapInv
    <3>. QED
      BY <2>1, <2>2, <3>1, <3>2, <3>3, <3>4 DEF Inv, TestInv, Testing
  <2>3. CASE asserts /\ ~ (23 < numBlocks)
    <3>1. pc = "write 23" /\ pc' = "aborted"
      BY <1>4, <2>3 DEF AssertedWrite, InRange, Stop
    <3>2. numBlocks =< 61
      BY <1>1, <2>3
    <3>. QED
      BY <2>1, <2>3, <3>1, <3>2 DEF Inv, TestInv, Testing
  <2>4. CASE ~ asserts
    <3>1. pc = "write 23" /\ pc' = "read 19" /\ heap'[data'] = "zero"
      BY <1>4, <2>4 DEF AssertedWrite, Inv, HeapInv
    <3>. QED
      BY <2>1, <2>4, <3>1 DEF Inv, TestInv, NotTesting
  <2>. QED
    BY <2>2, <2>3, <2>4
<1>. QED
  BY <1>2, <1>3, <1>4 DEF TestWrites

\* A read leaves the chunk of the pointer free, or filled with what was read.
LEMMA ReadFreesOrFills ==
  ASSUME HeapInv, NEW content \in Patterns, ReadInto(content)
  PROVE  /\ heap' \in [Addrs -> ChunkContents]
         /\ heap'[data] \in {"free", content}
<1> DEFINE h == [heap EXCEPT ![data] = "free"]
<1>1. PICK x \in Addrs : heap' = [h EXCEPT ![x] = content]
  BY DEF ReadInto, FreeChunks
<1>2. h \in [Addrs -> ChunkContents] /\ h[data] = "free" /\ data \in Addrs
  BY DEF HeapInv, ChunkContents
<1> HIDE DEF h
<1>. QED
  BY <1>1, <1>2 DEF ChunkContents

LEMMA InvTestRead ==
  ASSUME Inv, TestRead, UNCHANGED <<asserts, numBlocks>>
  PROVE  Inv'
<1>1. pc = "read 19" /\ pc' = "check" /\ mem' = mem /\ data' = data
  BY DEF TestRead
<1>2. CASE asserts
  <2>1. mem[19] = "mod19" /\ numBlocks > 61
    <3>1. Holds({61, 19, 23}) /\ numBlocks > 61
      BY <1>1, <1>2 DEF Inv, TestInv, Testing
    <3>. QED
      BY <3>1, TestBlocks DEF Holds, TestIds
  <2>2. ReadInto("mod19")
    BY <1>2, <2>1 DEF TestRead
  <2>3. heap' \in [Addrs -> ChunkContents] /\ heap'[data] \in {"free", "mod19"}
    BY <2>2, ReadFreesOrFills DEF Inv, Patterns
  <2>4. HeapInv'
    BY <1>1, <2>3 DEF Inv, HeapInv, Places
  <2>5. TestInv'
    BY <1>1, <1>2, <2>1, <2>3 DEF TestInv, Testing
  <2>. QED
    BY <2>4, <2>5 DEF Inv
<1>3. CASE ~ asserts
  BY <1>1, <1>3 DEF TestRead, Inv, HeapInv, TestInv, NotTesting, Places
<1>. QED
  BY <1>2, <1>3

LEMMA InvCheck ==
  ASSUME Inv, Check, UNCHANGED <<asserts, numBlocks>>
  PROVE  Inv'
<1>1. /\ pc = "check" /\ UNCHANGED <<mem, heap, data>>
      /\ pc' = (IF heap[data] = "free" THEN "undefined"
                ELSE IF heap[data] = "mod19" THEN "writing" ELSE "failed")
  BY DEF Check, Stop, Dangling, FreeChunks, Inv, HeapInv
<1>2. /\ asserts => numBlocks > 61 /\ pc' \in {"undefined", "writing"}
      /\ ~ asserts => pc' = "failed"
  BY <1>1 DEF Inv, HeapInv, TestInv, Testing, NotTesting
<1>3. HeapInv'
  BY <1>1 DEF Inv, HeapInv, Places
<1>4. TestInv'
  BY <1>2 DEF Inv, HeapInv, TestInv, Testing, NotTesting
<1>. QED
  BY <1>3, <1>4 DEF Inv

LEMMA InvRounds ==
  ASSUME Inv, RandomWrite \/ StartReading \/ FixedRead \/ StashOverflow \/ Free,
         UNCHANGED <<asserts, numBlocks>>
  PROVE  Inv'
<1>1. /\ pc \in {"writing", "reading"}
      /\ pc' \in {"writing", "reading", "undefined", "stash full", "done"}
      /\ mem' = mem /\ data' = data
  BY DEF RandomWrite, StartReading, FixedRead, StashOverflow, Free, Stop
<1>2. heap' \in [Addrs -> ChunkContents]
  <2>1. CASE RandomWrite
    BY <2>1 DEF RandomWrite, Inv, HeapInv, ChunkContents
  <2>2. CASE FixedRead
    <3>1. CASE heap' = heap
      BY <3>1 DEF Inv, HeapInv
    <3>2. CASE heap' # heap
      <4>1. PICK content \in Patterns : ReadInto(content)
        BY <2>2, <3>2 DEF FixedRead, Stop
      <4>. QED
        BY <4>1, ReadFreesOrFills DEF Inv
    <3>. QED
      BY <3>1, <3>2
  <2>3. CASE StartReading \/ StashOverflow \/ Free
    <3>1. heap' = heap \/ heap' = [heap EXCEPT ![data] = "free"]
      BY <2>3 DEF StartReading, StashOverflow, Free, Stop
    <3>. QED
      BY <3>1 DEF Inv, HeapInv, ChunkContents
  <2>. QED
    BY <2>1, <2>2, <2>3
<1>3. HeapInv'
  BY <1>1, <1>2 DEF Inv, HeapInv, Places
<1>4. TestInv'
  BY <1>1 DEF Inv, TestInv, Testing, NotTesting
<1>. QED
  BY <1>3, <1>4 DEF Inv

LEMMA InvStep == Inv /\ [Next]_vars => Inv'
<1> SUFFICES ASSUME Inv, [Next]_vars PROVE Inv'
  OBVIOUS
<1>1. CASE UNCHANGED vars
  BY <1>1
     DEF vars, Inv, HeapInv, TestInv, Testing, NotTesting, Holds
<1>. QED
  BY <1>1, InvStart, InvTestWrites, InvTestRead, InvCheck, InvRounds DEF Next, Over

\* The correctness test is passed, or the freed buffer read, exactly in a build
\* with assertions and with more blocks than the test uses, whichever chunks the
\* allocator gives.
THEOREM TestCharacterised == Spec => []TestSucceeds
<1>1. Inv => TestSucceeds
  BY DEF Inv, TestInv, TestSucceeds
<1>. QED
  BY <1>1, InvInit, InvStep, PTL DEF Spec
=============================================================================
