--------------------------- MODULE Common_proofs ---------------------------
(***************************************************************************)
(* Lemmas that the proofs about several components rest on: on loops and   *)
(* recursive functions, on the sizes of trees and of the ORAMs below one,  *)
(* on contents and requests, and on the slots of a node.                   *)
(*                                                                         *)
(* The loops of the enclave's routines are recursive functions over the    *)
(* numbers of their rounds.  What such a function is, and what each round  *)
(* keeps, follows by induction over the set of the rounds for which it     *)
(* holds (SetInduction).                                                   *)
(***************************************************************************)
EXTENDS ClientNode, OramShape, FiniteSetTheorems, WellFoundedInduction, TLAPS

\* A set of naturals with zero and with the successor of each member is all
\* of them: else there were a least number outside.
LEMMA SetInduction ==
  ASSUME NEW G \in SUBSET Nat, 0 \in G, \A n \in G : n + 1 \in G
  PROVE  G = Nat
<1> DEFINE B == Nat \ G
<1>1. ASSUME B # {} PROVE FALSE
  <2>1. IsWellFoundedOn(OpToRel(<, Nat), Nat)
    BY NatLessThanWellFounded
  <2>2. PICK x \in B : \A y \in B : ~ (<<y, x>> \in OpToRel(<, Nat))
    BY <1>1, <2>1, WFMin
  <2>3. \A y \in B : ~ (y < x)
    BY <2>2 DEF OpToRel
  <2>4. x # 0 /\ x \in Nat
    OBVIOUS
  <2>5. x - 1 \in Nat /\ x - 1 < x
    BY <2>4
  <2>6. x - 1 \in G
    BY <2>3, <2>5
  <2>. QED BY <2>6, <2>4
<1>. QED BY <1>1

\* The same up to a bound: what the start of a loop has and every round
\* keeps, every round has.
LEMMA UpTo ==
  ASSUME NEW n \in Nat, NEW G,
         0 \in G,
         \A k \in 1 .. n : k - 1 \in G => k \in G
  PROVE  \A k \in 0 .. n : k \in G
<1> DEFINE H == {k \in Nat : k =< n => k \in G}
<1>1. H = Nat
  <2>1. H \in SUBSET Nat
    OBVIOUS
  <2>2. 0 \in H
    OBVIOUS
  <2>3. \A k \in H : k + 1 \in H
    <3> SUFFICES ASSUME NEW k \in Nat, k \in H, k + 1 =< n
                 PROVE  k + 1 \in G
      OBVIOUS
    <3>1. k \in G
      OBVIOUS
    <3>2. k + 1 \in 1 .. n /\ (k + 1) - 1 = k
      OBVIOUS
    <3>. QED BY <3>1, <3>2
  <2> HIDE DEF H
  <2>. QED BY <2>1, <2>2, <2>3, SetInduction
<1>. QED BY <1>1

\* The rounds of a loop over the states of S, from base on.
LoopSteps(S, n) == [S \X (1 .. n) -> S]
IsLoop(f, S, n, base, step) ==
  /\ f \in [0 .. n -> S]
  /\ f[0] = base
  /\ \A k \in 1 .. n : f[k] = step[<<f[k - 1], k>>]

\* A loop of n rounds over the states of a set has a function of its rounds.
LEMMA LoopExists ==
  ASSUME NEW S, NEW n \in Nat, NEW base \in S, NEW step \in LoopSteps(S, n)
  PROVE  \E f : IsLoop(f, S, n, base, step)
<1> DEFINE Starts(f, m) ==
             f[0] = base /\ \A k \in 1 .. m : f[k] = step[<<f[k - 1], k>>]
           G == {m \in 0 .. n : \E f \in [0 .. n -> S] : Starts(f, m)}
<1>1. 0 \in G
  <2> DEFINE f == [k \in 0 .. n |-> base]
  <2>1. f \in [0 .. n -> S] /\ f[0] = base
    OBVIOUS
  <2>2. \A k \in 1 .. 0 : f[k] = step[<<f[k - 1], k>>]
    OBVIOUS
  <2>3. Starts(f, 0)
    BY <2>1, <2>2
  <2> HIDE DEF f
  <2>. QED BY <2>1, <2>3
<1>2. ASSUME NEW m \in 1 .. n, m - 1 \in G PROVE m \in G
  <2>1. PICK f \in [0 .. n -> S] : Starts(f, m - 1)
    BY <1>2
  <2> DEFINE g == [f EXCEPT ![m] = step[<<f[m - 1], m>>]]
  <2>2. \A k \in 0 .. n : k # m => g[k] = f[k]
    OBVIOUS
  <2>3. <<f[m - 1], m>> \in S \X (1 .. n)
    OBVIOUS
  <2>4. step[<<f[m - 1], m>>] \in S
    BY <2>3 DEF LoopSteps
  <2>5. g \in [0 .. n -> S] /\ g[m] = step[<<f[m - 1], m>>]
    BY <2>4
  <2>6. g[0] = base
    BY <2>1, <2>2
  <2>7. ASSUME NEW k \in 1 .. m PROVE g[k] = step[<<g[k - 1], k>>]
    <3>1. k - 1 \in 0 .. n /\ k - 1 # m /\ k \in 0 .. n
      OBVIOUS
    <3>2. g[k - 1] = f[k - 1]
      BY <3>1, <2>2
    <3>3. CASE k = m
      BY <3>2, <3>3, <2>5
    <3>4. CASE k # m
      <4>1. k \in 1 .. m - 1
        BY <3>4
      <4>2. f[k] = step[<<f[k - 1], k>>]
        BY <4>1, <2>1
      <4>3. g[k] = f[k]
        BY <3>1, <3>4, <2>2
      <4>. QED BY <4>2, <4>3, <3>2
    <3>. QED BY <3>3, <3>4
  <2>8. Starts(g, m)
    BY <2>6, <2>7
  <2> HIDE DEF g
  <2>. QED BY <2>5, <2>8
<1> HIDE DEF G
<1>3. \A k \in 0 .. n : k \in G
  BY <1>1, <1>2, UpTo
<1>4. n \in G
  BY <1>3
<1>. QED BY <1>4 DEF G, IsLoop

-----------------------------------------------------------------------------
(* Recursive functions on the naturals.                                    *)

\* Each number but zero gets its value from that of a smaller one.
IsRecursion(f, S, base, pred, step) ==
  /\ f \in [Nat -> S]
  /\ f[0] = base
  /\ \A n \in Nat \ {0} : f[n] = step[<<n, f[pred[n]]>>]

LEMMA RecursionExists ==
  ASSUME NEW S, NEW base \in S, NEW pred \in [Nat \ {0} -> Nat],
         \A n \in Nat \ {0} : pred[n] < n,
         NEW step \in [(Nat \ {0}) \X S -> S]
  PROVE  \E f : IsRecursion(f, S, base, pred, step)
<1> DEFINE Up(t, m) ==
             /\ t \in [0 .. m -> S]
             /\ t[0] = base
             /\ \A n \in 1 .. m : t[n] = step[<<n, t[pred[n]]>>]
<1>1. ASSUME NEW m \in Nat PROVE \E t : Up(t, m)
  <2> DEFINE G == {n \in Nat : \E t : Up(t, n)}
  <2>1. 0 \in G
    <3> DEFINE t == [n \in 0 .. 0 |-> base]
    <3>1. t \in [0 .. 0 -> S] /\ t[0] = base
      OBVIOUS
    <3>2. \A n \in 1 .. 0 : t[n] = step[<<n, t[pred[n]]>>]
      OBVIOUS
    <3> HIDE DEF t
    <3>. QED BY <3>1, <3>2
  <2>2. ASSUME NEW n \in G PROVE n + 1 \in G
    <3>1. n \in Nat
      BY <2>2
    <3>2. PICK t : Up(t, n)
      BY <2>2
    <3> DEFINE v == step[<<n + 1, t[pred[n + 1]]>>]
               u == [k \in 0 .. n + 1 |-> IF k = n + 1 THEN v ELSE t[k]]
    <3>3. n + 1 \in Nat \ {0} /\ pred[n + 1] \in 0 .. n
      BY <3>1
    <3>4. t[pred[n + 1]] \in S
      BY <3>2, <3>3
    <3>5. v \in S
      BY <3>3, <3>4
    <3> HIDE DEF v
    <3>6. u \in [0 .. n + 1 -> S] /\ u[0] = base
      BY <3>1, <3>2, <3>5
    <3>7. ASSUME NEW k \in 1 .. n + 1 PROVE u[k] = step[<<k, u[pred[k]]>>]
      <4>1. k \in Nat \ {0} /\ pred[k] \in Nat /\ pred[k] < k
        BY <3>1
      <4>2. u[pred[k]] = t[pred[k]]
        BY <3>1, <4>1
      <4>3. CASE k = n + 1
        <5>1. u[k] = v
          BY <3>1, <4>3
        <5>2. v = step[<<k, t[pred[k]]>>]
          BY <4>3 DEF v
        <5>. QED BY <4>2, <5>1, <5>2
      <4>4. CASE k # n + 1
        <5>1. k \in 1 .. n
          BY <3>1, <4>4
        <5>2. u[k] = t[k] /\ t[k] = step[<<k, t[pred[k]]>>]
          BY <3>1, <3>2, <5>1
        <5>. QED BY <4>2, <5>2
      <4>. QED BY <4>3, <4>4
    <3> HIDE DEF u
    <3>8. Up(u, n + 1)
      BY <3>6, <3>7
    <3>. QED BY <3>1, <3>8
  <2> HIDE DEF G
  <2>3. G \in SUBSET Nat
    BY DEF G
  <2>4. G = Nat
    BY <2>1, <2>2, <2>3, SetInduction
  <2>. QED BY <2>4 DEF G
<1>2. ASSUME NEW m \in Nat, NEW l \in Nat, NEW t, NEW u, Up(t, m), Up(u, l)
      PROVE  \A n \in Nat : n =< m /\ n =< l => t[n] = u[n]
  <2> DEFINE G == {n \in Nat : \A k \in 0 .. n : k =< m /\ k =< l => t[k] = u[k]}
  <2>1. 0 \in G
    BY <1>2
  <2>2. ASSUME NEW n \in G PROVE n + 1 \in G
    <3>1. n \in Nat
      BY <2>2
    <3>2. ASSUME NEW k \in 0 .. n + 1, k =< m, k =< l PROVE t[k] = u[k]
      <4>1. CASE k \in 0 .. n
        BY <2>2, <3>2, <4>1
      <4>2. CASE k = n + 1
        <5>1. k \in Nat \ {0} /\ k \in 1 .. m /\ k \in 1 .. l
          BY <3>1, <3>2, <4>2
        <5>2. pred[k] \in Nat /\ pred[k] < k
          BY <5>1
        <5>3. pred[k] \in 0 .. n /\ pred[k] =< m /\ pred[k] =< l
          BY <3>1, <3>2, <4>2, <5>2
        <5>4. t[pred[k]] = u[pred[k]]
          BY <2>2, <5>3
        <5>5. t[k] = step[<<k, t[pred[k]]>>] /\ u[k] = step[<<k, u[pred[k]]>>]
          BY <1>2, <5>1
        <5>. QED BY <5>4, <5>5
      <4>. QED BY <3>1, <4>1, <4>2
    <3>. QED BY <3>1, <3>2
  <2> HIDE DEF G
  <2>3. G \in SUBSET Nat
    BY DEF G
  <2>4. G = Nat
    BY <2>1, <2>2, <2>3, SetInduction
  <2>. QED BY <2>4 DEF G
<1> DEFINE T == [m \in Nat |-> CHOOSE t : Up(t, m)]
           f == [n \in Nat |-> T[n][n]]
<1>3. \A m \in Nat : Up(T[m], m)
  BY <1>1
<1> HIDE DEF T
<1>4. f \in [Nat -> S] /\ f[0] = base
  BY <1>3
<1>5. ASSUME NEW n \in Nat \ {0} PROVE f[n] = step[<<n, f[pred[n]]>>]
  <2>1. pred[n] \in Nat /\ pred[n] < n /\ n \in Nat /\ n \in 1 .. n
    OBVIOUS
  <2>2. Up(T[n], n) /\ Up(T[pred[n]], pred[n])
    BY <1>3, <2>1
  <2>3. T[n][n] = step[<<n, T[n][pred[n]]>>]
    BY <2>1, <2>2
  <2>4. T[n][pred[n]] = T[pred[n]][pred[n]]
    <3> HIDE DEF Up
    <3>. QED BY <1>2, <2>1, <2>2
  <2>. QED BY <2>1, <2>3, <2>4
<1> HIDE DEF f
<1>6. IsRecursion(f, S, base, pred, step)
  BY <1>4, <1>5 DEF IsRecursion
<1>. QED BY <1>6

-----------------------------------------------------------------------------
(* Arithmetic.                                                             *)

\* Division with remainder.
LEMMA Division ==
  ASSUME NEW b \in Nat \ {0}, NEW x \in Nat
  PROVE  /\ x \div b \in Nat
         /\ x % b \in 0 .. b - 1
         /\ x = b * (x \div b) + (x % b)
OBVIOUS

\* There is one quotient and one remainder.
LEMMA OneRemainder ==
  ASSUME NEW b \in Nat \ {0}, NEW x \in Nat, NEW y \in Nat,
         NEW r \in 0 .. b - 1, NEW s \in 0 .. b - 1, b * x + r = b * y + s
  PROVE  x = y /\ r = s
<1>1. ~ (x < y)
  <2> SUFFICES ASSUME x < y PROVE FALSE
    OBVIOUS
  <2>1. PICK d \in Nat \ {0} : y = x + d
    <3>1. y - x \in Nat \ {0} /\ y = x + (y - x)
      OBVIOUS
    <3>. QED BY <3>1
  <2>2. b * y = b * x + b * d /\ b * d >= b
    BY <2>1
  <2>. QED BY <2>2
<1>2. ~ (y < x)
  <2> SUFFICES ASSUME y < x PROVE FALSE
    OBVIOUS
  <2>1. PICK d \in Nat \ {0} : x = y + d
    <3>1. x - y \in Nat \ {0} /\ x = y + (x - y)
      OBVIOUS
    <3>. QED BY <3>1
  <2>2. b * x = b * y + b * d /\ b * d >= b
    BY <2>1
  <2>. QED BY <2>2
<1>. QED BY <1>1, <1>2

\* A remainder by a product, in two parts.
LEMMA RemainderOfProduct ==
  ASSUME NEW a \in Nat \ {0}, NEW b \in Nat \ {0}, NEW p \in Nat
  PROVE  p % (a * b) = a * ((p \div a) % b) + (p % a)
<1> DEFINE q == p \div a
           r == p % a
           t == q \div b
           s == q % b
           m == a * b
           u == p \div m
           v == p % m
<1>1. q \in Nat /\ r \in 0 .. a - 1 /\ p = a * q + r
  BY Division
<1> HIDE DEF q, r
<1>2. t \in Nat /\ s \in 0 .. b - 1 /\ q = b * t + s
  BY <1>1, Division
<1> HIDE DEF t, s
<1>3. m \in Nat \ {0}
  OBVIOUS
<1>4. a * q = m * t + a * s
  <2>1. a * (b * t + s) = a * (b * t) + a * s
    BY <1>2
  <2>2. a * (b * t) = (a * b) * t
    BY <1>2
  <2>. QED BY <1>2, <2>1, <2>2
<1>5. a * s + r \in 0 .. m - 1
  <2>1. PICK e \in Nat : b = s + 1 + e
    <3>1. b - 1 - s \in Nat /\ b = s + 1 + (b - 1 - s)
      BY <1>2
    <3>. QED BY <3>1
  <2>2. a * (s + 1 + e) = a * s + a + a * e /\ a * s \in Nat /\ a * e \in Nat
    BY <1>2, <2>1
  <2>. QED BY <1>1, <2>1, <2>2
<1> HIDE DEF m
<1>6. u \in Nat /\ v \in 0 .. m - 1 /\ p = m * u + v
  BY <1>3, Division
<1> HIDE DEF u, v
<1> DEFINE w == a * s + r
<1>7. m * u + v = m * t + w
  BY <1>1, <1>2, <1>3, <1>4, <1>6
<1>8. w \in 0 .. m - 1
  BY <1>5
<1> HIDE DEF w
<1>9. v = w
  BY <1>2, <1>3, <1>6, <1>7, <1>8, OneRemainder
<1>. QED BY <1>9 DEF v, w, m, s, q, r

-----------------------------------------------------------------------------
(* Powers of two, and the remainders by them.                              *)

LEMMA PowersOfTwo ==
  /\ TwoTo \in [Nat -> Nat \ {0}]
  /\ TwoTo[0] = 1
  /\ \A n \in Nat : TwoTo[n + 1] = 2 * TwoTo[n]
<1> DEFINE F(f) == [n \in Nat |-> IF n = 0 THEN 1 ELSE 2 * f[n - 1]]
           pred == [n \in Nat \ {0} |-> n - 1]
           S == Nat \ {0}
           step == [x \in (Nat \ {0}) \X S |-> 2 * x[2]]
<1>1. /\ pred \in [Nat \ {0} -> Nat] /\ \A n \in Nat \ {0} : pred[n] < n
      /\ step \in [(Nat \ {0}) \X S -> S] /\ 1 \in S
  OBVIOUS
<1>2. PICK f : IsRecursion(f, S, 1, pred, step)
  <2> HIDE DEF pred, S, step
  <2>. QED BY <1>1, RecursionExists
<1>3. f \in [Nat -> S] /\ f[0] = 1 /\ \A n \in Nat \ {0} : f[n] = 2 * f[n - 1]
  <2>1. /\ f \in [Nat -> S] /\ f[0] = 1
        /\ \A n \in Nat \ {0} : f[n] = step[<<n, f[pred[n]]>>]
    <3> HIDE DEF step, pred
    <3>. QED BY <1>2 DEF IsRecursion
  <2>2. ASSUME NEW n \in Nat \ {0} PROVE f[n] = 2 * f[n - 1]
    <3>1. n - 1 \in Nat /\ pred[n] = n - 1
      OBVIOUS
    <3>2. f[n - 1] \in S
      BY <2>1, <3>1
    <3>3. step[<<n, f[n - 1]>>] = 2 * f[n - 1]
      BY <3>2
    <3>. QED BY <2>1, <3>1, <3>3
  <2>. QED BY <2>1, <2>2
<1>4. f = F(f)
  BY <1>3
<1>5. TwoTo = CHOOSE g : g = F(g)
  BY DEF TwoTo
<1>6. TwoTo = F(TwoTo)
  <2> HIDE DEF F
  <2>. QED BY <1>4, <1>5
<1>7. TwoTo[0] = 1 /\ \A n \in Nat : TwoTo[n + 1] = 2 * TwoTo[n]
  <2>1. \A n \in Nat : TwoTo[n] = IF n = 0 THEN 1 ELSE 2 * TwoTo[n - 1]
    BY <1>6
  <2>2. ASSUME NEW n \in Nat PROVE TwoTo[n + 1] = 2 * TwoTo[n]
    <3>1. n + 1 \in Nat /\ n + 1 # 0 /\ (n + 1) - 1 = n
      OBVIOUS
    <3>. QED BY <2>1, <3>1
  <2>. QED BY <2>1, <2>2
<1> DEFINE G == {n \in Nat : TwoTo[n] \in Nat \ {0}}
<1>8. G = Nat
  <2>1. G \in SUBSET Nat /\ 0 \in G
    BY <1>7
  <2>2. \A n \in G : n + 1 \in G
    BY <1>7
  <2> HIDE DEF G
  <2>. QED BY <2>1, <2>2, SetInduction
<1>9. TwoTo \in [Nat -> Nat \ {0}]
  <2>1. \A n \in Nat : TwoTo[n] \in Nat \ {0}
    BY <1>8
  <2>2. TwoTo = [n \in Nat |-> TwoTo[n]]
    BY <1>6
  <2>. QED BY <2>1, <2>2
<1>. QED BY <1>7, <1>9

LEMMA PowersMultiply ==
  ASSUME NEW i \in Nat, NEW j \in Nat
  PROVE  TwoTo[i + j] = TwoTo[i] * TwoTo[j]
<1> DEFINE G == {n \in Nat : TwoTo[i + n] = TwoTo[i] * TwoTo[n]}
<1>1. G \in SUBSET Nat /\ 0 \in G
  BY PowersOfTwo
<1>2. ASSUME NEW n \in G PROVE n + 1 \in G
  <2>1. n \in Nat /\ TwoTo[i + n] = TwoTo[i] * TwoTo[n]
    BY <1>2
  <2>2. i + n \in Nat /\ i + (n + 1) = (i + n) + 1
    BY <2>1
  <2>3. TwoTo[(i + n) + 1] = 2 * TwoTo[i + n] /\ TwoTo[n + 1] = 2 * TwoTo[n]
    BY <2>1, <2>2, PowersOfTwo
  <2>4. TwoTo[i] \in Nat /\ TwoTo[n] \in Nat
    BY <2>1, PowersOfTwo
  <2>5. TwoTo[i] * (2 * TwoTo[n]) = 2 * (TwoTo[i] * TwoTo[n])
    BY <2>4
  <2>. QED BY <2>1, <2>2, <2>3, <2>5
<1> HIDE DEF G
<1>3. G = Nat
  BY <1>1, <1>2, SetInduction
<1>. QED BY <1>3 DEF G

\* Two numbers have equal remainders by TwoTo[k] exactly when they have by
\* TwoTo[i] and in the bits i to k - 1.
LEMMA LowBits ==
  ASSUME NEW p \in Nat, NEW q \in Nat, NEW k \in Nat, NEW i \in 0 .. k
  PROVE  p % TwoTo[k] = q % TwoTo[k]
           <=> /\ p % TwoTo[i] = q % TwoTo[i]
               /\ (p \div TwoTo[i]) % TwoTo[k - i] = (q \div TwoTo[i]) % TwoTo[k - i]
<1> DEFINE a == TwoTo[i]
           b == TwoTo[k - i]
<1>1. k - i \in Nat /\ i \in Nat /\ i + (k - i) = k
  OBVIOUS
<1>2. a \in Nat \ {0} /\ b \in Nat \ {0} /\ TwoTo[k] = a * b
  BY <1>1, PowersOfTwo, PowersMultiply
<1> HIDE DEF a, b
<1> DEFINE x == (p \div a) % b
           y == (q \div a) % b
           r == p % a
           s == q % a
<1>3. p % (a * b) = a * x + r /\ q % (a * b) = a * y + s
  BY <1>2, RemainderOfProduct
<1>4. p \div a \in Nat /\ q \div a \in Nat /\ r \in 0 .. a - 1 /\ s \in 0 .. a - 1
  BY <1>2, Division
<1>5. x \in 0 .. b - 1 /\ y \in 0 .. b - 1
  BY <1>2, <1>4, Division
<1> HIDE DEF x, y, r, s
<1>6. a * x + r = a * y + s <=> r = s /\ x = y
  <2>1. x \in Nat /\ y \in Nat
    BY <1>2, <1>5
  <2>. QED BY <1>2, <1>4, <2>1, OneRemainder
<1>. QED BY <1>2, <1>3, <1>6 DEF a, b, x, y, r, s

-----------------------------------------------------------------------------
(* Heights and capacities.                                                 *)

\* A tree for at least one block has a level, and a tree for more blocks is
\* as high.
LEMMA HeightsGrow ==
  /\ ComputeTreeHeight \in [Nat -> Nat]
  /\ \A n \in Nat \ {0} : ComputeTreeHeight[n] > 0
  /\ \A m, n \in Nat : m =< n => ComputeTreeHeight[m] =< ComputeTreeHeight[n]
<1> DEFINE H == ComputeTreeHeight
           F(f) == [n \in Nat |-> IF n = 0 THEN 0 ELSE 1 + f[n \div 2]]
           pred == [n \in Nat \ {0} |-> n \div 2]
           step == [x \in (Nat \ {0}) \X Nat |-> 1 + x[2]]
<1>1. /\ pred \in [Nat \ {0} -> Nat] /\ \A n \in Nat \ {0} : pred[n] < n
      /\ step \in [(Nat \ {0}) \X Nat -> Nat] /\ 0 \in Nat
  OBVIOUS
<1>2. PICK f : IsRecursion(f, Nat, 0, pred, step)
  <2> HIDE DEF pred, step
  <2>. QED BY <1>1, RecursionExists
<1>3. f \in [Nat -> Nat] /\ f[0] = 0 /\ \A n \in Nat \ {0} : f[n] = 1 + f[n \div 2]
  <2>1. /\ f \in [Nat -> Nat] /\ f[0] = 0
        /\ \A n \in Nat \ {0} : f[n] = step[<<n, f[pred[n]]>>]
    <3> HIDE DEF step, pred
    <3>. QED BY <1>2 DEF IsRecursion
  <2>2. ASSUME NEW n \in Nat \ {0} PROVE f[n] = 1 + f[n \div 2]
    <3>1. n \div 2 \in Nat /\ pred[n] = n \div 2
      OBVIOUS
    <3>2. f[n \div 2] \in Nat
      BY <2>1, <3>1
    <3>3. step[<<n, f[n \div 2]>>] = 1 + f[n \div 2]
      BY <3>2
    <3>. QED BY <2>1, <3>1, <3>3
  <2>. QED BY <2>1, <2>2
<1>4. f = F(f)
  BY <1>3
<1>5. H = CHOOSE g : g = F(g)
  BY DEF ComputeTreeHeight
<1>6. H = F(H)
  <2> HIDE DEF F, H
  <2>. QED BY <1>4, <1>5
<1> HIDE DEF H
<1>7. H = [n \in Nat |-> H[n]] /\ H[0] = 0 /\ \A n \in Nat \ {0} : H[n] = 1 + H[n \div 2]
  BY <1>6
<1> DEFINE G == {n \in Nat : \A k \in 0 .. n : H[k] \in Nat /\ \A j \in 0 .. k : H[j] =< H[k]}
<1>8. G \in SUBSET Nat /\ 0 \in G
  BY <1>7
<1>9. ASSUME NEW n \in G PROVE n + 1 \in G
  <2>1. n \in Nat /\ \A k \in 0 .. n : H[k] \in Nat /\ \A j \in 0 .. k : H[j] =< H[k]
    BY <1>9
  <2> DEFINE m == n + 1
  <2>2. m \in Nat \ {0} /\ m \div 2 \in 0 .. n
    BY <2>1
  <2>3. H[m] = 1 + H[m \div 2] /\ H[m \div 2] \in Nat
    BY <1>7, <2>1, <2>2
  <2>4. ASSUME NEW j \in 0 .. m PROVE H[j] =< H[m]
    <3>1. CASE j = 0
      BY <1>7, <2>3, <3>1
    <3>2. CASE j # 0
      <4>1. j \in Nat \ {0} /\ j \div 2 \in 0 .. m \div 2
        BY <2>1, <3>2
      <4>2. H[j] = 1 + H[j \div 2]
        BY <1>7, <4>1
      <4>3. H[j \div 2] =< H[m \div 2] /\ H[j \div 2] \in Nat
        BY <2>1, <2>2, <4>1
      <4>. QED BY <2>3, <4>2, <4>3
    <3>. QED BY <3>1, <3>2
  <2>5. \A k \in 0 .. m : H[k] \in Nat /\ \A j \in 0 .. k : H[j] =< H[k]
    <3>1. \A k \in 0 .. m : k \in 0 .. n \/ k = m
      BY <2>1
    <3>2. H[m] \in Nat
      BY <2>3
    <3>. QED BY <2>1, <2>4, <3>1, <3>2
  <2>. QED BY <2>2, <2>5
<1>10. G = Nat
  <2> HIDE DEF G
  <2>. QED BY <1>8, <1>9, SetInduction
<1>11. \A k \in Nat : H[k] \in Nat /\ \A j \in 0 .. k : H[j] =< H[k]
  BY <1>10
<1>12. \A n \in Nat \ {0} : H[n] > 0
  <2> SUFFICES ASSUME NEW n \in Nat \ {0} PROVE H[n] > 0
    OBVIOUS
  <2>1. n \div 2 \in Nat
    OBVIOUS
  <2>2. H[n] = 1 + H[n \div 2]
    BY <1>7
  <2>3. H[n \div 2] \in Nat
    BY <1>11, <2>1
  <2>. QED BY <2>2, <2>3
<1>13. \A m, n \in Nat : m =< n => H[m] =< H[n]
  BY <1>11
<1>14. H \in [Nat -> Nat]
  BY <1>7, <1>11
<1>. QED BY <1>12, <1>13, <1>14 DEF H

\* The ORAM below has a block for each label, and no more blocks than labels.
LEMMA MapIsSmaller ==
  ASSUME NEW c \in Nat \ {0}, NEW w \in Nat \ {0}
  PROVE  /\ HigherCapacity(c, w) \in Nat \ {0}
         /\ HigherCapacity(c, w) =< c
         /\ \A i \in 0 .. c - 1 : MapInd(i, w) \in 0 .. HigherCapacity(c, w) - 1
<1> DEFINE x == c + w - 1
           q == x \div w
           r == x % w
<1>1. x \in Nat
  OBVIOUS
<1>2. q \in Nat /\ r \in 0 .. w - 1 /\ x = w * q + r
  BY <1>1, Division
<1> HIDE DEF q, r
<1>3. q # 0
  BY <1>2
<1>4. q =< c
  <2> SUFFICES ASSUME ~ (q =< c) PROVE FALSE
    OBVIOUS
  <2>1. PICK d \in Nat : q = c + 1 + d
    <3>1. q - c - 1 \in Nat /\ q = c + 1 + (q - c - 1)
      BY <1>2
    <3>. QED BY <3>1
  <2>2. w * (c + 1 + d) = w * c + w + w * d /\ w * d \in Nat /\ w * c >= c
    BY <2>1
  <2>. QED BY <1>2, <2>1, <2>2
<1>5. ASSUME NEW i \in 0 .. c - 1 PROVE i \div w \in 0 .. q - 1
  <2> DEFINE a == i \div w
             b == i % w
  <2>1. a \in Nat /\ b \in 0 .. w - 1 /\ i = w * a + b
    BY Division
  <2> HIDE DEF a, b
  <2>2. a < q
    <3> SUFFICES ASSUME ~ (a < q) PROVE FALSE
      OBVIOUS
    <3>1. PICK d \in Nat : a = q + d
      <4>1. a - q \in Nat /\ a = q + (a - q)
        BY <1>2, <2>1
      <4>. QED BY <4>1
    <3>2. w * (q + d) = w * q + w * d /\ w * d \in Nat
      BY <1>2, <3>1
    <3>. QED BY <1>2, <2>1, <3>1, <3>2
  <2>. QED BY <1>2, <2>1, <2>2 DEF a
<1>. QED BY <1>2, <1>3, <1>4, <1>5 DEF HigherCapacity, MapInd, q

\* A label is found by its block and its place in the block.
LEMMA MapPlace ==
  ASSUME NEW w \in Nat \ {0}, NEW i \in Nat, NEW j \in Nat,
         MapInd(i, w) = MapInd(j, w), i % w = j % w
  PROVE  i = j
<1>1. i = w * (i \div w) + (i % w) /\ j = w * (j \div w) + (j % w)
  BY Division
<1>. QED BY <1>1 DEF MapInd

-----------------------------------------------------------------------------
(* The chain of ORAMs below an object.                                     *)

\* The ORAM below has fewer blocks, as long as a block holds two labels.
LEMMA MapShrinks ==
  ASSUME NEW c \in Nat, c > 1, NEW w \in Nat, w > 1
  PROVE  HigherCapacity(c, w) < c
<1> DEFINE x == c + w - 1
           q == x \div w
           r == x % w
<1>1. w \in Nat \ {0}
  OBVIOUS
<1>2. x \in Nat
  OBVIOUS
<1>3. q \in Nat /\ r \in 0 .. w - 1 /\ x = w * q + r
  BY <1>1, <1>2, Division
<1> HIDE DEF q, r
<1>4. q < c
  <2> SUFFICES ASSUME ~ (q < c) PROVE FALSE
    BY <1>3
  <2>1. PICK e \in Nat : q = c + e
    <3>1. q - c \in Nat /\ q = c + (q - c)
      BY <1>3
    <3>. QED BY <3>1
  <2>2. PICK a \in Nat : w = 2 + a
    <3>1. w - 2 \in Nat /\ w = 2 + (w - 2)
      BY <1>1
    <3>. QED BY <3>1
  <2>3. w * (c + e) = w * c + w * e /\ w * e \in Nat
    BY <1>1, <2>1
  <2>4. (2 + a) * c = c + c + a * c /\ a * c >= a
    BY <2>2
  <2>. QED BY <1>1, <1>3, <2>1, <2>2, <2>3, <2>4
<1>. QED BY <1>4 DEF HigherCapacity, q

\* The capacities are what their recursion says.
LEMMA CapacitiesDescend ==
  ASSUME NEW cap \in Nat \ {0}, NEW w \in Nat \ {0}
  PROVE  /\ CapacitiesBelow(cap, w) \in [Nat -> Nat \ {0}]
         /\ CapacitiesBelow(cap, w)[0] = cap
         /\ \A k \in Nat : CapacitiesBelow(cap, w)[k + 1]
                             = HigherCapacity(CapacitiesBelow(cap, w)[k], w)
<1> DEFINE C == CapacitiesBelow(cap, w)
           F(f) == [n \in Nat |-> IF n = 0 THEN cap ELSE HigherCapacity(f[n - 1], w)]
           pred == [n \in Nat \ {0} |-> n - 1]
           Caps == Nat \ {0}
           step == [x \in (Nat \ {0}) \X Caps |-> HigherCapacity(x[2], w)]
<1>1. pred \in [Nat \ {0} -> Nat] /\ \A n \in Nat \ {0} : pred[n] < n
  OBVIOUS
<1>2. step \in [(Nat \ {0}) \X Caps -> Caps]
  BY MapIsSmaller
<1>3. PICK f : IsRecursion(f, Caps, cap, pred, step)
  <2>1. cap \in Caps
    OBVIOUS
  <2> HIDE DEF pred, Caps, step
  <2>. QED BY <1>1, <1>2, <2>1, RecursionExists
<1>4. /\ f \in [Nat -> Caps] /\ f[0] = cap
      /\ \A n \in Nat \ {0} : f[n] = HigherCapacity(f[n - 1], w)
  <2>1. /\ f \in [Nat -> Caps] /\ f[0] = cap
        /\ \A n \in Nat \ {0} : f[n] = step[<<n, f[pred[n]]>>]
    <3> HIDE DEF step, pred, Caps
    <3>. QED BY <1>3 DEF IsRecursion
  <2>2. ASSUME NEW n \in Nat \ {0} PROVE f[n] = HigherCapacity(f[n - 1], w)
    <3>1. n - 1 \in Nat /\ pred[n] = n - 1
      OBVIOUS
    <3>2. f[n - 1] \in Caps
      BY <2>1, <3>1
    <3>3. step[<<n, f[n - 1]>>] = HigherCapacity(f[n - 1], w)
      BY <3>2
    <3>. QED BY <2>1, <3>1, <3>3
  <2>. QED BY <2>1, <2>2
<1>5. f = F(f)
  BY <1>4
<1>6. C = CHOOSE g : g = F(g)
  BY DEF CapacitiesBelow
<1>7. C = F(C)
  <2> HIDE DEF F, C
  <2>. QED BY <1>5, <1>6
<1> HIDE DEF C
<1>8. \A n \in Nat : C[n] = IF n = 0 THEN cap ELSE HigherCapacity(C[n - 1], w)
  BY <1>7
<1>9. ASSUME NEW n \in Nat PROVE C[n + 1] = HigherCapacity(C[n], w)
  <2>1. n + 1 \in Nat /\ n + 1 # 0 /\ (n + 1) - 1 = n
    OBVIOUS
  <2>. QED BY <1>8, <2>1
<1> DEFINE G == {n \in Nat : C[n] \in Caps}
<1>10. G = Nat
  <2>1. G \in SUBSET Nat /\ 0 \in G
    BY <1>8
  <2>2. ASSUME NEW n \in G PROVE n + 1 \in G
    <3>1. n \in Nat /\ C[n] \in Nat \ {0}
      BY <2>2
    <3>2. C[n + 1] = HigherCapacity(C[n], w)
      BY <1>9, <3>1
    <3>3. C[n + 1] \in Nat \ {0}
      BY <3>1, <3>2, MapIsSmaller
    <3>. QED BY <3>1, <3>3
  <2> HIDE DEF G
  <2>. QED BY <2>1, <2>2, SetInduction
<1>11. C \in [Nat -> Caps]
  <2>1. \A n \in Nat : C[n] \in Caps
    BY <1>10
  <2>2. C = [n \in Nat |-> C[n]]
    BY <1>7
  <2> HIDE DEF Caps
  <2>. QED BY <2>1, <2>2
<1>. QED BY <1>8, <1>9, <1>11 DEF C

\* No tree of the chain is higher than the first.
LEMMA HeightsDescend ==
  ASSUME NEW cap \in Nat \ {0}, NEW w \in Nat \ {0}, NEW k \in Nat
  PROVE  /\ ComputeTreeHeight[CapacitiesBelow(cap, w)[k]] \in Nat \ {0}
         /\ ComputeTreeHeight[CapacitiesBelow(cap, w)[k]] =< ComputeTreeHeight[cap]
<1> DEFINE C == CapacitiesBelow(cap, w)
           H(n) == ComputeTreeHeight[C[n]]
           G == {n \in Nat : H(n) =< H(0)}
<1>1. /\ C \in [Nat -> Nat \ {0}] /\ C[0] = cap
      /\ \A n \in Nat : C[n + 1] = HigherCapacity(C[n], w)
  BY CapacitiesDescend
<1> HIDE DEF C
<1>2. \A n \in Nat : H(n) \in Nat \ {0}
  <2> SUFFICES ASSUME NEW n \in Nat PROVE H(n) \in Nat \ {0}
    OBVIOUS
  <2>1. C[n] \in Nat \ {0}
    BY <1>1
  <2>2. ComputeTreeHeight[C[n]] \in Nat /\ ComputeTreeHeight[C[n]] > 0
    BY <2>1, HeightsGrow
  <2>. QED BY <2>2
<1>3. 0 \in G /\ G \in SUBSET Nat
  BY <1>2
<1>4. ASSUME NEW n \in G PROVE n + 1 \in G
  <2>1. n \in Nat /\ n + 1 \in Nat /\ H(n) =< H(0)
    BY <1>4
  <2>2. /\ C[n] \in Nat \ {0} /\ C[n + 1] \in Nat \ {0}
        /\ C[n + 1] = HigherCapacity(C[n], w)
    BY <1>1, <2>1
  <2>3. C[n + 1] =< C[n]
    BY <2>2, MapIsSmaller
  <2>4. H(n + 1) =< H(n)
    BY <2>2, <2>3, HeightsGrow
  <2>. QED BY <1>2, <2>1, <2>4
<1> HIDE DEF G
<1>5. G = Nat
  BY <1>3, <1>4, SetInduction
<1>6. H(k) =< H(0) /\ H(k) \in Nat \ {0}
  BY <1>2, <1>5 DEF G
<1>. QED BY <1>1, <1>6 DEF C

\* Every ORAM of the chain but the last has one below it: the bound on its
\* length, the first capacity, is not met before a map that fits.
LEMMA DepthsDescend ==
  ASSUME NEW cap \in Nat \ {0}, NEW w \in Nat, w > 1, NEW max \in Nat \ {0}
  PROVE  LET C == CapacitiesBelow(cap, w)
             D == DepthsBelow(cap, w, max)
         IN /\ D \subseteq Nat /\ 0 \in D /\ IsFiniteSet(D)
            /\ \A k \in D : ~ (C[k] =< max) => k + 1 \in D
            /\ \A k \in D : \A j \in 0 .. k - 1 : j \in D /\ ~ (C[j] =< max)
<1> DEFINE C == CapacitiesBelow(cap, w)
           D == DepthsBelow(cap, w, max)
           Deep(n) == \A e \in 0 .. n - 1 : C[e] > max
           G == {n \in Nat : Deep(n) => C[n] + n =< cap}
<1>1. /\ C \in [Nat -> Nat \ {0}] /\ C[0] = cap
      /\ \A n \in Nat : C[n + 1] = HigherCapacity(C[n], w)
  BY CapacitiesDescend
<1>2. D = {k \in 0 .. cap : Deep(k)}
  BY DEF DepthsBelow
<1> HIDE DEF C, D
<1>3. 0 \in G /\ G \in SUBSET Nat
  BY <1>1
<1>4. ASSUME NEW n \in G PROVE n + 1 \in G
  <2>1. n \in Nat /\ (Deep(n) => C[n] + n =< cap)
    BY <1>4
  <2>2. ASSUME Deep(n + 1) PROVE C[n + 1] + (n + 1) =< cap
    <3>1. Deep(n) /\ C[n] > max
      BY <2>1, <2>2
    <3>2. C[n] \in Nat /\ C[n] > 1
      BY <1>1, <2>1, <3>1
    <3>3. C[n + 1] < C[n] /\ C[n + 1] \in Nat
      BY <1>1, <2>1, <3>2, MapShrinks
    <3>. QED BY <2>1, <3>1, <3>2, <3>3
  <2>3. n + 1 \in Nat
    BY <2>1
  <2> HIDE DEF Deep
  <2>. QED BY <2>2, <2>3
<1>5. G = Nat
  <2> HIDE DEF G
  <2>. QED BY <1>3, <1>4, SetInduction
<1>6. ASSUME NEW k \in D, ~ (C[k] =< max) PROVE k + 1 \in D
  <2>1. k \in Nat /\ Deep(k) /\ C[k] \in Nat /\ C[k] > max
    BY <1>1, <1>2, <1>6
  <2>2. k + 1 =< cap
    BY <1>5, <2>1
  <2>3. Deep(k + 1)
    BY <2>1
  <2> HIDE DEF Deep
  <2>. QED BY <1>2, <2>1, <2>2, <2>3
<1>7. ASSUME NEW k \in D, NEW j \in 0 .. k - 1 PROVE j \in D /\ ~ (C[j] =< max)
  BY <1>1, <1>2, <1>7
<1>8. D \subseteq Nat /\ 0 \in D
  BY <1>2
<1>9. IsFiniteSet(D)
  <2>1. D \subseteq 0 .. cap
    BY <1>2
  <2>2. IsFiniteSet(0 .. cap)
    BY FS_Interval
  <2>. QED BY <2>1, <2>2, FS_Subset
<1>. QED BY <1>6, <1>7, <1>8, <1>9 DEF C, D

\* Each ORAM is asked for blocks it has.
LEMMA IndsDescend ==
  ASSUME NEW cap \in Nat \ {0}, NEW w \in Nat \ {0},
         NEW inds \in SUBSET (0 .. cap - 1), inds # {}
  PROVE  /\ IndsBelow(inds, w)[0] = inds
         /\ \A k \in Nat : IndsBelow(inds, w)[k + 1] = MapInds(IndsBelow(inds, w)[k], w)
         /\ \A k \in Nat : /\ IndsBelow(inds, w)[k] # {}
                           /\ IndsBelow(inds, w)[k]
                                \subseteq 0 .. CapacitiesBelow(cap, w)[k] - 1
<1> DEFINE C == CapacitiesBelow(cap, w)
           I == IndsBelow(inds, w)
           Down(T) == MapInds(T, w)
           F(f) == [n \in Nat |-> IF n = 0 THEN inds ELSE Down(f[n - 1])]
           pred == [n \in Nat \ {0} |-> n - 1]
           step == [x \in (Nat \ {0}) \X (SUBSET Nat) |-> Down(x[2])]
<1>1. /\ pred \in [Nat \ {0} -> Nat] /\ \A n \in Nat \ {0} : pred[n] < n
      /\ inds \in SUBSET Nat
  OBVIOUS
<1>2. ASSUME NEW T \in SUBSET Nat PROVE Down(T) \in SUBSET Nat
  BY DEF MapInd, MapInds
<1>3. step \in [(Nat \ {0}) \X (SUBSET Nat) -> SUBSET Nat]
  <2> HIDE DEF Down
  <2>. QED BY <1>2
<1>4. PICK f : IsRecursion(f, SUBSET Nat, inds, pred, step)
  <2> HIDE DEF pred, step
  <2>. QED BY <1>1, <1>3, RecursionExists
<1>5. /\ f \in [Nat -> SUBSET Nat] /\ f[0] = inds
      /\ \A n \in Nat \ {0} : f[n] = Down(f[n - 1])
  <2>1. /\ f \in [Nat -> SUBSET Nat] /\ f[0] = inds
        /\ \A n \in Nat \ {0} : f[n] = step[<<n, f[pred[n]]>>]
    <3> HIDE DEF step, pred
    <3>. QED BY <1>4 DEF IsRecursion
  <2>2. ASSUME NEW n \in Nat \ {0} PROVE f[n] = Down(f[n - 1])
    <3>1. n - 1 \in Nat /\ pred[n] = n - 1
      OBVIOUS
    <3>2. f[n - 1] \in SUBSET Nat
      BY <2>1, <3>1
    <3> HIDE DEF Down
    <3>3. step[<<n, f[n - 1]>>] = Down(f[n - 1])
      BY <3>2
    <3>. QED BY <2>1, <3>1, <3>3
  <2>. QED BY <2>1, <2>2
<1>6. I = CHOOSE h : h = F(h)
  BY DEF IndsBelow
<1> HIDE DEF Down
<1>7. f = F(f)
  <2>1. f = [n \in Nat |-> f[n]]
    BY <1>5
  <2>2. ASSUME NEW n \in Nat PROVE f[n] = IF n = 0 THEN inds ELSE Down(f[n - 1])
    BY <1>5
  <2>. QED BY <2>1, <2>2
<1>8. I = F(I)
  <2> HIDE DEF F, I
  <2>. QED BY <1>6, <1>7
<1> HIDE DEF I
<1>9. \A n \in Nat : I[n] = IF n = 0 THEN inds ELSE Down(I[n - 1])
  BY <1>8
<1>10. I[0] = inds
  BY <1>9
<1>11. ASSUME NEW k \in Nat PROVE I[k + 1] = Down(I[k])
  <2>1. k + 1 \in Nat /\ k + 1 # 0 /\ (k + 1) - 1 = k
    OBVIOUS
  <2>. QED BY <1>9, <2>1
<1>12. /\ C \in [Nat -> Nat \ {0}] /\ C[0] = cap
       /\ \A n \in Nat : C[n + 1] = HigherCapacity(C[n], w)
  BY CapacitiesDescend
<1> HIDE DEF C
<1> DEFINE Fits(n) == I[n] # {} /\ I[n] \subseteq 0 .. C[n] - 1
           G == {n \in Nat : Fits(n)}
<1>13. 0 \in G /\ G \in SUBSET Nat
  BY <1>10, <1>12
<1>14. ASSUME NEW n \in G PROVE n + 1 \in G
  <2>1. n \in Nat /\ n + 1 \in Nat /\ Fits(n)
    BY <1>14
  <2>2. I[n + 1] = Down(I[n])
    BY <1>11, <2>1
  <2>3. C[n] \in Nat \ {0} /\ C[n + 1] = HigherCapacity(C[n], w)
    BY <1>12, <2>1
  <2>4. \A i \in 0 .. C[n] - 1 : MapInd(i, w) \in 0 .. C[n + 1] - 1
    BY <2>3, MapIsSmaller
  <2>5. Fits(n + 1)
    BY <2>1, <2>2, <2>4 DEF Down, MapInds
  <2>. QED BY <2>1, <2>5
<1>15. G = Nat
  <2> HIDE DEF G
  <2>. QED BY <1>13, <1>14, SetInduction
<1>16. \A k \in Nat : Fits(k)
  BY <1>15
<1>. QED BY <1>10, <1>11, <1>16 DEF I, C, Down

-----------------------------------------------------------------------------
(* Contents and requests.                                                  *)

\* The requests an access takes are requests; the exchange of bytes leaves
\* contents in the block and in the buffer.
LEMMA DataTyping ==
  /\ ReadRequests \cup WriteRequests \subseteq Request
  /\ ZeroBlock \in Contents
  /\ \A r \in Request, c \in Contents :
       Stored(r, c) \in Contents /\ Loaded(r, c) \in Contents
<1>1. ZeroBlock \in Contents
  BY DataAssumption DEF ZeroBlock, Contents
<1>2. ReadRequests \subseteq Request
  BY <1>1 DEF ReadRequests, Request
<1>3. WriteRanges \subseteq SUBSET Words
  BY DataAssumption DEF WriteRanges, Words
<1>4. WriteRequests \subseteq Request
  BY <1>3 DEF WriteRequests, Request
<1>5. ASSUME NEW r \in Request, NEW c \in Contents
      PROVE  Stored(r, c) \in Contents /\ Loaded(r, c) \in Contents
  BY <1>5 DEF Request, Contents, Stored, Loaded
<1>. QED
  BY <1>1, <1>2, <1>4, <1>5

-----------------------------------------------------------------------------
(* The scan of the slots.                                                  *)

\* The slots a scan of nodes 0 .. a - 1 has visited after k rounds.
Visited(k) == {SlotAt(j) : j \in 1 .. k}

\* The scan meets every slot of the nodes, and none twice.
LEMMA ScanOrder ==
  ASSUME NEW a \in Nat
  PROVE  /\ a * BlocksPerNode \in Nat
         /\ \A k \in 1 .. a * BlocksPerNode : SlotAt(k) \in (0 .. a - 1) \X Slots
         /\ Visited(0) = {}
         /\ Visited(a * BlocksPerNode) = (0 .. a - 1) \X Slots
         /\ \A k \in 1 .. a * BlocksPerNode :
              /\ Visited(k) = Visited(k - 1) \cup {SlotAt(k)}
              /\ SlotAt(k) \notin Visited(k - 1)
<1> DEFINE B == BlocksPerNode
           n == a * BlocksPerNode
<1>1. B \in Nat \ {0} /\ n \in Nat
  BY NodeAssumption
<1>2. ASSUME NEW k \in 1 .. n
      PROVE  /\ SlotAt(k) \in (0 .. a - 1) \X Slots
             /\ k = B * SlotAt(k)[1] + SlotAt(k)[2] + 1
  <2>1. k - 1 \in Nat
    BY <1>1
  <2> DEFINE q == (k - 1) \div B
             r == (k - 1) % B
  <2>2. q \in Nat /\ r \in 0 .. B - 1 /\ k - 1 = B * q + r
    BY <1>1, <2>1, Division
  <2>3. B * q < a * B
    BY <1>1, <2>2
  <2>4. q < a
    BY <1>1, <2>2, <2>3
  <2>5. SlotAt(k) = <<q, r>>
    BY DEF SlotAt
  <2> HIDE DEF q, r
  <2>. QED BY <2>2, <2>4, <2>5, <1>1 DEF Slots
<1>3. ASSUME NEW x \in (0 .. a - 1) \X Slots
      PROVE  \E k \in 1 .. n : SlotAt(k) = x
  <2> DEFINE q == x[1]
             r == x[2]
             k == B * q + r + 1
  <2>1. q \in 0 .. a - 1 /\ r \in 0 .. B - 1 /\ x = <<q, r>>
    BY DEF Slots
  <2> HIDE DEF q, r
  <2>2. B * (q + 1) =< a * B
    BY <1>1, <2>1
  <2>3. B * (q + 1) = B * q + B /\ B * q \in Nat
    BY <1>1, <2>1
  <2>4. k \in 1 .. n
    BY <1>1, <2>1, <2>2, <2>3
  <2>5. k - 1 = B * q + r
    BY <1>1, <2>1, <2>3
  <2>6. (B * q + r) \div B = q /\ (B * q + r) % B = r
    BY <1>1, <2>1
  <2>7. SlotAt(k) = x
    BY <2>1, <2>5, <2>6 DEF SlotAt
  <2> HIDE DEF k
  <2>. QED BY <2>4, <2>7
<1>4. ASSUME NEW k \in 1 .. n, NEW j \in 1 .. n, SlotAt(k) = SlotAt(j)
      PROVE  k = j
  <2>1. k = B * SlotAt(k)[1] + SlotAt(k)[2] + 1 /\ j = B * SlotAt(j)[1] + SlotAt(j)[2] + 1
    BY <1>2
  <2>. QED BY <2>1, <1>4, Zenon
<1>5. Visited(0) = {}
  BY DEF Visited
<1>6. Visited(n) = (0 .. a - 1) \X Slots
  <2> HIDE DEF n
  <2>. QED BY <1>2, <1>3 DEF Visited
<1>7. ASSUME NEW k \in 1 .. n
      PROVE  /\ Visited(k) = Visited(k - 1) \cup {SlotAt(k)}
             /\ SlotAt(k) \notin Visited(k - 1)
  <2>1. 1 .. k = (1 .. k - 1) \cup {k}
    BY <1>1
  <2>2. \A j \in 1 .. k - 1 : j \in 1 .. n /\ j # k
    BY <1>1
  <2>. QED BY <2>1, <2>2, <1>4 DEF Visited
<1> HIDE DEF n
<1>. QED BY <1>1, <1>2, <1>5, <1>6, <1>7 DEF n

-----------------------------------------------------------------------------
(* Least and greatest members.                                             *)

\* A nonempty set of naturals has a least member, and Min is it.
LEMMA MinOf ==
  ASSUME NEW T \in SUBSET Nat, T # {}
  PROVE  Min(T) \in T /\ \A y \in T : Min(T) =< y
<1>1. IsWellFoundedOn(OpToRel(<, Nat), Nat)
  BY NatLessThanWellFounded
<1>2. PICK x \in T : \A y \in T : ~ (<<y, x>> \in OpToRel(<, Nat))
  BY <1>1, WFMin
<1>3. \A y \in T : ~ (y < x)
  BY <1>2 DEF OpToRel
<1>4. \A y \in T : x =< y
  BY <1>3
<1>. QED BY <1>4 DEF Min

\* A nonempty set of slots has a greatest member, and Max is it.
LEMMA MaxOf ==
  ASSUME NEW n \in Nat, NEW T \in SUBSET (0 .. n), T # {}
  PROVE  Max(T) \in T /\ \A y \in T : Max(T) >= y
<1> DEFINE U == {m \in 0 .. n : n - m \in T}
<1>1. U \in SUBSET Nat /\ U # {}
  <2>1. PICK t \in T : TRUE
    OBVIOUS
  <2>2. n - t \in 0 .. n /\ n - (n - t) = t
    OBVIOUS
  <2>. QED BY <2>2
<1>2. Min(U) \in U /\ \A y \in U : Min(U) =< y
  BY <1>1, MinOf
<1> DEFINE x == n - Min(U)
<1>3. x \in T
  BY <1>2
<1>4. ASSUME NEW y \in T PROVE x >= y
  <2>1. n - y \in U
    <3>1. n - y \in 0 .. n /\ n - (n - y) = y
      OBVIOUS
    <3>. QED BY <3>1
  <2>2. Min(U) =< n - y
    BY <1>2, <2>1
  <2>. QED BY <2>2, <1>2
<1> HIDE DEF U
<1>. QED BY <1>3, <1>4 DEF Max

-----------------------------------------------------------------------------
(* Nodes.  A node is sound when num_blocks is the number of its presence   *)
(* bits.                                                                   *)

Node ==
  [num : Int, keys : [Slots -> Nat], paths : [Slots -> Nat],
   presence : [Slots -> {0, 1}], contents : [Slots -> Contents]]
SoundNode == {node \in Node : node.num = Filling(node)}

\* The slots of a node are as many as BlocksPerNode.
LEMMA SlotsCounted ==
  /\ IsFiniteSet(Slots)
  /\ Cardinality(Slots) = BlocksPerNode
BY NodeAssumption, FS_Interval DEF Slots

\* A node has at most as many blocks as slots, and has a free slot exactly
\* when it has fewer.
LEMMA FreeOrFull ==
  ASSUME NEW node \in Node
  PROVE  /\ IsFiniteSet(Taken(node)) /\ Filling(node) \in 0 .. BlocksPerNode
         /\ FreeSlots(node) # {} <=> Filling(node) < BlocksPerNode
<1>1. IsFiniteSet(Slots) /\ Cardinality(Slots) = BlocksPerNode
  BY SlotsCounted
<1>2. Taken(node) \subseteq Slots
  BY DEF Taken
<1>3. /\ IsFiniteSet(Taken(node))
      /\ Cardinality(Taken(node)) =< BlocksPerNode
      /\ Cardinality(Taken(node)) = BlocksPerNode => Taken(node) = Slots
  BY <1>1, <1>2, FS_Subset
<1>4. Cardinality(Taken(node)) \in Nat
  BY <1>3, FS_CardinalityType
<1>5. FreeSlots(node) = Slots \ Taken(node)
  BY DEF FreeSlots, Taken, Node
<1>6. Taken(node) = Slots => Cardinality(Taken(node)) = BlocksPerNode
  BY <1>1
<1>. QED BY <1>2, <1>3, <1>4, <1>5, <1>6, NodeAssumption DEF Filling

\* The empty node is sound.
LEMMA EmptyIsSound ==
  /\ EmptyNode \in SoundNode
  /\ Taken(EmptyNode) = {}
<1>1. ZeroBlock \in Contents
  BY DataAssumption DEF ZeroBlock, Contents
<1>2. EmptyNode \in Node
  BY <1>1 DEF EmptyNode, Node
<1>3. Taken(EmptyNode) = {}
  BY DEF Taken, EmptyNode
<1>4. Filling(EmptyNode) = 0
  BY <1>3, FS_EmptySet DEF Filling
<1>. QED BY <1>2, <1>3, <1>4 DEF SoundNode, EmptyNode

\* Filling a free slot: one block more, the other slots as they were.
LEMMA FilledSound ==
  ASSUME NEW node \in SoundNode, NEW i \in FreeSlots(node),
         NEW key \in Nat, NEW path \in Nat, NEW content \in Contents
  PROVE  LET new == Filled(node, i, key, path, content)
         IN /\ new \in SoundNode
            /\ new.num = node.num + 1
            /\ Taken(new) = Taken(node) \cup {i} /\ i \notin Taken(node)
            /\ new.keys[i] = key /\ new.paths[i] = path /\ new.contents[i] = content
            /\ \A j \in Slots \ {i} :
                 /\ new.keys[j] = node.keys[j] /\ new.paths[j] = node.paths[j]
                 /\ new.contents[j] = node.contents[j]
                 /\ new.presence[j] = node.presence[j]
<1> DEFINE new == Filled(node, i, key, path, content)
<1>1. node \in Node /\ node.num = Filling(node)
  BY DEF SoundNode
<1>2. i \in Slots /\ node.presence[i] = 0
  BY DEF FreeSlots
<1>3. new = [num |-> node.num + 1, keys |-> [node.keys EXCEPT ![i] = key],
             paths |-> [node.paths EXCEPT ![i] = path],
             presence |-> [node.presence EXCEPT ![i] = 1],
             contents |-> [node.contents EXCEPT ![i] = content]]
  BY <1>1 DEF Filled, Node
<1>4. new \in Node
  BY <1>1, <1>2, <1>3 DEF Node
<1>5. Taken(new) = Taken(node) \cup {i} /\ i \notin Taken(node)
  BY <1>1, <1>2, <1>3 DEF Taken, Node
<1>6. IsFiniteSet(Taken(node))
  BY <1>1, FreeOrFull
<1>7. Filling(new) = Filling(node) + 1
  BY <1>5, <1>6, FS_AddElement DEF Filling
<1>8. new \in SoundNode /\ new.num = node.num + 1
  BY <1>1, <1>3, <1>4, <1>7 DEF SoundNode
<1>9. /\ new.keys[i] = key /\ new.paths[i] = path /\ new.contents[i] = content
      /\ \A j \in Slots \ {i} :
           /\ new.keys[j] = node.keys[j] /\ new.paths[j] = node.paths[j]
           /\ new.contents[j] = node.contents[j]
           /\ new.presence[j] = node.presence[j]
  BY <1>1, <1>2, <1>3 DEF Node
<1> HIDE DEF new
<1>. QED BY <1>5, <1>8, <1>9 DEF new

\* A write to a sound node, under a key, takes the first free slot, and
\* without a key or without room nothing.
LEMMA WriteSound ==
  ASSUME NEW node \in SoundNode,
         NEW key \in Nat, NEW path \in Nat, NEW content \in Contents
  PROVE  LET new == NodeWrite(node, key, path, content)
         IN IF CanWrite(node, key)
            THEN \E i \in FreeSlots(node) : new = Filled(node, i, key, path, content)
            ELSE new = node
<1>1. node \in Node /\ node.num = Filling(node)
  BY DEF SoundNode
<1>2. CASE CanWrite(node, key)
  <2>1. FreeSlots(node) # {}
    BY <1>1, <1>2, FreeOrFull DEF CanWrite
  <2>2. FreeSlots(node) \in SUBSET Nat
    BY NodeAssumption DEF FreeSlots, Slots
  <2>3. Min(FreeSlots(node)) \in FreeSlots(node)
    BY <2>1, <2>2, MinOf
  <2>. QED BY <1>2, <2>1, <2>3 DEF NodeWrite
<1>3. CASE ~ CanWrite(node, key)
  BY <1>3 DEF NodeWrite
<1>. QED BY <1>2, <1>3

\* A transfer to a sound node with room takes the first free slot.
LEMMA TransferSound ==
  ASSUME NEW node \in SoundNode, node.num < BlocksPerNode,
         NEW key \in Nat, NEW path \in Nat, NEW content \in Contents
  PROVE  \E i \in FreeSlots(node) : NodeTransfer(node, key, path, content)
                                      = Filled(node, i, key, path, content)
<1>1. node \in Node /\ node.num = Filling(node)
  BY DEF SoundNode
<1>2. FreeSlots(node) # {}
  BY <1>1, FreeOrFull
<1>3. FreeSlots(node) \in SUBSET Nat
  BY NodeAssumption DEF FreeSlots, Slots
<1>4. Min(FreeSlots(node)) \in FreeSlots(node)
  BY <1>2, <1>3, MinOf
<1>. QED BY <1>2, <1>4 DEF NodeTransfer

\* A read takes the blocks with the key out of the node, and leaves the
\* other slots as they were.
LEMMA ReadSound ==
  ASSUME NEW node \in SoundNode, NEW key \in Nat
  PROVE  LET new == NodeRead(node, key)
         IN /\ new \in SoundNode
            /\ Taken(new) = Taken(node) \ Hits(node, key)
            /\ new.paths = node.paths /\ new.contents = node.contents
            /\ \A j \in Slots \ Hits(node, key) : new.keys[j] = node.keys[j]
<1> DEFINE new == NodeRead(node, key)
           hits == Hits(node, key)
<1>1. node \in Node /\ node.num = Filling(node)
  BY DEF SoundNode
<1>2. hits \subseteq Taken(node)
  BY DEF Hits, Taken
<1>3. /\ new.num = node.num - Cardinality(hits)
      /\ new.paths = node.paths /\ new.contents = node.contents
      /\ \A j \in Slots \ hits : new.keys[j] = node.keys[j]
      /\ \A j \in Slots : new.presence[j] = IF j \in hits THEN 0 ELSE node.presence[j]
  BY <1>1 DEF NodeRead
<1>4. IsFiniteSet(Taken(node)) /\ IsFiniteSet(hits)
  BY <1>1, <1>2, FreeOrFull, FS_Subset
<1>5. Cardinality(hits) \in Nat /\ Cardinality(Taken(node)) \in Nat
  BY <1>4, FS_CardinalityType
<1>6. new \in Node
  <2>1. \A j \in Slots : node.keys[j] \in Nat /\ node.keys[j] - (node.keys[j] % 2) \in Nat
    BY <1>1 DEF Node
  <2>. QED BY <1>1, <1>5, <2>1 DEF NodeRead, Node
<1>7. Taken(new) = Taken(node) \ hits
  BY <1>3 DEF Taken
<1>8. Cardinality(Taken(node) \ hits) = Cardinality(Taken(node)) - Cardinality(hits)
  <2>1. Taken(node) \cap hits = hits
    BY <1>2
  <2>2. Cardinality(Taken(node) \ hits)
          = Cardinality(Taken(node)) - Cardinality(Taken(node) \cap hits)
    BY <1>4, FS_Difference
  <2>. QED BY <2>1, <2>2
<1>9. new \in SoundNode
  BY <1>1, <1>3, <1>6, <1>7, <1>8 DEF SoundNode, Filling
<1> HIDE DEF new, hits
<1>. QED BY <1>3, <1>7, <1>9 DEF new, hits

\* The bit of a taken slot cleared, and the node's count with it.
LEMMA EmptiedSound ==
  ASSUME NEW node \in SoundNode, NEW i \in Taken(node)
  PROVE  LET new == [[node EXCEPT !.presence[i] = 0] EXCEPT !.num = @ - 1]
         IN /\ new \in SoundNode
            /\ Taken(new) = Taken(node) \ {i}
            /\ new.keys = node.keys /\ new.paths = node.paths
            /\ new.contents = node.contents
<1> DEFINE part == [node EXCEPT !.presence[i] = 0]
           new == [part EXCEPT !.num = @ - 1]
<1>1. node \in Node /\ node.num = Filling(node) /\ i \in Slots
  BY DEF SoundNode, Taken
<1>2. /\ part \in Node
      /\ part.num = node.num /\ part.keys = node.keys
      /\ part.paths = node.paths /\ part.contents = node.contents
      /\ part.presence = [node.presence EXCEPT ![i] = 0]
  BY <1>1 DEF Node
<1> HIDE DEF part
<1>3. /\ new \in Node
      /\ new.num = node.num - 1 /\ new.keys = node.keys
      /\ new.paths = node.paths /\ new.contents = node.contents
      /\ new.presence = [node.presence EXCEPT ![i] = 0]
  BY <1>1, <1>2 DEF Node
<1> HIDE DEF new
<1>4. Taken(new) = Taken(node) \ {i}
  BY <1>1, <1>3 DEF Taken, Node
<1>5. IsFiniteSet(Taken(node))
  BY <1>1, FreeOrFull
<1>6. Cardinality(Taken(node) \ {i}) = Cardinality(Taken(node)) - 1
  BY <1>5, FS_RemoveElement
<1>7. new \in SoundNode
  BY <1>1, <1>3, <1>4, <1>6 DEF SoundNode, Filling
<1>. QED BY <1>3, <1>4, <1>7 DEF new, part
=============================================================================
