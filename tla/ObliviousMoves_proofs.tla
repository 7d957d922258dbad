----------------------- MODULE ObliviousMoves_proofs -----------------------
(***************************************************************************)
(* What the assembly routines do and what they let be seen, for arrays of  *)
(* every length and words of every value.                                  *)
(***************************************************************************)
EXTENDS ObliviousMoves, TLAPS

Arrays == {"src", "dest"}

(***************************************************************************)
(* What the arrays hold after n iterations, from what they held, m, and    *)
(* the condition or index i.  oswap and omove make one.                    *)
(***************************************************************************)
SrcAfter(o, m, i, n) ==
  CASE o = "pickandswap" /\ n > i -> Stored(o, m["src"], i, Loaded(o, m["dest"], 0))
    [] o = "oswap" /\ n > 0 /\ i # 0 -> Stored(o, m["src"], 0, Loaded(o, m["dest"], 0))
    [] OTHER -> m["src"]

DestAfter(o, m, i, n) ==
  CASE o = "ocopy" -> [u \in Units |-> IF i # 0 /\ u < n THEN m["src"][u] ELSE m["dest"][u]]
    [] o \in Picks /\ n > i -> Stored(o, m["dest"], 0, Loaded(o, m["src"], i))
    [] o = "oswap" /\ n > 0 /\ i # 0 -> Stored(o, m["dest"], 0, Loaded(o, m["src"], 0))
    [] OTHER -> m["dest"]

\* Where iteration k loads from and stores to, and whether its moves are taken.
SrcAt(o, k) == IF o = "oswap" THEN 0 ELSE k
DestAt(o, k) == IF o = "ocopy" THEN k ELSE 0
Hit(o, i, k) == IF o \in Picks THEN k = i ELSE i # 0

FromSrc(o, m, i, k) == Loaded(o, SrcAfter(o, m, i, k), SrcAt(o, k))
FromDest(o, m, i, k) == Loaded(o, DestAfter(o, m, i, k), DestAt(o, k))
ToDest(o, m, i, k) == IF Hit(o, i, k) THEN FromSrc(o, m, i, k) ELSE FromDest(o, m, i, k)
ToSrc(o, m, i, k) == IF Hit(o, i, k) THEN FromDest(o, m, i, k) ELSE FromSrc(o, m, i, k)

\* The flags as the conditional moves find them, from which those follow.
FlagsSet(o, i, k, r) == r = IF o \in Picks THEN k - i ELSE i

(***************************************************************************)
(* What holds before each instruction of a call: k iterations are done.    *)
(***************************************************************************)
CopyStage(o, m0, i, p, k, r, g, m) ==
  /\ p \in 1 .. 9
  /\ p \in 1 .. 6 => k < Length
  /\ p = 9 => k = Length
  /\ m["src"] = SrcAfter(o, m0, i, k)
  /\ m["dest"] = DestAfter(o, m0, i, IF p = 6 THEN k + 1 ELSE k)
  /\ p \in 2 .. 4 => g["r12"] = FromSrc(o, m0, i, k)
  /\ p \in 3 .. 4 => g["r13"] = FromDest(o, m0, i, k)
  /\ p = 4 => FlagsSet(o, i, k, r)
  /\ p = 5 => g["r13"] = ToDest(o, m0, i, k)
  /\ p = 8 => r = k - Length

SwapStage(o, m0, i, p, k, r, g, m) ==
  /\ p \in IF o = "oswap" THEN 1 .. 9 ELSE 1 .. 12
  /\ o = "oswap" => k = 0
  /\ p \in 1 .. 9 => k < Length
  /\ p = 12 => k = Length
  /\ m["src"] = SrcAfter(o, m0, i, IF p \in 8 .. 9 THEN k + 1 ELSE k)
  /\ m["dest"] = DestAfter(o, m0, i, IF p = 9 THEN k + 1 ELSE k)
  /\ p \in 2 .. 6 => g["r12"] = FromSrc(o, m0, i, k)
  /\ p \in 3 .. 5 => g["r13"] = FromDest(o, m0, i, k)
  /\ p \in 4 .. 6 => FlagsSet(o, i, k, r)
  /\ p \in 5 .. 6 /\ Hit(o, i, k) => g["r14"] = FromDest(o, m0, i, k)
  /\ p \in 6 .. 8 => g["r13"] = ToDest(o, m0, i, k)
  /\ p = 7 => g["r12"] = ToSrc(o, m0, i, k)
  /\ p = 11 => r = k - Length

MoveStage(m0, i, p, r, g, m) ==
  /\ p \in 1 .. 5
  /\ p \in 1 .. 4 => m["dest"] = m0["dest"]
  /\ g["val_1"] = Loaded("omove", m0["src"], 0) /\ g["val_2"] = Loaded("omove", m0["src"], 1)
  /\ p \in 2 .. 3 => g["rdx"] = Loaded("omove", m0["src"], 1)
  /\ p = 3 => r = i
  /\ p = 4 => g["rdx"] = Loaded("omove", m0["src"], IF i = 0 THEN 0 ELSE 1)
  /\ p = 5 => m["dest"] = Stored("omove", m0["dest"], 0,
                                 Loaded("omove", m0["src"], IF i = 0 THEN 0 ELSE 1))

Stage(c) ==
  CASE op \in {"ocopy", "pick"} ->
         CopyStage(op, mem0[c], cond[c], ip[c], count[c], result[c], reg[c], mem[c])
    [] op \in {"oswap", "pickandswap"} ->
         SwapStage(op, mem0[c], cond[c], ip[c], count[c], result[c], reg[c], mem[c])
    [] op = "omove" -> MoveStage(mem0[c], cond[c], ip[c], result[c], reg[c], mem[c])

TypeOK ==
  /\ op \in Ops
  /\ \A c \in Calls :
       /\ cond[c] \in IF op \in Picks THEN 0 .. Length - 1 ELSE {0, 1}
       /\ mem0[c] \in [Arrays -> [Units -> Val]]
       /\ mem[c] = [a \in Arrays |-> mem[c][a]]
       /\ reg[c] = [r \in Regs |-> reg[c][r]]
       /\ count[c] \in 0 .. Length
       /\ result[c] \in Int
       /\ ip[c] \in Nat

\* The calls are at the same instruction of the same iteration.
InStep ==
  /\ ip[1] = ip[2]
  /\ count[1] = count[2]
  /\ SameTrace

IInv == TypeOK /\ InStep /\ \A c \in Calls : Stage(c)

-----------------------------------------------------------------------------
(* The data of an iteration.                                               *)

LEMMA Iteration ==
  ASSUME NEW o \in Ops, o # "omove", NEW m \in [Arrays -> [Units -> Val]],
         NEW i \in IF o \in Picks THEN 0 .. Length - 1 ELSE {0, 1},
         NEW k \in 0 .. Length - 1, o = "oswap" => k = 0
  PROVE  /\ Stored(o, DestAfter(o, m, i, k), DestAt(o, k), ToDest(o, m, i, k))
              = DestAfter(o, m, i, k + 1)
         /\ o \in {"oswap", "pickandswap"} =>
              Stored(o, SrcAfter(o, m, i, k), SrcAt(o, k), ToSrc(o, m, i, k))
                = SrcAfter(o, m, i, k + 1)
         /\ o \in {"ocopy", "pick"} => SrcAfter(o, m, i, k + 1) = SrcAfter(o, m, i, k)
<1>0. /\ o \in {"ocopy", "pick", "pickandswap", "oswap"} /\ i \in Nat /\ k \in Nat
      /\ k < Length /\ Length \in Nat /\ (o \in Picks => i < Length)
      /\ m["src"] \in [Units -> Val] /\ m["dest"] \in [Units -> Val]
  BY MovesAssumption DEF Ops, Picks, Arrays
<1>1. CASE o = "ocopy"
  <2>1. SrcAfter(o, m, i, k) = m["src"] /\ SrcAfter(o, m, i, k + 1) = m["src"]
    BY <1>1 DEF SrcAfter
  <2>0. ASSUME NEW n
        PROVE  DestAfter(o, m, i, n) =
                 [u \in Units |-> IF i # 0 /\ u < n THEN m["src"][u] ELSE m["dest"][u]]
    BY <1>1 DEF DestAfter, Picks
  <2>2. ASSUME NEW u \in Units
        PROVE  Stored(o, DestAfter(o, m, i, k), DestAt(o, k), ToDest(o, m, i, k))[u]
                 = DestAfter(o, m, i, k + 1)[u]
    <3>1. o \notin Picks /\ Lanes(o) = {0}
      BY <1>1 DEF Lanes, Picks
    <3>2. k \in Units /\ DestAt(o, k) = k /\ SrcAt(o, k) = k /\ (Hit(o, i, k) <=> i # 0)
      <4>1. k \in Units
        BY <1>0 DEF Units
      <4>2. DestAt(o, k) = k /\ SrcAt(o, k) = k
        BY <1>1 DEF DestAt, SrcAt
      <4>3. Hit(o, i, k) <=> i # 0
        BY <3>1 DEF Hit
      <4>. QED
        BY <4>1, <4>2, <4>3
    <3>3. ToDest(o, m, i, k)[0] = IF i # 0 THEN m["src"][k] ELSE m["dest"][k]
      <4>1. DestAfter(o, m, i, k)[k] = m["dest"][k]
        BY <1>0, <2>0, <3>2
      <4>2. k + 0 = k
        BY <1>0
      <4>3. /\ FromSrc(o, m, i, k)[0] = m["src"][k]
            /\ FromDest(o, m, i, k)[0] = m["dest"][k]
        BY <2>1, <3>1, <3>2, <4>1, <4>2 DEF FromSrc, FromDest, Loaded
      <4>4. CASE Hit(o, i, k)
        BY <3>2, <4>3, <4>4 DEF ToDest
      <4>5. CASE ~ Hit(o, i, k)
        BY <3>2, <4>3, <4>5 DEF ToDest
      <4>. QED
        BY <4>4, <4>5
    <3>4. Stored(o, DestAfter(o, m, i, k), DestAt(o, k), ToDest(o, m, i, k))[u]
            = IF u = k THEN ToDest(o, m, i, k)[0] ELSE DestAfter(o, m, i, k)[u]
      BY <1>0, <3>1, <3>2 DEF Stored, Units
    <3>. QED
      BY <1>0, <2>0, <3>3, <3>4 DEF Units
  <2>3. Stored(o, DestAfter(o, m, i, k), DestAt(o, k), ToDest(o, m, i, k))
          = DestAfter(o, m, i, k + 1)
    BY <2>0, <2>2 DEF Stored
  <2>. QED
    BY <1>1, <2>1, <2>3
<1>2. CASE o \in Picks \cup {"oswap"}
  <2> DEFINE s == m["src"]
             d == m["dest"]
             S == SrcAfter(o, m, i, k)
             D == DestAfter(o, m, i, k)
  <2>1. /\ Lanes(o) \subseteq {0, 1} /\ 0 \in Lanes(o) /\ Lanes(o) # {}
        /\ Lanes(o) \subseteq Units
        /\ \A l \in Lanes(o) : SrcAt(o, k) + l \in Units
        /\ \A l \in Lanes(o) : l \in Nat
    <3>1. CASE o \in Picks
      <4>1. SrcAt(o, k) = k /\ Lanes(o) = {0, 1}
        BY <3>1 DEF SrcAt, Lanes, Picks
      <4>2. 0 \in Units /\ 1 \in Units /\ k \in Units /\ k + 1 \in Units
        BY <1>0 DEF Units
      <4>. QED
        BY <1>0, <4>1, <4>2
    <3>2. CASE o = "oswap"
      <4>1. SrcAt(o, k) = 0 /\ Lanes(o) = {0}
        BY <3>2 DEF SrcAt, Lanes, Picks
      <4>2. 0 \in Units
        BY <1>0 DEF Units
      <4>. QED
        BY <4>1, <4>2
    <3>. QED
      BY <1>2, <3>1, <3>2
  <2>2. S \in [Units -> Val] /\ D \in [Units -> Val]
    <3>1. ASSUME NEW a \in [Units -> Val], NEW b \in [Units -> Val],
                 NEW p \in Nat, NEW q \in Nat, \A l \in Lanes(o) : q + l \in Units
          PROVE  Stored(o, a, p, Loaded(o, b, q)) \in [Units -> Val]
      BY <3>1 DEF Stored, Loaded
    <3>2. \A l \in Lanes(o) : 0 + l \in Units /\ (o \in Picks => i + l \in Units)
      BY <1>0, <2>1 DEF Units
    <3>. QED
      BY <1>0, <1>2, <3>1, <3>2 DEF SrcAfter, DestAfter, Picks
  <2>3. ASSUME NEW a \in [Units -> Val], NEW p \in Nat
        PROVE  Stored(o, a, p, Loaded(o, a, p)) = a
    <3>1. \A u \in Units : Stored(o, a, p, Loaded(o, a, p))[u] = a[u]
      BY <2>1 DEF Stored, Loaded, Units
    <3>. QED
      BY <3>1 DEF Stored
  <2>4. DestAt(o, k) = 0 /\ SrcAt(o, k) \in Nat
    BY <1>0, <1>2 DEF DestAt, SrcAt, Picks
  <2>5. CASE Hit(o, i, k)
    <3>1. S = s /\ D = d
      BY <1>0, <1>2, <2>5 DEF SrcAfter, DestAfter, Hit, Picks
    <3>2. /\ o \in Picks => k = i
          /\ ToDest(o, m, i, k) = Loaded(o, s, SrcAt(o, k))
          /\ ToSrc(o, m, i, k) = Loaded(o, d, 0)
      BY <2>4, <2>5, <3>1 DEF ToDest, ToSrc, FromSrc, FromDest, Hit
    <3>3. /\ DestAfter(o, m, i, k + 1) = Stored(o, d, 0, Loaded(o, s, SrcAt(o, k)))
          /\ SrcAfter(o, m, i, k + 1) =
               IF o = "pick" THEN s ELSE Stored(o, s, SrcAt(o, k), Loaded(o, d, 0))
      BY <1>0, <1>2, <2>5 DEF DestAfter, SrcAfter, SrcAt, Hit, Picks
    <3>. QED
      BY <1>2, <2>4, <3>1, <3>2, <3>3 DEF Picks
  <2>6. CASE ~ Hit(o, i, k)
    <3>1. /\ ToDest(o, m, i, k) = Loaded(o, D, 0)
          /\ ToSrc(o, m, i, k) = Loaded(o, S, SrcAt(o, k))
      BY <2>4, <2>6 DEF ToDest, ToSrc, FromSrc, FromDest
    <3>2. SrcAfter(o, m, i, k + 1) = S /\ DestAfter(o, m, i, k + 1) = D
      BY <1>0, <1>2, <2>6 DEF SrcAfter, DestAfter, Hit, Picks
    <3>. QED
      BY <2>2, <2>3, <2>4, <3>1, <3>2
  <2>. QED
    BY <2>5, <2>6
<1>. QED
  BY <1>0, <1>1, <1>2 DEF Picks

-----------------------------------------------------------------------------
(* What the instructions do.                                               *)

At(c, x) == IF x = "count" THEN count[c] ELSE 0

LEMMA LoadDoes ==
  ASSUME Step, NEW c \in Calls, NEW a, NEW x, NEW r, Instruction(c) = <<"load", a, x, r>>
  PROVE  /\ reg'[c] = [reg[c] EXCEPT ![r] = Loaded(op, mem[c][a], At(c, x))]
         /\ mem'[c] = mem[c] /\ count'[c] = count[c] /\ result'[c] = result[c]
         /\ ip'[c] = ip[c] + 1
         /\ touched'[c] = Append(touched[c], <<"load", a, At(c, x)>>)
<1>1. Instruction(c)[1] = "load" /\ Instruction(c)[2] = a /\ Instruction(c)[3] = x
      /\ Instruction(c)[4] = r
  OBVIOUS
<1>. QED
  BY <1>1 DEF Step, Does, RegAfter, MemAfter, CountAfter, ResultAfter, IpAfter, TouchedAfter,
              Touched, Address, Taken, At

LEMMA StoreDoes ==
  ASSUME Step, NEW c \in Calls, NEW a, NEW x, NEW r, Instruction(c) = <<"store", a, x, r>>
  PROVE  /\ mem'[c] = [mem[c] EXCEPT ![a] = Stored(op, mem[c][a], At(c, x), reg[c][r])]
         /\ reg'[c] = reg[c] /\ count'[c] = count[c] /\ result'[c] = result[c]
         /\ ip'[c] = ip[c] + 1
         /\ touched'[c] = Append(touched[c], <<"store", a, At(c, x)>>)
<1>1. Instruction(c)[1] = "store" /\ Instruction(c)[2] = a /\ Instruction(c)[3] = x
      /\ Instruction(c)[4] = r
  OBVIOUS
<1>. QED
  BY <1>1 DEF Step, Does, RegAfter, MemAfter, CountAfter, ResultAfter, IpAfter, TouchedAfter,
              Touched, Address, Taken, At

LEMMA MoveDoes ==
  ASSUME Step, NEW c \in Calls, NEW k \in {"mov", "cmove", "cmovnz"}, NEW r, NEW q,
         Instruction(c) = <<k, r, q>>
  PROVE  /\ reg'[c] = IF \/ k = "mov"
                         \/ k = "cmove" /\ result[c] = 0
                         \/ k = "cmovnz" /\ result[c] # 0
                      THEN [reg[c] EXCEPT ![q] = reg[c][r]]
                      ELSE reg[c]
         /\ mem'[c] = mem[c] /\ count'[c] = count[c] /\ result'[c] = result[c]
         /\ ip'[c] = ip[c] + 1 /\ touched'[c] = touched[c]
<1>1. Instruction(c)[1] = k /\ Instruction(c)[2] = r /\ Instruction(c)[3] = q
  OBVIOUS
<1>2. Taken(c) <=> \/ k = "mov"
                   \/ k = "cmove" /\ result[c] = 0
                   \/ k = "cmovnz" /\ result[c] # 0
  BY <1>1 DEF Taken, Does
<1>3. RegAfter(c) = IF Taken(c) THEN [reg[c] EXCEPT ![q] = reg[c][r]] ELSE reg[c]
  BY <1>1 DEF RegAfter, Does
<1>4. /\ MemAfter(c) = mem[c] /\ CountAfter(c) = count[c] /\ ResultAfter(c) = result[c]
      /\ IpAfter(c) = ip[c] + 1 /\ TouchedAfter(c) = touched[c]
  BY <1>1 DEF Does, MemAfter, CountAfter, ResultAfter, IpAfter, TouchedAfter
<1>. QED
  BY <1>2, <1>3, <1>4 DEF Step

\* test, cmp, inc and jl: their flags, and where they lead.
LEMMA FlagsDo ==
  ASSUME Step, NEW c \in Calls,
         \/ Instruction(c) \in {<<"test">>, <<"inc">>, <<"jl">>, <<"ret">>}
         \/ Instruction(c) \in {<<"cmp", "ind">>, <<"cmp", "len">>}
  PROVE  /\ reg'[c] = reg[c] /\ mem'[c] = mem[c] /\ touched'[c] = touched[c]
         /\ count'[c] = IF Instruction(c) = <<"inc">> THEN count[c] + 1 ELSE count[c]
         /\ Instruction(c) = <<"test">> => result'[c] = cond[c]
         /\ Instruction(c) = <<"inc">> => result'[c] = count[c] + 1
         /\ Instruction(c) = <<"cmp", "ind">> => result'[c] = count[c] - cond[c]
         /\ Instruction(c) = <<"cmp", "len">> => result'[c] = count[c] - Length
         /\ Instruction(c) \in {<<"jl">>, <<"ret">>} => result'[c] = result[c]
         /\ ip'[c] = CASE Instruction(c) = <<"jl">> -> IF result[c] < 0 THEN 1 ELSE ip[c] + 1
                       [] Instruction(c) = <<"ret">> -> ip[c]
                       [] OTHER -> ip[c] + 1
<1>0. /\ reg'[c] = RegAfter(c) /\ mem'[c] = MemAfter(c) /\ touched'[c] = TouchedAfter(c)
      /\ count'[c] = CountAfter(c) /\ result'[c] = ResultAfter(c) /\ ip'[c] = IpAfter(c)
  BY DEF Step
<1>1. CASE Instruction(c) = <<"test">>
  BY <1>0, <1>1 DEF Does, RegAfter, MemAfter, CountAfter, ResultAfter, IpAfter, TouchedAfter,
                    Taken
<1>2. CASE Instruction(c) = <<"inc">>
  BY <1>0, <1>2 DEF Does, RegAfter, MemAfter, CountAfter, ResultAfter, IpAfter, TouchedAfter,
                    Taken
<1>3. CASE Instruction(c) = <<"jl">>
  BY <1>0, <1>3 DEF Does, RegAfter, MemAfter, CountAfter, ResultAfter, IpAfter, TouchedAfter,
                    Taken
<1>4. CASE Instruction(c) = <<"ret">>
  BY <1>0, <1>4 DEF Does, RegAfter, MemAfter, CountAfter, ResultAfter, IpAfter, TouchedAfter,
                    Taken
<1>5. CASE Instruction(c) = <<"cmp", "ind">>
  BY <1>0, <1>5 DEF Does, RegAfter, MemAfter, CountAfter, ResultAfter, IpAfter, TouchedAfter,
                    Taken, Operand
<1>6. CASE Instruction(c) = <<"cmp", "len">>
  BY <1>0, <1>6 DEF Does, RegAfter, MemAfter, CountAfter, ResultAfter, IpAfter, TouchedAfter,
                    Taken, Operand
<1>. QED
  BY <1>1, <1>2, <1>3, <1>4, <1>5, <1>6

-----------------------------------------------------------------------------
(* The routines, instruction by instruction.                               *)

LEMMA CopyCode ==
  ASSUME NEW c, op \in {"ocopy", "pick"}
  PROVE  /\ ip[c] = 1 => Instruction(c) = <<"load", "src", "count", "r12">>
         /\ ip[c] = 2 => Instruction(c) =
              <<"load", "dest", IF op = "ocopy" THEN "count" ELSE "first", "r13">>
         /\ ip[c] = 3 => Instruction(c) = IF op = "ocopy" THEN <<"test">> ELSE <<"cmp", "ind">>
         /\ ip[c] = 4 => Instruction(c) =
              <<IF op = "ocopy" THEN "cmovnz" ELSE "cmove", "r12", "r13">>
         /\ ip[c] = 5 => Instruction(c) =
              <<"store", "dest", IF op = "ocopy" THEN "count" ELSE "first", "r13">>
         /\ ip[c] = 6 => Instruction(c) = <<"inc">>
         /\ ip[c] = 7 => Instruction(c) = <<"cmp", "len">>
         /\ ip[c] = 8 => Instruction(c) = <<"jl">>
         /\ ip[c] = 9 => Instruction(c) = <<"ret">>
<1>1. CASE op = "ocopy"
  <2>1. Instruction(c) = Ocopy[ip[c]]
    BY <1>1 DEF Instruction, Program
  <2>. QED
    BY <1>1, <2>1 DEF Ocopy, TakeIfSet, CompareLength
<1>2. CASE op = "pick"
  <2>1. Instruction(c) = Pick[ip[c]]
    BY <1>2 DEF Instruction, Program
  <2>. QED
    BY <1>2, <2>1 DEF Pick, CompareIndex, CompareLength
<1>. QED
  BY <1>1, <1>2

LEMMA SwapCode ==
  ASSUME NEW c, op \in {"oswap", "pickandswap"}
  PROVE  LET m == IF op = "oswap" THEN "cmovnz" ELSE "cmove"
             x == IF op = "oswap" THEN "first" ELSE "count"
         IN  /\ ip[c] = 1 => Instruction(c) = <<"load", "src", x, "r12">>
             /\ ip[c] = 2 => Instruction(c) = <<"load", "dest", "first", "r13">>
             /\ ip[c] = 3 => Instruction(c) =
                               IF op = "oswap" THEN <<"test">> ELSE <<"cmp", "ind">>
             /\ ip[c] = 4 => Instruction(c) = <<m, "r13", "r14">>
             /\ ip[c] = 5 => Instruction(c) = <<m, "r12", "r13">>
             /\ ip[c] = 6 => Instruction(c) = <<m, "r14", "r12">>
             /\ ip[c] = 7 => Instruction(c) = <<"store", "src", x, "r12">>
             /\ ip[c] = 8 => Instruction(c) = <<"store", "dest", "first", "r13">>
             /\ ip[c] = 9 => Instruction(c) = IF op = "oswap" THEN <<"ret">> ELSE <<"inc">>
             /\ ip[c] = 10 /\ op = "pickandswap" => Instruction(c) = <<"cmp", "len">>
             /\ ip[c] = 11 /\ op = "pickandswap" => Instruction(c) = <<"jl">>
             /\ ip[c] = 12 /\ op = "pickandswap" => Instruction(c) = <<"ret">>
<1>1. CASE op = "oswap"
  <2>1. Instruction(c) = Oswap[ip[c]]
    BY <1>1 DEF Instruction, Program
  <2>. QED
    BY <1>1, <2>1 DEF Oswap, TakeIfSet
<1>2. CASE op = "pickandswap"
  <2>1. Instruction(c) = PickAndSwap[ip[c]]
    BY <1>2 DEF Instruction, Program
  <2>. QED
    BY <1>2, <2>1 DEF PickAndSwap, CompareIndex, CompareLength, SaveIfEqual
<1>. QED
  BY <1>1, <1>2

LEMMA MoveCode ==
  ASSUME NEW c, op = "omove"
  PROVE  /\ ip[c] = 1 => Instruction(c) = <<"mov", "val_2", "rdx">>
         /\ ip[c] = 2 => Instruction(c) = <<"test">>
         /\ ip[c] = 3 => Instruction(c) = <<"cmove", "val_1", "rdx">>
         /\ ip[c] = 4 => Instruction(c) = <<"store", "dest", "first", "rdx">>
         /\ ip[c] = 5 => Instruction(c) = <<"ret">>
<1>1. Instruction(c) = Omove[ip[c]]
  BY DEF Instruction, Program
<1>. QED
  BY <1>1 DEF Omove

-----------------------------------------------------------------------------
(* Every instruction takes its routine from stage to stage.                *)

LEMMA Fixed ==
  ASSUME TypeOK, Step, NEW c \in Calls
  PROVE  /\ op' = op /\ cond' = cond /\ mem0' = mem0 /\ op \in Ops
         /\ cond[c] \in IF op \in Picks THEN 0 .. Length - 1 ELSE {0, 1}
         /\ mem0[c] \in [Arrays -> [Units -> Val]]
         /\ mem[c] = [a \in Arrays |-> mem[c][a]] /\ reg[c] = [r \in Regs |-> reg[c][r]]
         /\ count[c] \in Nat /\ count[c] =< Length /\ Length \in Nat \ {0}
         /\ result[c] \in Int /\ cond[c] \in Nat
<1>1. op' = op /\ cond' = cond /\ mem0' = mem0
  BY DEF Step
<1>. QED
  BY <1>1, MovesAssumption DEF TypeOK

LEMMA CopyStep ==
  ASSUME TypeOK, Step, NEW c \in Calls, op \in {"ocopy", "pick"}, Stage(c)
  PROVE  Stage(c)'
<1> DEFINE k == count[c]
           i == cond[c]
           m0 == mem0[c]
           x == IF op = "ocopy" THEN "count" ELSE "first"
<1>0. /\ op' = op /\ cond'[c] = i /\ mem0'[c] = m0
      /\ mem[c] = [a \in Arrays |-> mem[c][a]] /\ reg[c] = [r \in Regs |-> reg[c][r]]
      /\ k \in Nat /\ k =< Length /\ Length \in Nat \ {0} /\ i \in Nat
  BY Fixed
<1>1. CopyStage(op, m0, i, ip[c], k, result[c], reg[c], mem[c])
  BY DEF Stage
<1>2. SUFFICES CopyStage(op, m0, i, ip'[c], count'[c], result'[c], reg'[c], mem'[c])
  BY <1>0 DEF Stage
<1>3. /\ SrcAt(op, k) = k /\ DestAt(op, k) = At(c, x) /\ At(c, "count") = k
  BY DEF SrcAt, DestAt, At
<1>4. ip[c] \in 1 .. 9
  BY <1>1 DEF CopyStage
<1>5. CASE ip[c] = 1
  <2>1. /\ reg'[c] = [reg[c] EXCEPT !["r12"] = FromSrc(op, m0, i, k)]
        /\ mem'[c] = mem[c] /\ count'[c] = k /\ result'[c] = result[c] /\ ip'[c] = 2
    BY <1>1, <1>3, <1>5, CopyCode, LoadDoes DEF FromSrc, CopyStage
  <2>. QED
    BY <1>0, <1>1, <1>5, <2>1 DEF CopyStage, Regs
<1>6. CASE ip[c] = 2
  <2>1. /\ reg'[c] = [reg[c] EXCEPT !["r13"] = FromDest(op, m0, i, k)]
        /\ mem'[c] = mem[c] /\ count'[c] = k /\ result'[c] = result[c] /\ ip'[c] = 3
    BY <1>1, <1>3, <1>6, CopyCode, LoadDoes DEF FromDest, CopyStage
  <2>. QED
    BY <1>0, <1>1, <1>6, <2>1 DEF CopyStage, Regs
<1>7. CASE ip[c] = 3
  <2>1. Instruction(c) = IF op = "ocopy" THEN <<"test">> ELSE <<"cmp", "ind">>
    BY <1>7, CopyCode
  <2>2. /\ reg'[c] = reg[c] /\ mem'[c] = mem[c] /\ count'[c] = k /\ ip'[c] = 4
        /\ result'[c] = IF op = "ocopy" THEN i ELSE k - i
    BY <1>7, <2>1, FlagsDo
  <2>3. FlagsSet(op, i, k, result'[c])
    BY <2>2 DEF FlagsSet, Picks
  <2>. QED
    BY <1>0, <1>1, <1>7, <2>2, <2>3 DEF CopyStage
<1>8. CASE ip[c] = 4
  <2>1. Hit(op, i, k) <=> IF op = "ocopy" THEN result[c] # 0 ELSE result[c] = 0
    BY <1>0, <1>1, <1>8 DEF CopyStage, FlagsSet, Hit, Picks
  <2>2. /\ reg'[c] = IF Hit(op, i, k) THEN [reg[c] EXCEPT !["r13"] = reg[c]["r12"]] ELSE reg[c]
        /\ mem'[c] = mem[c] /\ count'[c] = k /\ result'[c] = result[c] /\ ip'[c] = 5
    BY <1>8, <2>1, CopyCode, MoveDoes
  <2>3. reg'[c]["r13"] = ToDest(op, m0, i, k)
    BY <1>0, <1>1, <1>8, <2>2 DEF CopyStage, ToDest, Regs
  <2>. QED
    BY <1>0, <1>1, <1>8, <2>2, <2>3 DEF CopyStage
<1>9. CASE ip[c] = 5
  <2>1. /\ mem'[c] = [mem[c] EXCEPT !["dest"] =
                        Stored(op, DestAfter(op, m0, i, k), DestAt(op, k), ToDest(op, m0, i, k))]
        /\ reg'[c] = reg[c] /\ count'[c] = k /\ result'[c] = result[c] /\ ip'[c] = 6
    BY <1>1, <1>3, <1>9, CopyCode, StoreDoes DEF CopyStage
  <2>2. Stored(op, DestAfter(op, m0, i, k), DestAt(op, k), ToDest(op, m0, i, k))
          = DestAfter(op, m0, i, k + 1)
    <3>1. k < Length
      BY <1>1, <1>9 DEF CopyStage
    <3>2. k \in 0 .. Length - 1
      BY <1>0, <3>1
    <3>3. op \in Ops /\ op # "omove" /\ op # "oswap"
      BY Fixed
    <3>4. /\ m0 \in [Arrays -> [Units -> Val]]
          /\ i \in IF op \in Picks THEN 0 .. Length - 1 ELSE {0, 1}
      BY Fixed
    <3> HIDE DEF k, i, m0
    <3>. QED
      BY <3>2, <3>3, <3>4, Iteration
  <2>. QED
    BY <1>0, <1>1, <1>9, <2>1, <2>2 DEF CopyStage, Arrays
<1>10. CASE ip[c] = 6
  <2>1. /\ mem'[c] = mem[c] /\ reg'[c] = reg[c] /\ count'[c] = k + 1 /\ ip'[c] = 7
    BY <1>10, CopyCode, FlagsDo
  <2>2. SrcAfter(op, m0, i, k + 1) = SrcAfter(op, m0, i, k)
    BY DEF SrcAfter
  <2>. QED
    BY <1>0, <1>1, <1>10, <2>1, <2>2 DEF CopyStage
<1>11. CASE ip[c] = 7
  <2>1. /\ mem'[c] = mem[c] /\ reg'[c] = reg[c] /\ count'[c] = k /\ ip'[c] = 8
        /\ result'[c] = k - Length
    BY <1>11, CopyCode, FlagsDo
  <2>. QED
    BY <1>0, <1>1, <1>11, <2>1 DEF CopyStage
<1>12. CASE ip[c] = 8
  <2>1. /\ mem'[c] = mem[c] /\ reg'[c] = reg[c] /\ count'[c] = k
        /\ ip'[c] = IF result[c] < 0 THEN 1 ELSE 9
    BY <1>12, CopyCode, FlagsDo
  <2>2. result[c] < 0 <=> k < Length
    BY <1>0, <1>1, <1>12 DEF CopyStage
  <2>. QED
    BY <1>0, <1>1, <1>12, <2>1, <2>2 DEF CopyStage
<1>13. CASE ip[c] = 9
  <2>1. /\ mem'[c] = mem[c] /\ reg'[c] = reg[c] /\ count'[c] = k /\ ip'[c] = 9
        /\ result'[c] = result[c]
    BY <1>13, CopyCode, FlagsDo
  <2>. QED
    BY <1>1, <1>13, <2>1
<1>. QED
  BY <1>4, <1>5, <1>6, <1>7, <1>8, <1>9, <1>10, <1>11, <1>12, <1>13

LEMMA SwapStep ==
  ASSUME TypeOK, Step, NEW c \in Calls, op \in {"oswap", "pickandswap"}, Stage(c)
  PROVE  Stage(c)'
<1> DEFINE k == count[c]
           i == cond[c]
           m0 == mem0[c]
           x == IF op = "oswap" THEN "first" ELSE "count"
<1>0. /\ op' = op /\ cond'[c] = i /\ mem0'[c] = m0
      /\ mem[c] = [a \in Arrays |-> mem[c][a]] /\ reg[c] = [r \in Regs |-> reg[c][r]]
      /\ k \in Nat /\ k =< Length /\ Length \in Nat \ {0} /\ i \in Nat
  BY Fixed
<1>1. SwapStage(op, m0, i, ip[c], k, result[c], reg[c], mem[c])
  BY DEF Stage
<1>2. SUFFICES SwapStage(op, m0, i, ip'[c], count'[c], result'[c], reg'[c], mem'[c])
  BY <1>0 DEF Stage
<1>3. /\ SrcAt(op, k) = At(c, x) /\ DestAt(op, k) = 0 /\ At(c, "first") = 0
      /\ op = "oswap" => k = 0
  BY <1>1 DEF SrcAt, DestAt, At, SwapStage
<1>4. ip[c] \in IF op = "oswap" THEN 1 .. 9 ELSE 1 .. 12
  BY <1>1 DEF SwapStage
<1>5. ip[c] \in 4 .. 6 => (Hit(op, i, k) <=> IF op = "oswap" THEN result[c] # 0 ELSE result[c] = 0)
  BY <1>0, <1>1 DEF SwapStage, FlagsSet, Hit, Picks
<1>6. ip[c] \in 1 .. 9 =>
        /\ Stored(op, DestAfter(op, m0, i, k), DestAt(op, k), ToDest(op, m0, i, k))
             = DestAfter(op, m0, i, k + 1)
        /\ Stored(op, SrcAfter(op, m0, i, k), SrcAt(op, k), ToSrc(op, m0, i, k))
             = SrcAfter(op, m0, i, k + 1)
  <2>1. HAVE ip[c] \in 1 .. 9
  <2>2. k < Length
    BY <1>1, <2>1 DEF SwapStage
  <2>3. k \in 0 .. Length - 1
    BY <1>0, <2>2
  <2>4. op \in Ops /\ op # "omove"
    BY Fixed
  <2>5. /\ m0 \in [Arrays -> [Units -> Val]]
        /\ i \in IF op \in Picks THEN 0 .. Length - 1 ELSE {0, 1}
    BY Fixed
  <2> HIDE DEF k, i, m0
  <2>. QED
    BY <1>3, <2>3, <2>4, <2>5, Iteration
<1>11. CASE ip[c] = 1
  <2>1. /\ reg'[c] = [reg[c] EXCEPT !["r12"] = FromSrc(op, m0, i, k)]
        /\ mem'[c] = mem[c] /\ count'[c] = k /\ result'[c] = result[c] /\ ip'[c] = 2
    BY <1>1, <1>3, <1>11, SwapCode, LoadDoes DEF FromSrc, SwapStage
  <2>. QED
    BY <1>0, <1>1, <1>11, <2>1 DEF SwapStage, Regs
<1>12. CASE ip[c] = 2
  <2>1. /\ reg'[c] = [reg[c] EXCEPT !["r13"] = FromDest(op, m0, i, k)]
        /\ mem'[c] = mem[c] /\ count'[c] = k /\ result'[c] = result[c] /\ ip'[c] = 3
    BY <1>1, <1>3, <1>12, SwapCode, LoadDoes DEF FromDest, SwapStage
  <2>. QED
    BY <1>0, <1>1, <1>12, <2>1 DEF SwapStage, Regs
<1>13. CASE ip[c] = 3
  <2>1. Instruction(c) = IF op = "oswap" THEN <<"test">> ELSE <<"cmp", "ind">>
    BY <1>13, SwapCode
  <2>2. /\ reg'[c] = reg[c] /\ mem'[c] = mem[c] /\ count'[c] = k /\ ip'[c] = 4
        /\ result'[c] = IF op = "oswap" THEN i ELSE k - i
    BY <1>13, <2>1, FlagsDo
  <2>3. FlagsSet(op, i, k, result'[c])
    BY <2>2 DEF FlagsSet, Picks
  <2>. QED
    BY <1>0, <1>1, <1>13, <2>2, <2>3 DEF SwapStage
<1>14. CASE ip[c] = 4
  <2>1. /\ reg'[c] = IF Hit(op, i, k) THEN [reg[c] EXCEPT !["r14"] = reg[c]["r13"]] ELSE reg[c]
        /\ mem'[c] = mem[c] /\ count'[c] = k /\ result'[c] = result[c] /\ ip'[c] = 5
    BY <1>5, <1>14, SwapCode, MoveDoes
  <2>2. /\ Hit(op, i, k) => reg'[c]["r14"] = FromDest(op, m0, i, k)
        /\ reg'[c]["r12"] = FromSrc(op, m0, i, k) /\ reg'[c]["r13"] = FromDest(op, m0, i, k)
    BY <1>0, <1>1, <1>14, <2>1 DEF SwapStage, Regs
  <2>. QED
    BY <1>0, <1>1, <1>14, <2>1, <2>2 DEF SwapStage
<1>15. CASE ip[c] = 5
  <2>1. /\ reg'[c] = IF Hit(op, i, k) THEN [reg[c] EXCEPT !["r13"] = reg[c]["r12"]] ELSE reg[c]
        /\ mem'[c] = mem[c] /\ count'[c] = k /\ result'[c] = result[c] /\ ip'[c] = 6
    BY <1>5, <1>15, SwapCode, MoveDoes
  <2>2. /\ Hit(op, i, k) => reg'[c]["r14"] = FromDest(op, m0, i, k)
        /\ reg'[c]["r12"] = FromSrc(op, m0, i, k)
        /\ reg'[c]["r13"] = ToDest(op, m0, i, k)
    BY <1>0, <1>1, <1>15, <2>1 DEF SwapStage, Regs, ToDest
  <2>. QED
    BY <1>0, <1>1, <1>15, <2>1, <2>2 DEF SwapStage
<1>16. CASE ip[c] = 6
  <2>1. /\ reg'[c] = IF Hit(op, i, k) THEN [reg[c] EXCEPT !["r12"] = reg[c]["r14"]] ELSE reg[c]
        /\ mem'[c] = mem[c] /\ count'[c] = k /\ result'[c] = result[c] /\ ip'[c] = 7
    BY <1>5, <1>16, SwapCode, MoveDoes
  <2>2. /\ reg'[c]["r12"] = ToSrc(op, m0, i, k)
        /\ reg'[c]["r13"] = ToDest(op, m0, i, k)
    BY <1>0, <1>1, <1>16, <2>1 DEF SwapStage, Regs, ToSrc
  <2>. QED
    BY <1>0, <1>1, <1>16, <2>1, <2>2 DEF SwapStage
<1>17. CASE ip[c] = 7
  <2>1. /\ mem'[c] = [mem[c] EXCEPT !["src"] =
                        Stored(op, SrcAfter(op, m0, i, k), SrcAt(op, k), ToSrc(op, m0, i, k))]
        /\ reg'[c] = reg[c] /\ count'[c] = k /\ result'[c] = result[c] /\ ip'[c] = 8
    BY <1>1, <1>3, <1>17, SwapCode, StoreDoes DEF SwapStage
  <2>. QED
    BY <1>0, <1>1, <1>6, <1>17, <2>1 DEF SwapStage, Arrays
<1>18. CASE ip[c] = 8
  <2>1. /\ mem'[c] = [mem[c] EXCEPT !["dest"] =
                        Stored(op, DestAfter(op, m0, i, k), DestAt(op, k), ToDest(op, m0, i, k))]
        /\ reg'[c] = reg[c] /\ count'[c] = k /\ result'[c] = result[c] /\ ip'[c] = 9
    BY <1>1, <1>3, <1>18, SwapCode, StoreDoes DEF SwapStage
  <2>. QED
    BY <1>0, <1>1, <1>6, <1>18, <2>1 DEF SwapStage, Arrays
<1>19. CASE ip[c] = 9 /\ op = "oswap"
  <2>1. /\ mem'[c] = mem[c] /\ reg'[c] = reg[c] /\ count'[c] = k /\ ip'[c] = 9
        /\ result'[c] = result[c]
    BY <1>19, SwapCode, FlagsDo
  <2>. QED
    BY <1>1, <1>19, <2>1
<1>20. CASE ip[c] = 9 /\ op = "pickandswap"
  <2>1. /\ mem'[c] = mem[c] /\ reg'[c] = reg[c] /\ count'[c] = k + 1 /\ ip'[c] = 10
    BY <1>20, SwapCode, FlagsDo
  <2>. QED
    BY <1>0, <1>1, <1>20, <2>1 DEF SwapStage
<1>21. CASE ip[c] = 10
  <2>1. op = "pickandswap"
    BY <1>4, <1>21
  <2>2. /\ mem'[c] = mem[c] /\ reg'[c] = reg[c] /\ count'[c] = k /\ ip'[c] = 11
        /\ result'[c] = k - Length
    BY <1>21, <2>1, SwapCode, FlagsDo
  <2>. QED
    BY <1>0, <1>1, <1>21, <2>1, <2>2 DEF SwapStage
<1>22. CASE ip[c] = 11
  <2>1. op = "pickandswap"
    BY <1>4, <1>22
  <2>2. /\ mem'[c] = mem[c] /\ reg'[c] = reg[c] /\ count'[c] = k
        /\ ip'[c] = IF result[c] < 0 THEN 1 ELSE 12
    BY <1>22, <2>1, SwapCode, FlagsDo
  <2>3. result[c] < 0 <=> k < Length
    BY <1>0, <1>1, <1>22 DEF SwapStage
  <2>. QED
    BY <1>0, <1>1, <1>22, <2>1, <2>2, <2>3 DEF SwapStage
<1>23. CASE ip[c] = 12
  <2>1. op = "pickandswap"
    BY <1>4, <1>23
  <2>2. /\ mem'[c] = mem[c] /\ reg'[c] = reg[c] /\ count'[c] = k /\ ip'[c] = 12
        /\ result'[c] = result[c]
    BY <1>23, <2>1, SwapCode, FlagsDo
  <2>. QED
    BY <1>1, <1>23, <2>2
<1>. QED
  BY <1>4, <1>11, <1>12, <1>13, <1>14, <1>15, <1>16, <1>17, <1>18, <1>19, <1>20, <1>21,
     <1>22, <1>23

LEMMA MoveStep ==
  ASSUME TypeOK, Step, NEW c \in Calls, op = "omove", Stage(c)
  PROVE  Stage(c)'
<1> DEFINE i == cond[c]
           m0 == mem0[c]
           chosen == Loaded("omove", m0["src"], IF i = 0 THEN 0 ELSE 1)
<1>0. /\ op' = op /\ cond'[c] = i /\ mem0'[c] = m0
      /\ mem[c] = [a \in Arrays |-> mem[c][a]] /\ reg[c] = [r \in Regs |-> reg[c][r]]
  BY Fixed
<1>1. MoveStage(m0, i, ip[c], result[c], reg[c], mem[c])
  BY DEF Stage
<1>2. SUFFICES MoveStage(m0, i, ip'[c], result'[c], reg'[c], mem'[c])
  BY <1>0 DEF Stage
<1>4. ip[c] \in 1 .. 5
  BY <1>1 DEF MoveStage
<1>5. CASE ip[c] = 1
  <2>1. /\ reg'[c] = [reg[c] EXCEPT !["rdx"] = reg[c]["val_2"]]
        /\ mem'[c] = mem[c] /\ result'[c] = result[c] /\ ip'[c] = 2
    BY <1>5, MoveCode, MoveDoes
  <2>. QED
    BY <1>0, <1>1, <1>5, <2>1 DEF MoveStage, Regs
<1>6. CASE ip[c] = 2
  <2>1. reg'[c] = reg[c] /\ mem'[c] = mem[c] /\ result'[c] = i /\ ip'[c] = 3
    BY <1>6, MoveCode, FlagsDo
  <2>. QED
    BY <1>0, <1>1, <1>6, <2>1 DEF MoveStage
<1>7. CASE ip[c] = 3
  <2>1. /\ reg'[c] = IF result[c] = 0 THEN [reg[c] EXCEPT !["rdx"] = reg[c]["val_1"]] ELSE reg[c]
        /\ mem'[c] = mem[c] /\ result'[c] = result[c] /\ ip'[c] = 4
    BY <1>7, MoveCode, MoveDoes
  <2>. QED
    BY <1>0, <1>1, <1>7, <2>1 DEF MoveStage, Regs
<1>8. CASE ip[c] = 4
  <2>1. /\ mem'[c] = [mem[c] EXCEPT !["dest"] = Stored("omove", mem[c]["dest"], 0, chosen)]
        /\ reg'[c] = reg[c] /\ result'[c] = result[c] /\ ip'[c] = 5
    BY <1>1, <1>8, MoveCode, StoreDoes DEF MoveStage, At
  <2>. QED
    BY <1>0, <1>1, <1>8, <2>1 DEF MoveStage, Arrays
<1>9. CASE ip[c] = 5
  <2>1. reg'[c] = reg[c] /\ mem'[c] = mem[c] /\ result'[c] = result[c] /\ ip'[c] = 5
    BY <1>9, MoveCode, FlagsDo
  <2>. QED
    BY <1>1, <1>9, <2>1
<1>. QED
  BY <1>4, <1>5, <1>6, <1>7, <1>8, <1>9

LEMMA StageStep ==
  ASSUME TypeOK, Step, NEW c \in Calls, Stage(c)
  PROVE  Stage(c)'
BY CopyStep, SwapStep, MoveStep DEF TypeOK, Ops, Picks

-----------------------------------------------------------------------------
(* The invariant, and what it says when a routine has ended.               *)

\* A loop goes round again by the comparison of the counter with the length.
LEMMA JumpByLength ==
  ASSUME IInv, NEW c \in Calls, Does(c, {"jl"})
  PROVE  result[c] = count[c] - Length
<1>1. Stage(c) /\ op \in {"ocopy", "pick", "oswap", "pickandswap", "omove"} /\ ip[c] \in Nat
  BY DEF IInv, TypeOK, Ops, Picks
<1>2. CASE op \in {"ocopy", "pick"}
  <2>1. CopyStage(op, mem0[c], cond[c], ip[c], count[c], result[c], reg[c], mem[c])
    BY <1>1, <1>2 DEF Stage
  <2>2. ip[c] \in 1 .. 9 /\ (ip[c] = 8 => result[c] = count[c] - Length)
    BY <2>1 DEF CopyStage
  <2>3. ip[c] = 8
    BY <1>2, <2>2, CopyCode DEF Does
  <2>. QED
    BY <2>2, <2>3
<1>3. CASE op \in {"oswap", "pickandswap"}
  <2>1. SwapStage(op, mem0[c], cond[c], ip[c], count[c], result[c], reg[c], mem[c])
    BY <1>1, <1>3 DEF Stage
  <2>2. /\ ip[c] \in IF op = "oswap" THEN 1 .. 9 ELSE 1 .. 12
        /\ ip[c] = 11 => result[c] = count[c] - Length
    BY <2>1 DEF SwapStage
  <2>3. ip[c] = 11
    BY <1>3, <2>2, SwapCode DEF Does
  <2>. QED
    BY <2>2, <2>3
<1>4. CASE op = "omove"
  <2>1. ip[c] \in 1 .. 5
    BY <1>1, <1>4 DEF Stage, MoveStage
  <2>. QED
    BY <1>4, <2>1, MoveCode DEF Does
<1>. QED
  BY <1>1, <1>2, <1>3, <1>4

\* The counter is incremented inside a loop only.
LEMMA CountInLoop ==
  ASSUME IInv, NEW c \in Calls, Does(c, {"inc"})
  PROVE  count[c] < Length
<1>1. Stage(c) /\ op \in {"ocopy", "pick", "oswap", "pickandswap", "omove"} /\ ip[c] \in Nat
  BY DEF IInv, TypeOK, Ops, Picks
<1>2. CASE op \in {"ocopy", "pick"}
  <2>1. CopyStage(op, mem0[c], cond[c], ip[c], count[c], result[c], reg[c], mem[c])
    BY <1>1, <1>2 DEF Stage
  <2>2. ip[c] \in 1 .. 9 /\ (ip[c] = 6 => count[c] < Length)
    BY <2>1 DEF CopyStage
  <2>3. ip[c] = 6
    BY <1>2, <2>2, CopyCode DEF Does
  <2>. QED
    BY <2>2, <2>3
<1>3. CASE op \in {"oswap", "pickandswap"}
  <2>1. SwapStage(op, mem0[c], cond[c], ip[c], count[c], result[c], reg[c], mem[c])
    BY <1>1, <1>3 DEF Stage
  <2>2. /\ ip[c] \in IF op = "oswap" THEN 1 .. 9 ELSE 1 .. 12
        /\ ip[c] = 9 => count[c] < Length
    BY <2>1 DEF SwapStage
  <2>3. ip[c] = 9
    BY <1>3, <2>2, SwapCode DEF Does
  <2>. QED
    BY <2>2, <2>3
<1>4. CASE op = "omove"
  <2>1. ip[c] \in 1 .. 5
    BY <1>1, <1>4 DEF Stage, MoveStage
  <2>. QED
    BY <1>4, <2>1, MoveCode DEF Does
<1>. QED
  BY <1>1, <1>2, <1>3, <1>4

LEMMA IInvInit == Init => IInv
<1> SUFFICES ASSUME Init PROVE IInv
  OBVIOUS
<1>1. ASSUME NEW c \in Calls
      PROVE  /\ op \in Ops /\ mem[c] \in [Arrays -> [Units -> Val]] /\ mem0[c] = mem[c]
             /\ cond[c] \in IF op \in Picks THEN 0 .. Length - 1 ELSE {0, 1}
             /\ ip[c] = 1 /\ count[c] = 0 /\ result[c] = 0
             /\ reg[c] = Passed(op, mem[c]["src"]) /\ touched[c] = <<>>
  <2>1. mem[c] \in [Arrays -> Contents]
    BY DEF Init, Arrays
  <2>2. mem[c] \in [Arrays -> [Units -> Val]]
    BY <2>1, MovesAssumption
  <2>. QED
    BY <2>2 DEF Init
<1>2. TypeOK
  <2>1. ASSUME NEW c \in Calls
        PROVE  reg[c] = [r \in Regs |-> reg[c][r]] /\ mem[c] = [a \in Arrays |-> mem[c][a]]
    BY <1>1 DEF Passed
  <2>2. Length \in Nat
    BY MovesAssumption
  <2>. QED
    BY <1>1, <2>1, <2>2 DEF TypeOK, Init
<1>3. InStep
  BY <1>1 DEF InStep, SameTrace, Calls
<1>4. ASSUME NEW c \in Calls PROVE Stage(c)
  <2>1. Length \in Nat \ {0} /\ cond[c] \in Nat
    BY <1>1, MovesAssumption
  <2>2. CASE op \in {"ocopy", "pick"}
    <3>1. SrcAfter(op, mem[c], cond[c], 0) = mem[c]["src"]
      BY <2>2 DEF SrcAfter
    <3>2. DestAfter(op, mem[c], cond[c], 0) = mem[c]["dest"]
      <4>1. CASE op = "ocopy"
        <5>1. \A u \in Units : ~ (u < 0)
          BY DEF Units
        <5>2. DestAfter(op, mem[c], cond[c], 0)
                = [u \in Units |-> IF cond[c] # 0 /\ u < 0 THEN mem[c]["src"][u]
                                                          ELSE mem[c]["dest"][u]]
          BY <4>1 DEF DestAfter, Picks
        <5>. QED
          BY <1>1, <5>1, <5>2 DEF Arrays
      <4>2. CASE op = "pick"
        BY <2>1, <4>2 DEF DestAfter
      <4>. QED
        BY <2>2, <4>1, <4>2
    <3>3. CopyStage(op, mem[c], cond[c], 1, 0, 0, reg[c], mem[c])
      BY <2>1, <3>1, <3>2 DEF CopyStage
    <3>. QED
      BY <1>1, <2>2, <3>3 DEF Stage
  <2>3. CASE op \in {"oswap", "pickandswap"}
    <3>1. /\ SrcAfter(op, mem[c], cond[c], 0) = mem[c]["src"]
          /\ DestAfter(op, mem[c], cond[c], 0) = mem[c]["dest"]
      <4>1. ~ (0 > cond[c]) /\ op # "ocopy"
        BY <2>1, <2>3
      <4>. QED
        BY <4>1 DEF SrcAfter, DestAfter
    <3>2. SwapStage(op, mem[c], cond[c], 1, 0, 0, reg[c], mem[c])
      BY <2>1, <3>1 DEF SwapStage
    <3>. QED
      BY <1>1, <2>3, <3>2 DEF Stage
  <2>4. CASE op = "omove"
    <3>1. /\ reg[c]["val_1"] = Loaded("omove", mem[c]["src"], 0)
          /\ reg[c]["val_2"] = Loaded("omove", mem[c]["src"], 1)
      BY <1>1, <2>4 DEF Passed, Regs
    <3>. QED
      BY <1>1, <2>4, <3>1 DEF Stage, MoveStage
  <2>. QED
    BY <1>1, <2>2, <2>3, <2>4 DEF Ops, Picks
<1>. QED
  BY <1>2, <1>3, <1>4 DEF IInv

LEMMA TypeStep == IInv /\ Step => TypeOK'
<1> SUFFICES ASSUME IInv, Step PROVE TypeOK'
  OBVIOUS
<1>1. TypeOK
  BY DEF IInv
<1>2. ASSUME NEW c \in Calls
      PROVE  /\ mem'[c] = [a \in Arrays |-> mem'[c][a]]
             /\ reg'[c] = [r \in Regs |-> reg'[c][r]]
             /\ count'[c] \in 0 .. Length
             /\ result'[c] \in Int
             /\ ip'[c] \in Nat
  <2>1. /\ mem[c] = [a \in Arrays |-> mem[c][a]] /\ reg[c] = [r \in Regs |-> reg[c][r]]
        /\ count[c] \in Nat /\ count[c] =< Length /\ Length \in Nat
        /\ result[c] \in Int /\ cond[c] \in Nat /\ ip[c] \in Nat
    BY <1>1, Fixed DEF TypeOK
  <2>2. mem'[c] = [a \in Arrays |-> mem'[c][a]]
    BY <2>1 DEF Step, MemAfter
  <2>3. reg'[c] = [r \in Regs |-> reg'[c][r]]
    BY <2>1 DEF Step, RegAfter
  <2>4. count'[c] \in 0 .. Length
    <3>1. Does(c, {"inc"}) => count[c] < Length
      BY CountInLoop
    <3>2. count'[c] = IF Does(c, {"inc"}) THEN count[c] + 1 ELSE count[c]
      BY DEF Step, CountAfter
    <3>. QED
      BY <2>1, <3>1, <3>2
  <2>5. result'[c] \in Int
    BY <2>1 DEF Step, ResultAfter, Operand
  <2>6. ip'[c] \in Nat
    BY <2>1 DEF Step, IpAfter
  <2>. QED
    BY <2>2, <2>3, <2>4, <2>5, <2>6
<1>. QED
  BY <1>1, <1>2, Fixed DEF TypeOK, Step

\* Two calls at one instruction of one iteration do the same to the memory bus,
\* and go to one instruction: only jl chooses, and it does so by the length.
LEMMA TraceStep == IInv /\ Step => InStep'
<1> SUFFICES ASSUME IInv, Step PROVE InStep'
  OBVIOUS
<1>1. /\ Instruction(1) = Instruction(2) /\ ip[1] = ip[2] /\ count[1] = count[2]
      /\ touched[1] = touched[2]
  BY DEF IInv, InStep, SameTrace, Instruction
<1>2. \A names : Does(1, names) <=> Does(2, names)
  BY <1>1 DEF Does
<1>3. Does(1, {"jl"}) => (result[1] < 0 <=> result[2] < 0)
  BY <1>1, <1>2, JumpByLength DEF Calls
<1>4. IpAfter(1) = IpAfter(2)
  BY <1>1, <1>2, <1>3 DEF IpAfter
<1>5. CountAfter(1) = CountAfter(2)
  BY <1>1, <1>2 DEF CountAfter
<1>6. TouchedAfter(1) = TouchedAfter(2)
  BY <1>1, <1>2 DEF TouchedAfter, Touched, Address
<1>. QED
  BY <1>4, <1>5, <1>6 DEF Step, InStep, SameTrace, Calls

LEMMA IInvStep == IInv /\ [Next]_vars => IInv'
<1>1. IInv /\ UNCHANGED vars => IInv'
  BY DEF vars, IInv, TypeOK, InStep, SameTrace, Stage
<1>2. IInv /\ Step => IInv'
  BY TypeStep, TraceStep, StageStep DEF IInv
<1>. QED
  BY <1>1, <1>2 DEF Next, Done

LEMMA IInvHolds == Spec => []IInv
BY IInvInit, IInvStep, PTL DEF Spec

LEMMA EndOfCopy ==
  ASSUME IInv, NEW c \in Calls, Does(c, {"ret"}), op \in {"ocopy", "pick"}
  PROVE  /\ mem[c]["src"] = SrcAfter(op, mem0[c], cond[c], Length)
         /\ mem[c]["dest"] = DestAfter(op, mem0[c], cond[c], Length)
<1>1. CopyStage(op, mem0[c], cond[c], ip[c], count[c], result[c], reg[c], mem[c])
  BY DEF IInv, Stage
<1>2. ip[c] \in 1 .. 9
  BY <1>1 DEF CopyStage
<1>3. ip[c] = 9
  BY <1>2, CopyCode DEF Does
<1>. QED
  BY <1>1, <1>3 DEF CopyStage

LEMMA EndOfSwap ==
  ASSUME IInv, NEW c \in Calls, Does(c, {"ret"}), op \in {"oswap", "pickandswap"}
  PROVE  LET n == IF op = "oswap" THEN 1 ELSE Length
         IN  /\ mem[c]["src"] = SrcAfter(op, mem0[c], cond[c], n)
             /\ mem[c]["dest"] = DestAfter(op, mem0[c], cond[c], n)
<1>1. SwapStage(op, mem0[c], cond[c], ip[c], count[c], result[c], reg[c], mem[c])
  BY DEF IInv, Stage
<1>2. ip[c] \in IF op = "oswap" THEN 1 .. 9 ELSE 1 .. 12
  BY <1>1 DEF SwapStage
<1>3. ip[c] = IF op = "oswap" THEN 9 ELSE 12
  BY <1>2, SwapCode DEF Does
<1>. QED
  BY <1>1, <1>3 DEF SwapStage

LEMMA IInvMoves == IInv => MovesAsAsked
<1> SUFFICES ASSUME IInv, NEW c \in Calls, Does(c, {"ret"})
             PROVE  /\ op = "ocopy" => Copied(c)
                    /\ op = "pick" => Picked(c)
                    /\ op = "oswap" => IF cond[c] = 0 THEN mem[c] = mem0[c] ELSE Exchanged(c, 0)
                    /\ op = "omove" => Moved(c)
  BY DEF MovesAsAsked
<1>0. /\ cond[c] \in IF op \in Picks THEN 0 .. Length - 1 ELSE {0, 1}
      /\ mem[c] = [a \in Arrays |-> mem[c][a]] /\ mem0[c] \in [Arrays -> [Units -> Val]]
      /\ Length \in Nat \ {0}
  BY MovesAssumption DEF IInv, TypeOK
<1>1. ASSUME op = "ocopy" PROVE Copied(c)
  <2>1. SrcAfter(op, mem0[c], cond[c], Length) = mem0[c]["src"]
    BY <1>1 DEF SrcAfter
  <2>2. DestAfter(op, mem0[c], cond[c], Length)
          = [u \in Units |-> IF cond[c] # 0 /\ u < Length
                             THEN mem0[c]["src"][u] ELSE mem0[c]["dest"][u]]
    BY <1>1 DEF DestAfter, Picks
  <2>. QED
    BY <1>1, <2>1, <2>2, EndOfCopy DEF Copied
<1>2. ASSUME op = "pick" PROVE Picked(c)
  <2>1. op \in Picks /\ Length > cond[c]
    BY <1>0, <1>2 DEF Picks
  <2>2. SrcAfter(op, mem0[c], cond[c], Length) = mem0[c]["src"]
    BY <1>2 DEF SrcAfter
  <2>3. DestAfter(op, mem0[c], cond[c], Length)
          = Stored(op, mem0[c]["dest"], 0, Loaded(op, mem0[c]["src"], cond[c]))
    BY <1>2, <2>1 DEF DestAfter
  <2>. QED
    BY <1>2, <2>2, <2>3, EndOfCopy DEF Picked
<1>3. ASSUME op = "oswap"
      PROVE  IF cond[c] = 0 THEN mem[c] = mem0[c] ELSE Exchanged(c, 0)
  <2>1. /\ mem[c]["src"] = SrcAfter(op, mem0[c], cond[c], 1)
        /\ mem[c]["dest"] = DestAfter(op, mem0[c], cond[c], 1)
    BY <1>3, EndOfSwap
  <2>2. CASE cond[c] = 0
    <3>1. mem[c]["src"] = mem0[c]["src"] /\ mem[c]["dest"] = mem0[c]["dest"]
      BY <1>3, <2>1, <2>2 DEF SrcAfter, DestAfter, Picks
    <3>. QED
      BY <1>0, <2>2, <3>1 DEF Arrays
  <2>3. CASE cond[c] # 0
    BY <1>3, <2>1, <2>3 DEF SrcAfter, DestAfter, Exchanged, Picks
  <2>. QED
    BY <2>2, <2>3
<1>4. ASSUME op = "omove" PROVE Moved(c)
  <2> DEFINE at == IF cond[c] = 0 THEN 0 ELSE 1
             source == mem0[c]["src"]
  <2>1. MoveStage(mem0[c], cond[c], ip[c], result[c], reg[c], mem[c])
    BY <1>4 DEF IInv, Stage
  <2>2. ip[c] \in 1 .. 5
    BY <2>1 DEF MoveStage
  <2>3. ip[c] = 5
    BY <1>4, <2>2, MoveCode DEF Does
  <2>4. mem[c]["dest"] = Stored("omove", mem0[c]["dest"], 0, Loaded("omove", source, at))
    BY <2>1, <2>3 DEF MoveStage
  <2>5. Lanes("omove") = {0}
    BY DEF Lanes, Picks
  <2>6. mem0[c]["dest"] \in [Units -> Val] /\ at + 0 = at
    BY <1>0 DEF Arrays
  <2>7. Loaded("omove", source, at)[0] = source[at]
    BY <2>5, <2>6 DEF Loaded
  <2>8. \A u \in Units : Stored("omove", mem0[c]["dest"], 0, Loaded("omove", source, at))[u]
                           = IF u = 0 THEN source[at] ELSE mem0[c]["dest"][u]
    BY <2>5, <2>7 DEF Stored, Units
  <2>. QED
    BY <2>4, <2>6, <2>8 DEF Moved, Stored
<1>. QED
  BY <1>1, <1>2, <1>3, <1>4

LEMMA IInvSwaps == IInv => SwapsPair
<1> SUFFICES ASSUME IInv, NEW c \in Calls, Does(c, {"ret"}), op = "pickandswap"
             PROVE  Exchanged(c, cond[c])
  BY DEF SwapsPair
<1>1. op \in Picks /\ Length > cond[c]
  <2>1. op \in Picks
    BY DEF Picks
  <2>2. cond[c] \in 0 .. Length - 1
    BY <2>1 DEF IInv, TypeOK
  <2>. QED
    BY <2>1, <2>2, MovesAssumption
<1>2. /\ mem[c]["src"] = SrcAfter(op, mem0[c], cond[c], Length)
      /\ mem[c]["dest"] = DestAfter(op, mem0[c], cond[c], Length)
  BY EndOfSwap
<1>. QED
  BY <1>1, <1>2 DEF SrcAfter, DestAfter, Exchanged

\* For every length, the memory a routine touches tells neither its condition
\* nor its index nor the data: the loads and stores that the programs above
\* make are the same, because what their conditional moves depend on decides
\* contents of registers only, and the jump of their loops depends on the
\* comparison of the counter with the length.
THEOREM TraceTellsNothing == Spec => []SameTrace
<1>1. IInv => SameTrace
  BY DEF IInv, InStep
<1>. QED
  BY <1>1, IInvHolds, PTL

\* For every length, the routines move exactly what their names say.
THEOREM MovesCorrect == Spec => []MovesAsAsked
BY IInvHolds, IInvMoves, PTL

\* For maps of every length, the swap exchanges exactly two words with the
\* destination: the entry asked for and the one behind it.
THEOREM LoopSwapsPair == Spec => []SwapsPair
BY IInvHolds, IInvSwaps, PTL
=============================================================================
