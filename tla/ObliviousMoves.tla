--------------------------- MODULE ObliviousMoves ---------------------------
(***************************************************************************)
(* The assembly routines the enclave moves data with, an instruction at a  *)
(* time: ocopy, ObliviousPick32, ObliviousPickAndSwap32, oswap and omove   *)
(* (omove_32 is omove on 4 bytes).                                         *)
(*                                                                         *)
(* What they are for is that the memory they touch does not tell the       *)
(* condition or the index they are called with.  That is a statement about *)
(* two calls, so two are run side by side: the same routine and length,    *)
(* but conditions, indices and data of their own.  Each has registers,     *)
(* flags and an instruction pointer of its own, and either goes where its  *)
(* flags send it.                                                          *)
(*                                                                         *)
(* Memory is counted in the routine's units, 8 bytes or, for the two picks *)
(* on the position map, 4; their registers are 8 bytes wide all the same,  *)
(* so that every load and store moves an entry and its neighbour.  Unit    *)
(* Length is the one behind the array (in Client, the low half of the      *)
(* pointer path), unit 1 of the destination the one behind the caller's    *)
(* BlockPath.                                                              *)
(***************************************************************************)
EXTENDS Integers, Sequences

CONSTANTS
  Length,    \* the length passed: block_size / 8, or MAX_POS_MAP for the picks
  Val,       \* the values of a unit
  Contents,  \* what arrays may hold
  Junk       \* what is left in a register nobody has loaded

Units == 0 .. Length

ASSUME MovesAssumption ==
  /\ Length \in Nat \ {0}
  /\ Contents \subseteq [Units -> Val]
  /\ Junk \in Val

Calls == {1, 2}
Picks == {"pick", "pickandswap"}
Ops == {"ocopy", "oswap", "omove"} \cup Picks
Regs == {"r12", "r13", "r14", "rdx", "val_1", "val_2"}

-----------------------------------------------------------------------------
(***************************************************************************)
(* The routines.  A load or store names array, index and register; "cmp"   *)
(* compares the counter; "jl" goes back to the first instruction.          *)
(***************************************************************************)
CompareIndex == <<"cmp", "ind">>
CompareLength == <<"cmp", "len">>
TakeIfSetReversed == <<"cmovnz", "r13", "r12">>
TakeIfSet == <<"cmovnz", "r12", "r13">>
SaveSourceIfEqual == <<"cmove", "r12", "r14">>
SaveIfEqual == <<"cmove", "r13", "r14">>

Ocopy ==
  << <<"load", "src", "count", "r12">>,
     <<"load", "dest", "count", "r13">>,
     <<"test">>,
     TakeIfSet,
     <<"store", "dest", "count", "r13">>,
     <<"inc">>, CompareLength, <<"jl">>, <<"ret">> >>

Pick ==
  << <<"load", "src", "count", "r12">>,
     <<"load", "dest", "first", "r13">>,
     CompareIndex,
     <<"cmove", "r12", "r13">>,
     <<"store", "dest", "first", "r13">>,
     <<"inc">>, CompareLength, <<"jl">>, <<"ret">> >>

PickAndSwap ==
  << <<"load", "src", "count", "r12">>,
     <<"load", "dest", "first", "r13">>,
     CompareIndex,
     SaveIfEqual,
     <<"cmove", "r12", "r13">>,
     <<"cmove", "r14", "r12">>,
     <<"store", "src", "count", "r12">>,
     <<"store", "dest", "first", "r13">>,
     <<"inc">>, CompareLength, <<"jl">>, <<"ret">> >>

Oswap ==
  << <<"load", "src", "first", "r12">>,
     <<"load", "dest", "first", "r13">>,
     <<"test">>,
     <<"cmovnz", "r13", "r14">>,
     TakeIfSet,
     <<"cmovnz", "r14", "r12">>,
     <<"store", "src", "first", "r12">>,
     <<"store", "dest", "first", "r13">>,
     <<"ret">> >>

Omove ==
  << <<"mov", "val_2", "rdx">>,
     <<"test">>,
     <<"cmove", "val_1", "rdx">>,
     <<"store", "dest", "first", "rdx">>,
     <<"ret">> >>

Program(routine) ==
  CASE routine = "ocopy" -> Ocopy
    [] routine = "pick" -> Pick
    [] routine = "pickandswap" -> PickAndSwap
    [] routine = "oswap" -> Oswap
    [] routine = "omove" -> Omove

-----------------------------------------------------------------------------
VARIABLES
  op,      \* the routine, in both calls
  cond,    \* per call: is the condition nonzero; for the picks, the index
  ip,      \* per call: the next instruction
  count,   \* per call: the loop counter
  result,  \* per call: what the flags were last set from
  reg,     \* per call: the registers
  mem,     \* per call: the source and the destination
  touched, \* per call: the loads and stores so far, with their addresses
  mem0     \* what mem held at the call

vars == <<op, cond, ip, count, result, reg, mem, touched, mem0>>

\* The units of a register, what a load gives it and what a store of it leaves.
Lanes(routine) == IF routine \in Picks THEN {0, 1} ELSE {0}

Loaded(routine, array, at) == [l \in Lanes(routine) |-> array[at + l]]
Stored(routine, array, at, value) ==
  [u \in Units |-> IF u - at \in Lanes(routine) THEN value[u - at] ELSE array[u]]

\* The two values of omove come in registers; here they are those of a source.
Passed(routine, source) ==
  [r \in Regs |-> CASE routine = "omove" /\ r = "val_1" -> Loaded(routine, source, 0)
                    [] routine = "omove" /\ r = "val_2" -> Loaded(routine, source, 1)
                    [] OTHER -> [l \in Lanes(routine) |-> Junk]]

Init ==
  /\ op \in Ops
  /\ cond \in [Calls -> IF op \in Picks THEN 0 .. Length - 1 ELSE {0, 1}]
  /\ mem \in [Calls -> [{"src", "dest"} -> Contents]]
  /\ ip = [c \in Calls |-> 1]
  /\ count = [c \in Calls |-> 0]
  /\ result = [c \in Calls |-> 0]
  /\ reg = [c \in Calls |-> Passed(op, mem[c]["src"])]
  /\ touched = [c \in Calls |-> <<>>]
  /\ mem0 = mem

-----------------------------------------------------------------------------
(***************************************************************************)
(* An instruction.                                                         *)
(***************************************************************************)
Instruction(c) == Program(op)[ip[c]]
Does(c, names) == Instruction(c)[1] \in names

Address(c) == IF Instruction(c)[3] = "count" THEN count[c] ELSE 0
Touched(c) == <<Instruction(c)[1], Instruction(c)[2], Address(c)>>

Taken(c) ==
  \/ Does(c, {"mov"})
  \/ Does(c, {"cmove"}) /\ result[c] = 0
  \/ Does(c, {"cmovnz"}) /\ result[c] # 0

Operand(c) == IF Instruction(c)[2] = "ind" THEN cond[c] ELSE Length

RegAfter(c) ==
  CASE Does(c, {"load"}) ->
         [reg[c] EXCEPT ![Instruction(c)[4]] = Loaded(op, mem[c][Instruction(c)[2]], Address(c))]
    [] Taken(c) -> [reg[c] EXCEPT ![Instruction(c)[3]] = reg[c][Instruction(c)[2]]]
    [] OTHER -> reg[c]

MemAfter(c) ==
  IF Does(c, {"store"})
  THEN [mem[c] EXCEPT ![Instruction(c)[2]] =
          Stored(op, mem[c][Instruction(c)[2]], Address(c), reg[c][Instruction(c)[4]])]
  ELSE mem[c]

CountAfter(c) == IF Does(c, {"inc"}) THEN count[c] + 1 ELSE count[c]

ResultAfter(c) ==
  CASE Does(c, {"test"}) -> cond[c]
    [] Does(c, {"cmp"}) -> count[c] - Operand(c)
    [] Does(c, {"inc"}) -> count[c] + 1
    [] OTHER -> result[c]

IpAfter(c) ==
  CASE Does(c, {"jl"}) -> IF result[c] < 0 THEN 1 ELSE ip[c] + 1
    [] Does(c, {"ret"}) -> ip[c]
    [] OTHER -> ip[c] + 1

TouchedAfter(c) ==
  IF Does(c, {"load", "store"}) THEN Append(touched[c], Touched(c)) ELSE touched[c]

Step ==
  /\ \E c \in Calls : ~ Does(c, {"ret"})
  /\ reg' = [c \in Calls |-> RegAfter(c)]
  /\ mem' = [c \in Calls |-> MemAfter(c)]
  /\ count' = [c \in Calls |-> CountAfter(c)]
  /\ result' = [c \in Calls |-> ResultAfter(c)]
  /\ ip' = [c \in Calls |-> IpAfter(c)]
  /\ touched' = [c \in Calls |-> TouchedAfter(c)]
  /\ UNCHANGED <<op, cond, mem0>>

Done == (\A c \in Calls : Does(c, {"ret"})) /\ UNCHANGED vars

Next == Step \/ Done

Spec == Init /\ [][Next]_vars

-----------------------------------------------------------------------------
(***************************************************************************)
(* Whoever watches the memory bus cannot tell one call from the other: at  *)
(* every moment both have touched the same addresses in the same order,    *)
(* whatever the condition, the index and the data.  A loop left when the   *)
(* entry is found, or flags of the wrong comparison at its end, would show *)
(* here and in no test of results.                                         *)
(***************************************************************************)
SameTrace == touched[1] = touched[2]

(***************************************************************************)
(* And what is done is all that was asked, in each call.  A copy moves all *)
(* units or none, and no unit past the length; a pick takes the entry and, *)
(* its registers being twice as wide, the one behind it, and leaves the    *)
(* array alone; a swap exchanges or does not; a move takes the first value *)
(* when the condition is zero.                                             *)
(***************************************************************************)
Copied(c) ==
  /\ mem[c]["src"] = mem0[c]["src"]
  /\ mem[c]["dest"] = [u \in Units |-> IF cond[c] # 0 /\ u < Length
                                      THEN mem0[c]["src"][u] ELSE mem0[c]["dest"][u]]

Picked(c) ==
  /\ mem[c]["src"] = mem0[c]["src"]
  /\ mem[c]["dest"] = Stored(op, mem0[c]["dest"], 0, Loaded(op, mem0[c]["src"], cond[c]))

Exchanged(c, at) ==
  /\ mem[c]["src"] = Stored(op, mem0[c]["src"], at, Loaded(op, mem0[c]["dest"], 0))
  /\ mem[c]["dest"] = Stored(op, mem0[c]["dest"], 0, Loaded(op, mem0[c]["src"], at))

Moved(c) ==
  mem[c]["dest"] = [mem0[c]["dest"] EXCEPT ![0] = mem0[c]["src"][IF cond[c] = 0 THEN 0 ELSE 1]]

MovesAsAsked ==
  \A c \in Calls : Does(c, {"ret"}) =>
    /\ op = "ocopy" => Copied(c)
    /\ op = "pick" => Picked(c)
    /\ op = "oswap" => IF cond[c] = 0 THEN mem[c] = mem0[c] ELSE Exchanged(c, 0)
    /\ op = "omove" => Moved(c)

(***************************************************************************)
(* What ObliviousPickAndSwap32 does, all of it: the entry asked for and    *)
(* the one behind it are exchanged with the destination and the word       *)
(* behind that, and no later iteration undoes or repeats it.  The modules  *)
(* of both ORAMs rely on this (Swapped); callers that expect one entry to  *)
(* change, as the reference code commented out in ecall_write_mm_in_client *)
(* has it, lose the next one (module MCNeighbours).                        *)
(***************************************************************************)
SwapsPair ==
  \A c \in Calls : Does(c, {"ret"}) /\ op = "pickandswap" => Exchanged(c, cond[c])
=============================================================================
