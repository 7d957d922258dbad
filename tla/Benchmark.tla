----------------------------- MODULE Benchmark -----------------------------
(***************************************************************************)
(* report_oram_benchmark, the program that calls PathORAM: its correctness *)
(* test (three writes and a read, each inside an assert), its rounds of    *)
(* random writes and of reads, and the heap chunks of its one buffer.      *)
(*                                                                         *)
(* PathORAM::read takes the buffer by value, frees it and allocates        *)
(* another, which only the callee sees; the program goes on with its old   *)
(* pointer.  malloc may give any free chunk, so the pointer may be good    *)
(* again or not.  Nothing is explored after the first use of a freed       *)
(* chunk: the program is then "undefined".                                 *)
(*                                                                         *)
(* The ORAM is a memory for the blocks of the test: no two of its ids are  *)
(* neighbours, and their labels fit the enclave when num_blocks is at most *)
(* MAX_POS_MAP.  It is none for the ids the rounds draw, neighbours among  *)
(* them (module MCNeighbours), so what those accesses load is any pattern. *)
(***************************************************************************)
EXTENDS Integers, FiniteSets

CONSTANTS
  NumBlocks,  \* the numbers of blocks the program may be run with
  Rounds,     \* a bound on the 1000 rounds of each loop
  Addrs       \* heap addresses

TestIds == {19, 23, 61}

\* What the program fills a block with, and what the ORAM loads.
Patterns == {"mod13", "mod19", "mod23", "zero"}

VARIABLES
  pc,         \* where the program is
  asserts,    \* assertions are compiled in: not in a release build (NDEBUG)
  numBlocks,  \* num_blocks
  mem,        \* what the ORAM holds for the blocks of the test, during the test
  heap,       \* what each chunk holds: a pattern, or "free"
  data,       \* the program's pointer
  round       \* rounds done of the current loop

vars == <<pc, asserts, numBlocks, mem, heap, data, round>>

Init ==
  /\ pc = "start"
  /\ asserts \in BOOLEAN
  /\ numBlocks \in NumBlocks \cap (Nat \ {0})
  /\ mem = [i \in TestIds |-> "zero"]
  /\ heap = [x \in Addrs |-> "free"]
  /\ data \in Addrs
  /\ round = 0

-----------------------------------------------------------------------------
FreeChunks(h) == {x \in Addrs : h[x] = "free"}

Dangling == data \in FreeChunks(heap)

Stop(why) ==
  /\ pc' = why
  /\ UNCHANGED <<mem, heap, data, round>>

\* The assertion on ind, compiled out with the others.
InRange(id) == id < numBlocks

StoredBlock(id) == [mem EXCEPT ![id] = heap[data]]

\* read: free(block), block = malloc(block_size_), and the access fills block.
ReadInto(content) ==
  LET freed == [heap EXCEPT ![data] = "free"]
  IN  \E x \in FreeChunks(freed) : heap' = [freed EXCEPT ![x] = content]

-----------------------------------------------------------------------------
Start ==
  /\ pc = "start"
  /\ data' \in FreeChunks(heap)
  /\ heap' = [heap EXCEPT ![data'] = "mod13"]
  /\ pc' = "write 61"
  /\ UNCHANGED <<mem, round>>

(***************************************************************************)
(* assert(test_oram->write(id, data, block_size, 0)), and data, which now  *)
(* holds the old content, is filled anew.                                  *)
(***************************************************************************)
AssertedWrite(at, id, fill, next) ==
  /\ pc = at
  /\ IF asserts /\ ~ InRange(id)
     THEN Stop("aborted")
     ELSE /\ mem' = IF asserts THEN StoredBlock(id) ELSE mem
          /\ heap' = [heap EXCEPT ![data] = fill]
          /\ pc' = next
          /\ UNCHANGED <<data, round>>

TestWrites ==
  \/ AssertedWrite("write 61", 61, "mod19", "write 19")
  \/ AssertedWrite("write 19", 19, "mod23", "write 23")
  \/ AssertedWrite("write 23", 23, "zero", "read 19")

TestRead ==
  /\ pc = "read 19"
  /\ IF asserts THEN ReadInto(mem[19]) ELSE UNCHANGED heap
  /\ pc' = "check"
  /\ UNCHANGED <<mem, data, round>>

Check ==
  /\ pc = "check"
  /\ Stop(IF Dangling THEN "undefined" ELSE IF heap[data] = "mod19" THEN "writing" ELSE "failed")

\* write(block_ids[i], data, block_size, 0), from and into the chunk of data.
RandomWrite ==
  /\ pc = "writing"
  /\ round < Rounds
  /\ \E old \in Patterns : heap' = [heap EXCEPT ![data] = old]
  /\ round' = round + 1
  /\ UNCHANGED <<pc, mem, data>>

StartReading ==
  /\ pc = "writing"
  /\ round = Rounds
  /\ pc' = "reading"
  /\ round' = 0
  /\ UNCHANGED <<mem, heap, data>>

FixedRead ==
  /\ pc = "reading"
  /\ round < Rounds
  /\ IF Dangling
     THEN Stop("undefined")
     ELSE /\ \E content \in Patterns : ReadInto(content)
          /\ round' = round + 1
          /\ UNCHANGED <<pc, mem, data>>

\* An access of the rounds ends the process when the stash is full.
StashOverflow ==
  /\ pc \in {"writing", "reading"}
  /\ round < Rounds
  /\ ~ Dangling
  /\ Stop("stash full")

Free ==
  /\ pc = "reading"
  /\ round = Rounds
  /\ IF Dangling
     THEN Stop("undefined")
     ELSE /\ heap' = [heap EXCEPT ![data] = "free"]
          /\ pc' = "done"
          /\ UNCHANGED <<mem, data, round>>

Over ==
  /\ pc \in {"done", "failed", "aborted", "stash full", "undefined"}
  /\ UNCHANGED vars

Next ==
  \/ /\ \/ Start
        \/ TestWrites
        \/ TestRead
        \/ Check
        \/ RandomWrite
        \/ StartReading
        \/ FixedRead
        \/ StashOverflow
        \/ Free
     /\ UNCHANGED <<asserts, numBlocks>>
  \/ Over

Spec == Init /\ [][Next]_vars

-----------------------------------------------------------------------------
(***************************************************************************)
(* The program's pointer is to a chunk it owns from the first malloc to    *)
(* the last free: read leaves its caller, who "is responsible for          *)
(* allocating and freeing block" (PathORAM.h), with a block to free.       *)
(***************************************************************************)
PointerValid == pc \notin {"start", "done"} => ~ Dangling

(***************************************************************************)
(* The correctness test is the one way the program checks the ORAM.  With  *)
(* an ORAM that holds the blocks of the test, what it compares with the    *)
(* pattern of block 19 is that pattern, or a chunk that read has freed,    *)
(* exactly in a build with assertions and for more blocks than the test    *)
(* uses: with fewer the assertion on the block id ends it, and a release   *)
(* build, in which the calls go with the assertions they are in, prints    *)
(* "Failed." whatever the ORAM does.                                       *)
(***************************************************************************)
TestSucceeds ==
  /\ pc = "failed" => ~ asserts
  /\ pc = "aborted" => asserts /\ numBlocks =< 61
  /\ pc \in {"writing", "reading", "done", "stash full", "undefined"} =>
       asserts /\ numBlocks > 61
=============================================================================
