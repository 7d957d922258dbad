# Verification of Intel-SGX-Path-ORAM

TLA+ models of the oblivious RAMs in `src/`, the TLC configurations that check
them on small instances, and TLAPS proofs of theorems about them.

    tlc -config PathORAM.cfg MCPathORAM     # a run (see "Runs")
    tlapm PathORAM_proofs.tla               # the proofs

## The system

One process, one thread, one enclave. The application keeps a tree of encrypted
buckets outside the enclave; the enclave keeps a position map, a stash and the
keys. Every access of a block is a straight sequence of synchronous enclave calls.
Nothing is persistent and nothing runs concurrently: what is hard here is the order
of the steps inside an access, what each of them leaves behind for later accesses,
limits (stash, bucket, root, last entry of a table) and word widths.

| Component | State | Operations | Talks to |
|---|---|---|---|
| ORAM interface (`App/ORAM.h`) | capacity, block size | `read`, `write` | callers |
| PathORAM (`App/PathORAM.*`) | the tree, a position map in the enclave or a smaller PathORAM, two block buffers, the id | constructor, destructor, `read`, `write`, `AccessPathORAM` | MemTree, the enclave client, itself |
| SimpleORAM (`App/SimpleORAM.*`) | the same | the same, `AccessSimpleORAM` | the same |
| MemTree (`App/MemTree.*`, `Include/Conf.h`) | array of encrypted nodes, each with counter, keys, labels, presence bits, pointers to encrypted contents | initialise, free, fetch, put, flush, twice (Path, Simple) | enclave calls |
| Enclave client (`Enclave/Enclave_Client.cpp`) | `struct Client`: position map, `path` + `path_stash`, saved content addresses, scratch node, `stash_load` | init, destroy, read and write position map, download, fetch, put, evict, update, flush | oblivious primitives, encryption |
| Oblivious primitives (`Enclave/Enclave_ObliviousFunctions.cpp`) | none | word moves in assembly, node read, write, transfer | the enclave client |
| Encryption and files (`Enclave/Enclave.cpp`) | the AES key | encrypt, decrypt, file tests | SDK |
| Enclave loading and ocalls (`App/App.cpp`, `Enclave/Enclave.edl`) | the enclave id | load, print, sleep, file I/O | SDK |
| Object lifecycle (constructors and destructors of both) | the next id, the one client | `new`, `delete`, the ORAMs below | MemTree, the enclave client |
| Benchmark (`App/ReportORAMBenchmark.cpp`) | a buffer | correctness test, random writes, reads | PathORAM |
| Simple9 codec (`Util/Simple9.cpp`) | none | compress, expand | no caller in the ORAM code |

What makes each of them correct:

* **ORAM interface**: the accesses are those of an array of blocks, zero until
  written; `write` also returns what it overwrote.
* **PathORAM**: every block the position map knows has exactly one live copy, in the
  stash or in a bucket on the path of its label, though downloads leave buckets
  uncleared and evictions move blocks that the access is not about.
* **SimpleORAM**: the same with one slot per block and no stash; a flush sinks blocks
  and loses none.
* **Enclave client**: counters, presence bits and keys of its nodes agree wherever one
  of them is used for another; each slot of the tree keeps its own buffer.
* **MemTree**: three places compute node addresses and masks from labels (download,
  eviction, and the eviction's bit mask), each in its own loop; they must agree.
* **Oblivious primitives**: a move moves what it is asked to, and the memory it touches
  does not depend on whether or which.
* **Recursive position maps**: the label an ORAM keeps for another is the one that
  other's block was put under, although all of them work in one client.
* **Lifecycle**: the one client is there, and large enough, for every level in use.
* **Benchmark**: its buffer is alive whenever it is used (it is not, finding 3) and its
  test tests.
* **Simple9**: what is encoded is decoded, by both decoders, the plain one in the room
  it made for it.

## Modules

| Module | Models | Stands on |
|---|---|---|
| `OramData` | blocks, requests, the three `memcpy` of an access | |
| `ORAM` | the interface as a memory that may die with the process | `OramData` |
| `TreePath` | levels, labels, the bucket a label meets at a level | |
| `PathORAM` | an access, with buckets and stash as sets of blocks | `OramData`, `TreePath`, refines `ORAM` |
| `MCNeighbours` | PathORAM beside the memory its callers believe in | `PathORAM` |
| `ClientNode` | a node of the client: `ObliviousNodeWrite`, `-Read`, `-Transfer` | `OramData` |
| `EnclaveClient` | the same accesses slot by slot, with buffers and backups | `ClientNode`, refines `PathORAM` |
| `SimpleTree` | what the calls of the alternative protocol do to one tree and the client, slot by slot | `ClientNode`, `TreePath` |
| `SimpleORAM` | its accesses, through the ORAMs of a position map | `ClientNode`, `SimpleTree` once per tree, refines `ORAM` |
| `OramShape` | powers of two, tree heights and the sizes of position-map ORAMs | |
| `Conf` | the slots of a node, which `Include/Conf.h` fixes for both sides | |
| `RecursivePathORAM` | accesses through the ORAMs of a position map | `PathORAM` once per tree, refines `ORAM` |
| `MCSharedClient` | the same beside the memory its caller believes in | `RecursivePathORAM` |
| `Lifecycle` | constructors, ids, the client, destructors, memory, the reads and writes that take it (its specification is `ObjectsSpec`) | `OramShape` |
| `TreeWalk` | the loops over node addresses and masks | |
| `ObliviousMoves` | the assembly routines, instruction by instruction, two calls side by side | |
| `Benchmark` | the benchmark program, its one pointer and the heap | |
| `Simple9` | the integer codec | |
| `PathORAM_proofs`, `RecursivePathORAM_proofs`, `EnclaveClient_proofs`, `SimpleORAM_proofs`, `TreeWalk_proofs`, `ObliviousMoves_proofs` | theorems | the module of that name |
| `App_proofs` | theorems about what the application's process does with objects and buffers | `Lifecycle`, `Benchmark` |
| `Common_proofs` | lemmas: loops, remainders, tree heights, the chain of ORAMs below an object; contents and requests; what a read, write or transfer does to a node | `OramShape`, `ClientNode` |
| `MC...` | values for the constants of the runs | |

### How they correspond to the code

*PathORAM.* `pc` is where `AccessPathORAM` is: `StartAccess` draws the new label
and swaps it into the position map, replacing a zero by a second draw;
`DownloadPath` and `ObliviousFetch` are the two calls of `MemTreeFetch_PathORAM`, the
`memcpy` exchange belonging to the latter; `PutToStash` is `MemTreePut_PathORAM`,
`EvictPath` is `MemTreeFlush_PathORAM`. The failed assertions are actions of their own
(`DownloadOverflow`, `PutOverflow`), and so is the use of the overwritten
`client->path` (`PathPointerFault`). A bucket or the stash is the set of blocks in its
slots. Where slot order decides (which of too many eligible blocks an eviction takes)
the choice is free. The count of loaded blocks is per slot, as in the code.

*EnclaveClient* has the same accesses with the data structures of the C code: nodes
with a counter, keys, labels and presence bits, first-fit insertion, the greedy scan
of the eviction, the scratch node, stale keys in emptied slots, content buffers
that slots point to and addresses saved at the download. Its `StartAccess` is
PathORAM's. `TreeBar`, `StashBar` map it to PathORAM.

*SimpleORAM* is the other protocol, for a build without `PATH_ORAM`: with it, the null
pointer its calls pass is written through by `ObliviousNodeWrite`. A path goes to the
first nodes of `client->path` and back (`DownloadPath`, `ObliviousFetch`, `UpdatePath`,
and again `DownloadPath`, `Flush`, `UpdateFlushed`); `PutToRoot` works on the root
alone. Tree `k` is `k` ORAMs below the caller's object and has an access record of its
own; all trees share one `client->path`, of which a lower tree fills fewer nodes than a
higher one did before.

*RecursivePathORAM* is built the same way over one position map and stash. `AskMap` is
the call `pos_map_->write` of one tree, which begins an access of the tree below it;
`MapAnswered` takes the old label from the buffer when that access has returned. All
other steps are PathORAM's own operators, instantiated per tree. Blocks carry the tree
they were put for in a field (`own`) that the code does not have and that only
properties read.

*Lifecycle* makes and deletes whole chains of objects in a step, since constructors
call each other and nothing comes between; it counts memory in chunks. The classes
share it: their constructors and destructors are line for line the same. Callers have a
buffer: `WriteObject` uses it, `ReadObject` frees it, if there is one, and allocates
another that stays with the callee.

*TreeWalk* runs the eviction's array of addresses, its shrinking mask and the
download's running address, one level per step, over two labels given bit by bit.
That they meet on the same nodes is what `TreePath!NodeAt` takes for granted.

*ObliviousMoves* has the routines as the lists of instructions they are (`Ocopy`, `Pick`,
`PickAndSwap`, `Oswap`, `Omove`), and what each instruction does to registers, flags,
memory and the instruction pointer. A routine runs twice at once, on different conditions,
indices and data, and the loads and stores of each call are recorded with their addresses:
"the trace tells nothing" is a statement about two runs, each of which goes where its own
flags send it. The picks have the array and the destination entry by entry and move two
per instruction, as a 64-bit `mov` does on 32-bit entries; what `SwapsPair` says
of the swap is `Swapped` in PathORAM and SimpleORAM. What the operand constraints tell the
compiler (the counter is an input although it is changed, memory is not named as changed)
is left out: the compiled code is taken to be the instructions of the strings.

*Benchmark* is the program from its `malloc` to its `free`, in either build (`asserts`).
`read` frees the buffer by value and allocates another, and `malloc` may give any free
chunk, the one just freed or a different one; at its first use of a freed chunk the program
is "undefined" and nothing is explored further. For the test the ORAM is a memory, which
its ids (19, 23, 61: no neighbours) allow. For the random writes and the reads it is not
(finding 1): what they load is any pattern, and any of them may overflow the stash.

*Simple9* encodes an array word by word and decodes the stream with either decoder. `room`
is the number of elements the decoder has allocated; a write beyond it may fault, or go on
over what lies there.

### Abstractions

* What was encrypted is what is decrypted. Failure of authentication is not modelled.
* Block contents are a few words of a few values. `block_size` appears as a number of
  words; a block size above 2020 bytes overruns `ENC_BUF_LEN` in `Enclave.cpp` and is
  excluded.
* Labels are a few nonzero numbers with the same low bits as real ones.
* Requests are legal ones (`ind < capacity`, the written range inside the block, a
  buffer large enough). `write_size = 0` is the read it is in the code.
* The build has assertions on; a failed one ends the process.
* The four bytes behind the heap-allocated `BlockPath` are any word of `Junk`.
* An overwritten `client->path` points anywhere; the outcome modelled is a fault.
* In SimpleORAM the label and content in an emptied slot are forgotten; the key,
  which a later comparison reads, stays. `stash_load` is not read in
  that build and is left out (it counts down from zero and wraps).

## Runs

| Run | Instance | Shows |
|---|---|---|
| `path_oram` | 3 blocks, 7 buckets of one slot, a stash of two, and a block with the last entry of the map | all state properties of PathORAM, the refinement of `ORAM` through every abnormal end; no access gets stuck (no deadlock) |
| `path_oram_neighbours` | blocks 0 and 1 | **violated**: `OldContentLoaded` |
| `enclave_client_slots` | 3 blocks, buckets of two, 3 nodes in `client->path` | counters, keys, presence, buffers; the refinement of PathORAM |
| `enclave_client_abnormal_ends` | 5 blocks, 3 slots of stash | the assertions on the stash, slot by slot |
| `simple_oram` | 7 blocks (2 of them used) over a map of 3, single slots | flushes that pass full nodes and sink blocks twice, root overflow, stale nodes; the refinement of `ORAM` |
| `recursive_path_oram` | 6 blocks (4 used) over a map of 2, blocks of three words | `MapsLeadToBlocks`, the refinement of `ORAM` with writes of part of a block, as long as evictions empty the stash |
| `shared_stash` | 4 blocks (2 used) over a map of 2, no bound | **violated**: `OldContentLoaded` |
| `lifecycle` | two objects, capacities to 40, 1 to 4 labels to a block | the client serves what is no larger than the first object while that lives, the maps have a label for every block, all memory is returned but what accesses and reads lose |
| `benchmark_pointer` | 3 rounds, 3 chunks, 20, 61 or 62 blocks, both builds | **violated**: `PointerValid` |
| `tree_walk` | all pairs of labels, 4 levels | the three address computations agree and stay in the tree |
| `oblivious_moves` | length 3, data of few values that tell the units apart | traces do not tell; each routine moves what it is asked to; the swap takes the neighbour and nothing else |
| `simple9_codec` | arrays at the edges of code words | decoders give back what was encoded; the plain one stays in its room; the codec ends |

Why these bounds: what can go wrong needs two blocks that contend for a slot, a
third that is pushed aside by them, and labels that agree on no turn, on one and
(three levels: labels 1, 3 and 4) on the first but not the second. Buckets of one slot
fill at once; buckets of two, in EnclaveClient, are the least where slot order matters.
With a stash of two, three blocks overflow it. The number of accesses is not bounded.
Block ids in the passing runs on one position map are two apart, because of finding 1;
`Junk` is then invisible to the callers, and one value of it is enough.

Recursion: two labels in one map block and two ids equal in two trees are needed,
and both happen with four blocks over two. In `recursive_path_oram` the constraint
`NothingSpilled` stops at states where an eviction left a block in the shared stash:
what comes after is finding 2, which `shared_stash` shows without the constraint.
Blocks of three words make the write of one label a write in the middle of a block.
`simple_oram` uses ids 2 and 6 of seven, so that block 2 and the map block of block 6
have one key and neighbouring entries stay apart; the last entry of the map, whose swap
overwrites `client->path`, is left to `path_oram` (assumption `LastEntryUnused`).
Lifecycle bounds the objects made (`MaxObjects`) and accesses (`MaxAccesses`), Benchmark
its rounds (`Rounds`, 1000 in the code; the pointer is lost at the first read). The moves
have arrays of three entries and the one behind: a first, an inner and a last entry to
pick. Simple9: arrays of up to three items at the
limits of every width, runs around the capacities 14 and 28 with one wider item, runs of
127 to 130 where the count takes a second byte; counts stay below 2^31.

**Fairness.** Only `CodecEnds` (Simple9) needs any: weak fairness of `Next`. The codec
runs on its caller's thread and no step of it waits for anything, so what can go on does.
The other models are of straight sequences of calls; that none of them stops halfway is
what checking for deadlock shows, which every run does.

## Findings

1. `ObliviousPickAndSwap32` moves 64-bit registers over 32-bit entries. Accessing
   block `i` replaces the position of block `i + 1` by heap garbage, and block
   `i + 1` is later looked for on a wrong path and read as zero: `PathORAM.h:31-32`
   promises its old content (run `path_oram_neighbours`).
2. The ORAMs of a recursive position map share one stash in which keys do not say
   whose a block is. What an eviction leaves there answers the next fetch of
   another level, or goes into its tree: the same promise fails (run `shared_stash`).
3. `PathORAM::read` frees the buffer it is given and loads the block into another the
   caller never learns of. `PathORAM.h:40-41` says that the block is freed and re-allocated
   and that the caller is responsible for freeing it, but the caller has only the freed
   chunk. The benchmark compares it, passes it to `read` again and frees it once more (run
   `benchmark_pointer`). It works where `malloc` gives the chunk freed last back.

The first two need no more than a legal sequence of calls, and meet in every ORAM with a
recursive map whose caller uses neighbouring ids. The third needs one `read`.

### Observations

Disagreements of code and comments that were met while modelling and have no run of
their own:

* `ObliviousPickAndSwap32` changes two entries; the reference code commented out beside
  its call, `Enclave_Client.cpp:82-84`, changes one (cf. `SwapsPair`).
* For the last of the `MAX_POS_MAP` entries the second word is the low half of the
  pointer `client->path`; the models take the fault that follows as an end of the
  process (`PathPointerFault`).
* Two objects whose maps fit the enclave share the entries of `client->path_mm`. The
  client has the sizes of the object with id 1 and dies with it, so a second object that
  is larger, or outlives the first, works on what does not fit or is gone
  (`ClientServesAll` says what is left).
* `SimpleORAM`'s fetch looks below the height of the tree at hand and may find what a
  higher tree left there, though `Enclave_Client.cpp:366` promises a zero block. Callers
  see nothing of it (`simple_oram`): the content becomes the first content of a map
  block whose labels belong to blocks that do not exist yet.
* The release build of the benchmark compiles its writes and reads out with the
  assertions around them and reports failure (`TestSucceeds`).
* The loop announced as "Read 1000 random blocks..." reads block 61.
* `capacity_` stays set when `InitializeMemTree` fails, against `PathORAM.h:23`. In the
  build with `AES_ENC` it does not return at all then (`NewShortOfMemory`).
* `new uint32_t(size)` in the unrolled decoder, `Simple9.cpp:226`, makes one element, where
  the comment above it asks for the array and 27 elements of extra space. The decoder
  writes past it with its first word, unless that holds one item of 28 bits. `Simple9` has
  the element as `room` and the fault as an outcome; what `RoundTrip` says of this decoder
  is of the runs that return.
* A write of no bytes is taken for a read of the whole block into the caller's buffer.

## Proofs

All for every value of the constants allowed by the named assumptions. These say what
the constructors assert (`Height < ClientMaxPath`, in `ClientAssumption` and
`SimpleORAMAssumption`), that a node has a slot (`NodeAssumption`), that capacities and sizes are not zero
(`LifecycleAssumption`), that ids are below the
capacity and labels are not zero.

**PathORAM** (`PathORAM_proofs`)

* `TypeCorrect`: `Spec => []TypeOK`. Inductive as it stands; it includes
  that no bucket exceeds its slots (from the greedy eviction) and that the stash stays
  within its own (from the assertions). Neighbouring ids and any `Junk` included.
* `NeverTwoCopies` (`OneCopy`) and `BlocksStayOnPath` (`OnLabelledPath`), under
  `NoNeighbours`, without which they fail (finding 1). Neither is
  inductive: that a block put back collides with no other copy needs that the fetch
  took every copy, hence that all live blocks lie on the path of their labels, hence
  that the label of the access in progress is the one swapped out, hence that the
  position map already holds the other. `IInv` is the conjunction of the four facts
  (`TypeOK`, `OneCopy`, `OnLabelledPath`, `LabelInHand`). `Shadowed` names
  the buckets whose contents are dead because the stash has them; the eviction of
  that very path brings them back to life, refilled.
* From `IInv`, and so under `NoNeighbours` too: `NoBlockLost` (`NothingLost`), because
  a download moves blocks only between what is live and an eviction puts every block of
  the stash in a bucket or leaves it; `StashLoadCounts` (`StashLoadExact`), because the
  buckets of a path share no block with each other or the stash and the fetch takes at
  most one; `NoEarlyOverflow` (`WorkingSetFits`), because live blocks have distinct ids,
  all in use. `StashIsOverflow` (`StashOnlyWhenRootFull`) needs `TypeOK` only: every
  label agrees with every other at level 0, so a block that stays was eligible for the
  root.
* `RefinesORAM` (`ImplementsORAM`): the memory is read off the live blocks, of which
  `OneCopy` leaves one per id. Each step is a step of the memory or none; the fetch serves
  the request because what it takes is the live block of the key, and it takes one
  whenever there is one.

**Recursive position maps** (`RecursivePathORAM_proofs`)

* `TypeCorrect`: `Spec => []TypeOK`, without any condition: sizes of buckets and stash, and
  types. What is inductive is `TypeInv`, which adds the order of the accesses: the trees above the one at work wait, those below
  are idle, and only the last tree has its labels in the enclave.
* `MapsLead` (`MapsLeadToBlocks`) and `RefinesORAM` (`ImplementsORAM`), of the form
  `Spec /\ []NothingSpilled => ...`. The condition is the constraint of
  `recursive_path_oram`; a behaviour that leaves it may go wrong (finding 2), so
  it is not a fact to be proved of the code but the limit within which the code is right. The second
  condition, `OnlyLastSpoiled`, is about the ids whose labels are in the enclave: two of
  them are neighbours only if the second is the last entry of the map. The swap for the
  first spoils that entry, but an access of the last entry never gets as far as putting
  its block, so there is no block to lose. It is weaker than `NoNeighbours`, and the
  instance of the run, whose last tree has ids 0 and 1 and a map of two, meets it without meeting
  `NoNeighbours`.
* `IInv` says of every state (`BlocksStayFindable`) that each block of each tree is nowhere
  or in one place: in the stash while the path of its tree is there, or in a bucket on the
  path of the label it is *expected* under. As in SimpleORAM this is the label the
  tree below has, except for the block of an access in progress between the store of
  the new label below and its own fetch. `OwnInv` adds what the shared stash makes
  necessary: while the path of a tree is in the stash, all blocks in the stash are that
  tree's. It is inductive because, `NothingSpilled`, the stash is empty when the next tree
  downloads. One difference to SimpleORAM shows in the proof: a label zero is replaced by
  a drawn one on both sides of the swap, which is right only because a block whose label
  is zero is nowhere. TLC checked `IInv` on the instance of the run first.

**The enclave's routines** (`EnclaveClient_proofs`)

* `SlotsSound`: `SlotInv`, which says of nodes and buckets that a taken slot has a key,
  that counters agree with presence bits in the buckets, and that the addresses saved at
  a download are the bucket's own. It holds for any ids and gives `KeysGoByPresence`
  (`KeysMarkPresence`) and `BuffersStayOwned` (`BuffersOwned`).
* `RefinesPathORAM` (`ImplementsPathORAM`), under `NoNeighbours`. The loops are recursive
  functions over rounds, and what each does is proved for all rounds by induction over
  the set of rounds at which it holds (`SetInduction`, `UpTo`, `LoopExists`).
  Slots are compared with sets by counting: as many slots are taken as there are blocks in
  the stash, so no two slots hold one block, an assertion fails exactly when the slots are
  used up, and what a scan of the eviction moves into a bucket is gone from the stash.
  One scan splits the stash in what it took and what it left; the scans of all levels
  together assign each block a level or none (`LevelsFilled`), which is the choice
  `EvictPath` of PathORAM leaves open.
* `CountersStayExact` (`CountersAgree`) from the same invariant (`Invariant`).
* `RefinesMemory`: the two refinements composed. What the slot-by-slot routines load is
  what the last write stored.

**SimpleORAM** (`SimpleORAM_proofs`)

* `Types` (`TypeInv`): types, counters, and the order of the trees: those above the one at
  work wait, those below are idle. `CountersStayTrue` (`CountersAgree`) is a part of it.
* `FlushesSink` (`FlushSinks`): through all visits of the scan there is a one-to-one map from
  the slots taken before onto those taken now, which keeps content, key and label and
  goes from a node to one deeper on the path of the label, by the low bits of labels.
* `OneSlotEach` (`OneSlotOnLabelledPath`), under `NoNeighbours`, which here concerns the
  ids of the last tree, whose labels are in the enclave; ids of the other trees are free.
  The property speaks of the state between accesses; `IInv` speaks of every
  state (`BlocksStayFindable`). It says that each block of each tree is nowhere, or in one
  slot on the path of the label it is *expected* under. That is the label the tree below
  has for it, except for the block of an access in progress, from when the tree below has
  stored the new label until the fetch: then it is the old one, in the buffer, then in
  `*block_path`. The trees hang together through it: an update of a block of labels
  changes what the tree above expects of one block, the one that is about to be fetched.
  A fetch may take a block of labels from a node that another tree left in
  `client->path`. This does no harm because such a block of labels is itself nowhere, so
  that the labels it should have are zero and all blocks they belong to are nowhere; and
  in the highest tree there is nothing below to be taken (`EmptyBelow`).
* `RefinesORAM` (`ImplementsORAM`) from `IInv`: the update of the fetched block of the top tree
  serves the request, and no other step of any tree changes what callers see.

**The rest**

* `TreeWalk_proofs!MaskIsTheWalk`, `WalksStayInTree`: for trees of any height up to 31
  and any two labels, the mask of the eviction admits a block to exactly the nodes that
  the download along its label reads, and no address leaves the array. The
  invariant (`IInv`) says that addresses of a level lie between its first and last, that
  levels do not overlap, and that two walks are on one node as long as their bits
  agree. The first address of a level is kept in an array (`first`) that no guard reads,
  because the provers know nothing of `2 ^ l`.
* `ObliviousMoves_proofs!TraceTellsNothing` (`SameTrace`): for every length and all data, two
  calls of a routine load and store at the same addresses in the same order whatever their
  conditions and indices. Nothing in the model makes the calls run in step: each goes where
  its flags send it. The invariant says that instruction pointers and counters agree, which
  at a `jl` rests on the flags being those of the last comparison, of the counter with the
  length; between the comparison with the index and that one the flags do differ.
  `MovesCorrect` (`MovesAsAsked`): each routine moves what its comment says. `LoopSwapsPair`
  (`SwapsPair`): the swap exchanges the entry and its neighbour. Both go by what memory and
  registers hold before each instruction of an iteration, and by where the two entries are
  before and after the iteration that swaps.

**The application's process** (`App_proofs`)

* Lifecycle, by `IInv`, which says what the sizes of living objects have to do with one
  another: those with one outermost object are exactly the chain its constructor made
  (`ChainsInv`); the client lives as long as the chain with id 1 and is as wide
  (`ClientInv`); the first object made is that chain (`MadeInv`). From it `ServesAll`
  (`ClientServesAll`), because no ORAM of a chain is higher than the first (`HeightsDescend`),
  and `MapsCover` (`MapsCoverBlocks`), because a chain goes on to the first map that fits
  (`DepthsDescend`) and rounding up leaves a label for each block (`MapIsSmaller`). TLC
  checked the three on the instance of the run first.
* `AllReturned` (`MemoryReturned`) with `MemoryInv`: what is allocated is the sum over the
  living objects, the client's arrays, one `BlockPath` for each level of each access, the block
  of each read, and the buffer of the callers.
  Its lemmas (`SubsetInduction` to `SumUnion`) are about the sum: adding objects up gives the
  same in any order, so the chunks of two disjoint sets add up.
* Benchmark: `TestCharacterised` (`TestSucceeds`), for any number of blocks and rounds and
  whichever chunks the allocator gives: the test passes, or compares a chunk that `read` has
  freed, exactly in a build with assertions and more blocks than it uses. The invariant says
  what chunk and memory hold before each call of the test. No run checks this one.

Only model-checked: the properties of Simple9, which are about what recursive functions
compute from data, and of which `CodecEnds` is a liveness property, out of
the prover's reach. Nothing is proved of RecursivePathORAM once an eviction has left a block
in the stash, except `TypeOK`.

## Not modelled

* `Enclave.cpp`, `App.cpp`, `Enclave.edl`: encryption, loading, ocalls, file I/O; no
  state of the ORAM beyond the key and no control beyond a sequence of SDK calls. The
  limit of the encryption buffer (above) is a matter of sizes in bytes, and nothing
  in the repository says how large a block may be.
* The branches without `AES_ENC`: the same calls with copies in the place of encryption.
* `ecall_read_mm_in_client` and the access counters, which nothing uses; the printing
  test functions; timing output; index constants and SDK sample types.
* A written range that exceeds the block, and a write of no bytes: no line says what they
  should do.
* Two objects accessed in turn: their lifetimes and sizes are composed (Lifecycle), their
  accesses over one position map and stash are not.

## Plan

1. Independence of the walked labels from the requests, as far as a safety property
   can state it: a label is walked once and then replaced.
2. Two objects used in turn over the one map, stash and path, as Lifecycle makes them.
