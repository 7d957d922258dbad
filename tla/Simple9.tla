------------------------------ MODULE Simple9 ------------------------------
(***************************************************************************)
(* The integer codec of Util/Simple9.cpp: an array is encoded once, then   *)
(* the stream is decoded by the plain or by the unrolled decoder.          *)
(*                                                                         *)
(* A code word of 32 bits is its selector (the 4 low bits) and its payload *)
(* (the 28 bits above them); the stream is the bytes of the count and the  *)
(* words.  One action is one word.                                         *)
(***************************************************************************)
EXTENDS Integers, SequencesExt

CONSTANT
  Arrays      \* the arrays to encode: nonempty sequences of numbers

\* How many items a word of each selector holds, and of how many bits.
SelectorTable ==
  << <<28, 1>>, <<14, 2>>, <<9, 3>>, <<7, 4>>, <<5, 5>>, <<4, 7>>, <<3, 9>>, <<2, 14>>, <<1, 28>> >>
Selectors == 0 .. Len(SelectorTable) - 1
NItems(s) == SelectorTable[s + 1][1]
NBitsShort(s) == IF s = 8 THEN 27 ELSE SelectorTable[s + 1][2]
NBits(s) == SelectorTable[s + 1][2]

MaxValue == 2 ^ 28 - 1

\* Encoding asserts n > 0.
ASSUME ArraysAssumption ==
  \A a \in Arrays : Len(a) > 0 /\ \A i \in DOMAIN a : a[i] \in Nat

VARIABLES
  array,   \* what the caller passes
  pc,      \* the function that runs
  header,  \* the stream: the bytes of the count ...
  words,   \* ... and the code words written after them
  index,   \* the items encoded
  read,    \* the words the decoder has read
  room,    \* the elements it has allocated
  decoded  \* what it has written from the first of them on, room or not

vars == <<array, pc, header, words, index, read, room, decoded>>

N == Len(array)

(***************************************************************************)
(* The count: seven bits to a byte, the lowest first, the high bit set in  *)
(* all bytes but the last.                                                 *)
(***************************************************************************)
VByteEncode[v \in Nat] ==
  IF v >= 128 THEN <<(v % 128) + 128>> \o VByteEncode[v \div 128] ELSE <<v>>

\* The decoder reads up to the first byte without the high bit.
VByteLength(bytes) == SelectInSeq(bytes, LAMBDA b : b < 128)
VByteDecode(bytes) ==
  FoldRight(LAMBDA b, high : (b % 128) + 128 * high,
            SubSeq(bytes, 1, VByteLength(bytes)), 0)

(***************************************************************************)
(* The words.                                                              *)
(***************************************************************************)
Pack(items, nbits) == FoldRight(LAMBDA v, high : v + (2 ^ nbits) * high, items, 0)

Item(word, i) == (word.payload \div 2 ^ (i * NBits(word.select))) % (2 ^ NBits(word.select))
Items(word) == [i \in 1 .. NItems(word.select) |-> Item(word, i - 1)]

\* An item of nbits bits.
FitsLoose(v, nbits) == v =< 2 ^ nbits
Fits(v, nbits) == v =< 2 ^ nbits - 1

\* The longest run of items from index on that a word of selector s takes.
Taken(s) ==
  CHOOSE t \in 0 .. NItems(s) :
    /\ index + t =< N
    /\ \A i \in index + 1 .. index + t : Fits(array[i], NBits(s))
    /\ \/ t = NItems(s)
       \/ index + t = N
       \/ ~ Fits(array[index + t + 1], NBits(s))

\* The word is full, or the array ends in it.
Accepts(s) == Taken(s) = NItems(s) \/ index + Taken(s) = N

\* The selectors tried for the next word: up to the first that is accepted.
Tried == {s \in Selectors : \A t \in 0 .. s - 1 : ~ Accepts(t)}

\* The inner loop asserts each item it looks at, the one it stops at too.
Oversized ==
  \E s \in Tried : index + Taken(s) < N /\ array[index + Taken(s) + 1] > MaxValue

Init ==
  /\ array \in Arrays
  /\ pc = "encode_count"
  /\ header = <<>> /\ words = <<>>
  /\ index = 0 /\ read = 0 /\ room = 0 /\ decoded = <<>>

EncodeCount ==
  /\ pc = "encode_count"
  /\ header' = VByteEncode[N]
  /\ pc' = "encode"
  /\ UNCHANGED <<array, words, index, read, room, decoded>>

\* If no selector is accepted the outer loop tries the same ones again.
EncodeWord ==
  /\ pc = "encode" /\ index < N /\ ~ Oversized
  /\ IF \A s \in Selectors : ~ Accepts(s)
     THEN UNCHANGED <<words, index>>
     ELSE \E s \in Tried :
            /\ Accepts(s)
            /\ words' = Append(words,
                  [select  |-> s,
                   payload |-> Pack(SubSeq(array, index + 1, index + Taken(s)), NBits(s))])
            /\ index' = index + Taken(s)
  /\ UNCHANGED <<array, pc, header, read, room, decoded>>

AssertFails ==
  /\ pc = "encode" /\ index < N /\ Oversized
  /\ pc' = "aborted"
  /\ UNCHANGED <<array, header, words, index, read, room, decoded>>

\* The count both decoders go by is the one they read.
Count == VByteDecode(header)

\* malloc takes the size of so many elements; new uint32_t(size) makes one
\* element of that value.
Allocated(decoder) == IF decoder = "decode" THEN Count ELSE 1

EncodeReturns ==
  /\ pc = "encode" /\ index >= N
  /\ \E decoder \in {"decode", "unrolled"} :
       pc' = decoder /\ room' = Allocated(decoder)
  /\ UNCHANGED <<array, header, words, index, read, decoded>>

More == Len(decoded) < Count

\* The inner loop stops at the last item, however many the word holds.
DecodeWord ==
  /\ pc = "decode" /\ More
  /\ LET items == Items(words[read + 1])
         left == Count - Len(decoded)
     IN decoded' = decoded \o SubSeq(items, 1, IF left < Len(items) THEN left ELSE Len(items))
  /\ read' = read + 1
  /\ UNCHANGED <<array, pc, header, words, index, room>>

\* "Due to the unrolled decoding loop there is no bounds checking."  A write
\* past the allocated room may fault, or go on over what lies there.
UnrolledWord ==
  /\ pc = "unrolled" /\ More
  /\ decoded' = decoded \o Items(words[read + 1])
  /\ read' = read + 1
  /\ \/ pc' = pc
     \/ Len(decoded') > room /\ pc' = "fault"
  /\ UNCHANGED <<array, header, words, index, room>>

DecodeReturns ==
  /\ pc \in {"decode", "unrolled"} /\ ~ More
  /\ pc' = IF pc = "decode" THEN "decoded" ELSE "unrolled_done"
  /\ UNCHANGED <<array, header, words, index, read, room, decoded>>

Ended == pc \in {"decoded", "unrolled_done", "aborted", "fault"}

Done == Ended /\ UNCHANGED vars

Next ==
  \/ EncodeCount \/ EncodeWord \/ AssertFails \/ EncodeReturns
  \/ DecodeWord \/ UnrolledWord \/ DecodeReturns \/ Done

Spec == Init /\ [][Next]_vars

\* The functions run on the caller's thread and are not left.
FairSpec == Spec /\ WF_vars(Next)

-----------------------------------------------------------------------------
\* The bytes a function returns having written or read.
StreamBytes(nwords) == Len(header) + 4 * nwords

\* What is encoded is decoded: both decoders return with the n elements of
\* the array in place, having read the bytes that were written and no other,
\* and the plain one never writes an element it has not allocated.
RoundTrip ==
  /\ pc \in {"decode", "decoded"} => Len(decoded) =< room
  /\ pc \in {"decoded", "unrolled_done"} =>
       /\ SubSeq(decoded, 1, N) = array
       /\ StreamBytes(read) = StreamBytes(Len(words))

\* Whatever the mixture of small and large numbers, encoding and decoding
\* come to an end: each word takes at least one more item.
CodecEnds == <>Ended
=============================================================================
