------------------------------- MODULE Erasure --------------------------------
(***************************************************************************)
(* The erasure coding of a serialized sharing (class Erasure): encode pads *)
(* a stream to whole words, cuts it into k data blocks and adds m coding   *)
(* blocks; decode, given the data blocks of one encoding, joins them and   *)
(* cuts the padding off again.                                             *)
(*                                                                         *)
(* jerasure is external.  DrgCore decodes with all k data blocks present   *)
(* and all m coding blocks erased, which jerasure_matrix_decode answers by *)
(* filling the coding blocks' buffers with blocksize bytes each and        *)
(* leaving the data blocks as they are.                                    *)
(*                                                                         *)
(* A byte of the stream is its position, so that no two are alike; a       *)
(* padding byte is another.  Word stands for w * sizeof(long), 64 in the   *)
(* code.                                                                   *)
(***************************************************************************)
EXTENDS Integers, Sequences

CONSTANTS
  Word,       \* bytes of a word group, w * sizeof(long)
  Padding,    \* the byte that fills up, '0' in the code
  MaxK,       \* bound: data blocks
  MaxSize     \* bound: bytes of a stream

ASSUME WordAssumption  == Word \in Nat \ {0}
ASSUME MaxKAssumption  == MaxK \in Nat \ {0}
ASSUME MaxSizeAssumption == MaxSize \in Nat

VARIABLES
  k,          \* number of data blocks
  stream,     \* what was serialized
  chunks,     \* the data blocks, each with the stream's size
  pc,         \* "encode", "decode", "tail", "done"
  i, j,       \* decode's loop: the block, and the bytes up to its end
  out         \* what decode has written

vars == <<k, stream, chunks, pc, i, j, out>>

-----------------------------------------------------------------------------
\* Mutant: a group more than needed when the size is even.
GroupsOneMore(bytes, n) == bytes \div (n * Word) + 1

\* encode rounds a stream up to groups of whole words in all its blocks.
Groups(bytes, n) ==
  LET x == bytes \div (n * Word)
  IN  IF bytes > x * n * Word THEN x + 1 ELSE x

newsize(bytes, n)   == Groups(bytes, n) * n * Word
blocksize(bytes, n) == newsize(bytes, n) \div n

\* decode does so once more, from the size that a chunk carries.
decode_groups(bytes, n) ==
  LET x == bytes \div (n * Word)
  IN  IF bytes > x * n * Word THEN x + 1 ELSE x

decode_blocksize(bytes, n) == (decode_groups(bytes, n) * n * Word) \div n

Padded(s, n) ==
  [p \in 1 .. newsize(Len(s), n) |-> IF p <= Len(s) THEN s[p] ELSE Padding]

encode(s, n) ==
  [b \in 1 .. n |->
     [size |-> Len(s),
      data |-> LET len == blocksize(Len(s), n)
               IN  SubSeq(Padded(s, n), (b - 1) * len + 1, b * len)]]

-----------------------------------------------------------------------------
Init ==
  /\ k \in 1 .. MaxK
  /\ \E bytes \in 0 .. MaxSize : stream = [p \in 1 .. bytes |-> p]
  /\ chunks = <<>>
  /\ pc = "encode"
  /\ i = 0
  /\ j = 0
  /\ out = <<>>

Encode ==
  /\ pc = "encode"
  /\ chunks' = encode(stream, k)
  /\ pc' = "decode"
  /\ UNCHANGED <<k, stream, i, j, out>>

\* decode takes the size from the first chunk.
size == chunks[1].size
block == decode_blocksize(size, k)

\* A round of the loop whose block ends inside the stream.
WholeBlock ==
  /\ pc = "decode"
  /\ i < k
  /\ j + block <= size
  /\ j' = j + block
  /\ out' = out \o chunks[i + 1].data
  /\ i' = i + 1
  /\ UNCHANGED <<k, stream, chunks, pc>>

\* The round that breaks out of the loop: its block reaches beyond the stream.
BreakOut ==
  /\ pc = "decode"
  /\ i < k
  /\ j + block > size
  /\ j' = j + block
  /\ pc' = "tail"
  /\ UNCHANGED <<k, stream, chunks, i, out>>

LoopEnds ==
  /\ pc = "decode"
  /\ i = k
  /\ pc' = "tail"
  /\ UNCHANGED <<k, stream, chunks, i, j, out>>

extra == j - size

\* Mutant: the padding is not cut off.
DecodeTailWhole ==
  /\ pc = "tail"
  /\ out' = IF extra > 0 THEN out \o chunks[i + 1].data ELSE out
  /\ pc' = "done"
  /\ UNCHANGED <<k, stream, chunks, i, j>>

\* The part of the last block that is not padding, if the loop went past it.
DecodeTail ==
  /\ pc = "tail"
  /\ out' = IF extra > 0
              THEN out \o SubSeq(chunks[i + 1].data, 1, block - extra)
              ELSE out
  /\ pc' = "done"
  /\ UNCHANGED <<k, stream, chunks, i, j>>

Next == Encode \/ WholeBlock \/ BreakOut \/ LoopEnds \/ DecodeTail

Spec == Init /\ [][Next]_vars

-----------------------------------------------------------------------------
TypeOK ==
  /\ k \in 1 .. MaxK
  /\ Len(stream) <= MaxSize
  /\ pc \in {"encode", "decode", "tail", "done"}
  /\ i \in 0 .. k
  /\ j \in Nat

\* What decode writes is the stream that was encoded, byte for byte and with
\* nothing of the padding.
RoundTrip == pc = "done" => out = stream

\* While decoding, the output is a prefix of the stream that ends where the
\* blocks joined so far end.
JoinedPrefix ==
  pc = "decode" => /\ j = i * block
                   /\ out = SubSeq(stream, 1, j)

\* decode never takes a block after the last one, nor a negative part of one:
\* bytes are left over only when the loop was left early.
TailInsideBlocks ==
  pc = "tail" /\ extra > 0 => i < k /\ extra <= block

\* Every chunk of one encoding has the length that decode takes it to have, a
\* multiple of Word, and wastes less than a word group per block.
EvenBlocks ==
  pc # "encode" =>
    /\ \A b \in 1 .. k : Len(chunks[b].data) = block
    /\ block % Word = 0
    /\ k * block < size + k * Word
=============================================================================
