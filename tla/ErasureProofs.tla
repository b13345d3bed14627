---------------------------- MODULE ErasureProofs -----------------------------
(***************************************************************************)
(* Theorems of Erasure: for every word size, number of blocks and stream,  *)
(* decode undoes encode.  The invariant says, at each point of decode, how *)
(* much of the stream has been joined; what it needs of a block is that    *)
(* its part inside the stream is the stream's part at its place, and of    *)
(* the sizes that the blocks together hold the stream.                     *)
(***************************************************************************)
EXTENDS Erasure, SequenceTheorems, TLAPS

Bytes == Nat \cup {Padding}

-----------------------------------------------------------------------------
\* Quotient and remainder.
LEMMA Division ==
  ASSUME NEW a \in Nat, NEW b \in Nat \ {0}
  PROVE  /\ a \div b \in Nat
         /\ a % b \in 0 .. b - 1
         /\ a = (a \div b) * b + (a % b)
OBVIOUS

LEMMA Multiple ==
  ASSUME NEW a \in Nat, NEW b \in Nat \ {0}
  PROVE  (a * b) \div b = a /\ (a * b) % b = 0
OBVIOUS

LEMMA ProductMonotonic ==
  ASSUME NEW a \in Nat, NEW b \in Nat, NEW c \in Nat, a <= b
  PROVE  a * c <= b * c
OBVIOUS

LEMMA NextMultiple ==
  ASSUME NEW a \in Nat, NEW c \in Nat
  PROVE  (a + 1) * c = a * c + c /\ a * c \in Nat
OBVIOUS

\* erasure.h:67-73: the blocks are whole word groups, hold the stream, and waste
\* less than a word group each.
LEMMA Sizes ==
  ASSUME NEW bytes \in Nat, NEW n \in Nat \ {0}
  PROVE  /\ blocksize(bytes, n) \in Nat
         /\ blocksize(bytes, n) % Word = 0
         /\ newsize(bytes, n) = n * blocksize(bytes, n)
         /\ bytes <= newsize(bytes, n)
         /\ newsize(bytes, n) < bytes + n * Word
<1> DEFINE row == n * Word
           x == bytes \div row
           g == Groups(bytes, n)
<1>1. n \in Nat /\ Word \in Nat \ {0} /\ row \in Nat \ {0}
  BY WordAssumption
<1> HIDE DEF row
<1>2. x \in Nat /\ bytes % row \in 0 .. row - 1 /\ bytes = x * row + (bytes % row)
  BY <1>1, Division
<1>3. g = IF bytes > x * row THEN x + 1 ELSE x
  <2>1. ASSUME NEW y \in Nat PROVE y * n * Word = y * row
    BY <1>1 DEF row
  <2>2. x * n * Word = x * row
    BY <1>2, <2>1
  <2> QED BY <2>2 DEF Groups, row
<1> HIDE DEF x, g
<1>4. (x + 1) * row = x * row + row /\ x * row \in Nat
  BY <1>1, <1>2, NextMultiple
<1>5. g \in Nat /\ bytes <= g * row /\ g * row < bytes + row
  BY <1>1, <1>2, <1>3, <1>4
<1>6. newsize(bytes, n) = g * row
  BY <1>1, <1>5 DEF newsize, g, row
<1>7. g * row = (g * Word) * n /\ g * Word \in Nat
  BY <1>1, <1>5 DEF row
<1>8. blocksize(bytes, n) = g * Word
  BY <1>1, <1>6, <1>7, Multiple DEF blocksize
<1>9. (g * Word) % Word = 0
  BY <1>1, <1>5, Multiple
<1>10. (g * Word) * n = n * (g * Word)
  BY <1>1, <1>5
<1> QED BY <1>5, <1>6, <1>7, <1>8, <1>9, <1>10 DEF row

\* erasure.h:93: a block has the size of a block and holds the padded stream's bytes
\* at its place.
LEMMA BlockBytes ==
  ASSUME NEW s \in Seq(Bytes), NEW n \in Nat \ {0}, NEW b \in 1 .. n
  PROVE  LET d == encode(s, n)[b].data
             len == blocksize(Len(s), n)
         IN  /\ d \in Seq(Bytes)
             /\ Len(d) = len
             /\ \A q \in 1 .. len :
                  /\ (b - 1) * len + q \in 1 .. newsize(Len(s), n)
                  /\ d[q] = Padded(s, n)[(b - 1) * len + q]
<1> DEFINE d == encode(s, n)[b].data
           len == blocksize(Len(s), n)
           from == (b - 1) * len
           p == Padded(s, n)
<1>1. Len(s) \in Nat /\ \A q \in 1 .. Len(s) : s[q] \in Bytes
  BY LenProperties
<1>2. len \in Nat /\ newsize(Len(s), n) = n * len
  BY <1>1, Sizes
<1>3. d = SubSeq(p, from + 1, b * len)
  BY DEF encode
<1> HIDE DEF d, len, p
<1>4. b \in Nat /\ b - 1 \in Nat /\ n \in Nat
  OBVIOUS
<1>5. from \in Nat /\ b * len = from + len
  BY <1>2, <1>4, NextMultiple
<1>6. b * len <= newsize(Len(s), n)
  BY <1>2, <1>4, ProductMonotonic
<1> HIDE DEF from
<1>7. newsize(Len(s), n) \in Nat
  BY <1>2, <1>4
<1>8. \A q \in 1 .. newsize(Len(s), n) : p[q] \in Bytes
  BY <1>1, <1>7 DEF p, Padded, Bytes
<1>9. \A q \in from + 1 .. from + len : p[q] \in Bytes
  BY <1>2, <1>5, <1>6, <1>7, <1>8
<1>10. d = SubSeq(p, from + 1, from + len)
  BY <1>3, <1>5
<1>11. /\ d \in Seq(Bytes)
       /\ Len(d) = IF from + 1 <= from + len THEN (from + len) - (from + 1) + 1 ELSE 0
       /\ \A q \in 1 .. (from + len) - (from + 1) + 1 : d[q] = p[(from + 1) + q - 1]
  <2>1. from + 1 \in Int /\ from + len \in Int
    BY <1>2, <1>5
  <2> QED BY <2>1, <1>9, <1>10, SubSeqProperties
<1>12. Len(d) = len
  BY <1>2, <1>5, <1>11
<1>13. ASSUME NEW q \in 1 .. len
       PROVE  from + q \in 1 .. newsize(Len(s), n) /\ d[q] = p[from + q]
  <2>1. q \in 1 .. (from + len) - (from + 1) + 1 /\ (from + 1) + q - 1 = from + q
    BY <1>2, <1>5
  <2>2. d[q] = p[from + q]
    BY <2>1, <1>11
  <2>3. from + len <= newsize(Len(s), n)
    BY <1>5, <1>6
  <2>4. from + q \in 1 .. newsize(Len(s), n)
    BY <2>3, <1>2, <1>5, <1>7
  <2> QED BY <2>2, <2>4
<1> QED BY <1>11, <1>12, <1>13 DEF d, len, from, p

\* The part of a block that lies inside the stream is the stream's.
LEMMA BlockPart ==
  ASSUME NEW s \in Seq(Bytes), NEW n \in Nat \ {0}, NEW b \in 1 .. n,
         NEW from, from = (b - 1) * blocksize(Len(s), n),
         NEW r \in 0 .. blocksize(Len(s), n), from + r <= Len(s)
  PROVE  SubSeq(encode(s, n)[b].data, 1, r) = SubSeq(s, from + 1, from + r)
<1> DEFINE d == encode(s, n)[b].data
           len == blocksize(Len(s), n)
           left == SubSeq(d, 1, r)
           right == SubSeq(s, from + 1, from + r)
<1>1. Len(s) \in Nat /\ \A q \in 1 .. Len(s) : s[q] \in Bytes
  BY LenProperties
<1>2. len \in Nat
  BY <1>1, Sizes
<1>3. from \in Nat
  BY <1>2
<1>4. /\ d \in Seq(Bytes)
      /\ Len(d) = len
      /\ \A q \in 1 .. len : /\ from + q \in 1 .. newsize(Len(s), n)
                             /\ d[q] = Padded(s, n)[from + q]
  BY BlockBytes
<1> HIDE DEF d, len
<1>5. \A q \in 1 .. len : d[q] \in Bytes
  <2>1. d \in [1 .. Len(d) -> Bytes]
    BY <1>4, LenProperties
  <2> QED BY <1>4, <2>1
<1>6. r \in Nat /\ r <= len
  BY <1>2 DEF len
<1>7. /\ left \in Seq(Bytes)
      /\ Len(left) = IF 1 <= r THEN r - 1 + 1 ELSE 0
      /\ \A q \in 1 .. r - 1 + 1 : left[q] = d[1 + q - 1]
  <2>1. 1 \in Int /\ r \in Int /\ \A q \in 1 .. r : d[q] \in Bytes
    BY <1>2, <1>5, <1>6
  <2> QED BY <2>1, SubSeqProperties
<1>8. /\ right \in Seq(Bytes)
      /\ Len(right) = IF from + 1 <= from + r THEN (from + r) - (from + 1) + 1 ELSE 0
      /\ \A q \in 1 .. (from + r) - (from + 1) + 1 : right[q] = s[(from + 1) + q - 1]
  <2>1. /\ from + 1 \in Int /\ from + r \in Int
        /\ \A q \in from + 1 .. from + r : s[q] \in Bytes
    BY <1>1, <1>3, <1>6
  <2> QED BY <2>1, SubSeqProperties
<1> HIDE DEF left, right
<1>9. Len(left) = r /\ Len(right) = r
  BY <1>3, <1>6, <1>7, <1>8
<1>10. ASSUME NEW q \in 1 .. r
       PROVE  left[q] = right[q]
  <2>1. /\ q \in 1 .. r - 1 + 1 /\ 1 + q - 1 = q /\ q \in 1 .. len
        /\ q \in 1 .. (from + r) - (from + 1) + 1
        /\ (from + 1) + q - 1 = from + q
        /\ from + q <= Len(s)
    BY <1>1, <1>2, <1>3, <1>6
  <2>2. left[q] = d[q] /\ right[q] = s[from + q]
    BY <2>1, <1>7, <1>8
  <2>3. d[q] = Padded(s, n)[from + q] /\ from + q \in 1 .. newsize(Len(s), n)
    BY <2>1, <1>4
  <2>4. Padded(s, n)[from + q] = s[from + q]
    BY <2>1, <2>3 DEF Padded
  <2> QED BY <2>2, <2>3, <2>4
<1>11. left = right
  BY <1>7, <1>8, <1>9, <1>10, SeqEqual
<1> QED BY <1>11 DEF left, right, d

-----------------------------------------------------------------------------
(***************************************************************************)
(* The inductive invariant.                                                *)
(***************************************************************************)
total == Len(stream)
len   == blocksize(total, k)

\* What has been joined at each point of decode.
JoinedBefore == pc = "encode" => i = 0 /\ j = 0 /\ out = <<>>

JoinedLoop ==
  pc = "decode" => j = i * len /\ j <= total /\ out = SubSeq(stream, 1, j)

JoinedTail ==
  pc = "tail" =>
    \/ j <= total /\ out = stream
    \/ /\ i < k
       /\ j = i * len + len
       /\ i * len <= total
       /\ total < j
       /\ out = SubSeq(stream, 1, i * len)

IInv ==
  /\ TypeOK
  /\ stream \in Seq(Bytes)
  /\ pc # "encode" => chunks = encode(stream, k)
  /\ JoinedBefore
  /\ JoinedLoop
  /\ JoinedTail
  /\ RoundTrip

LEMMA TypeInvariant ==
  ASSUME IInv
  PROVE  /\ k \in Nat \ {0} /\ i \in Nat /\ i <= k /\ j \in Nat
         /\ total \in Nat
         /\ len \in Nat /\ i * len \in Nat
         /\ newsize(total, k) = k * len /\ total <= k * len
<1>1. k \in Nat \ {0} /\ i \in Nat /\ i <= k /\ j \in Nat
  BY MaxKAssumption DEF IInv, TypeOK
<1>2. total \in Nat
  BY LenProperties DEF IInv, total
<1>3. len \in Nat /\ newsize(total, k) = k * len /\ total <= k * len
  BY <1>1, <1>2, Sizes DEF len
<1>4. i * len \in Nat
  BY <1>1, <1>3
<1> QED BY <1>1, <1>2, <1>3, <1>4

\* erasure.h:107-119: decode computes the block size that encode used.
LEMMA DecodeSizes ==
  ASSUME IInv, pc # "encode"
  PROVE  size = total /\ block = len
<1>1. 1 \in 1 .. k
  BY TypeInvariant
<1>2. chunks[1].size = total
  BY <1>1 DEF IInv, encode, total
<1> QED BY <1>2 DEF size, block, len, decode_blocksize, decode_groups, blocksize, newsize, Groups

LEMMA InitInv == Init => IInv
<1> SUFFICES ASSUME Init PROVE IInv
  OBVIOUS
<1>1. PICK bytes \in 0 .. MaxSize : stream = [p \in 1 .. bytes |-> p]
  BY DEF Init
<1>2. bytes \in Nat /\ bytes <= MaxSize
  BY <1>1, MaxSizeAssumption
<1>3. \A p \in 1 .. bytes : p \in Bytes
  BY <1>2 DEF Bytes
<1>4. stream \in Seq(Bytes) /\ Len(stream) = bytes
  BY <1>1, <1>2, <1>3
<1>5. TypeOK
  BY <1>2, <1>4, MaxKAssumption DEF Init, TypeOK
<1> QED
  BY <1>4, <1>5 DEF Init, IInv, JoinedBefore, JoinedLoop, JoinedTail, RoundTrip

\* The whole of a block inside the stream.
LEMMA BlockInside ==
  ASSUME IInv, pc # "encode", i < k, NEW r \in 0 .. len, i * len + r <= total
  PROVE  SubSeq(stream, 1, i * len) \o SubSeq(chunks[i + 1].data, 1, r)
           = SubSeq(stream, 1, i * len + r)
<1>1. i + 1 \in 1 .. k /\ (i + 1) - 1 = i /\ k \in Nat \ {0}
  BY TypeInvariant
<1>2. total \in Nat /\ i * len \in Nat /\ r \in Nat /\ len \in Nat
  BY TypeInvariant
<1>3. i * len = ((i + 1) - 1) * blocksize(Len(stream), k)
  BY <1>1 DEF len, total
<1>4. stream \in Seq(Bytes) /\ chunks = encode(stream, k)
  BY DEF IInv
<1>5. r \in 0 .. blocksize(Len(stream), k) /\ i * len + r <= Len(stream)
  BY DEF len, total
<1>6. SubSeq(encode(stream, k)[i + 1].data, 1, r)
        = SubSeq(stream, i * len + 1, i * len + r)
  BY <1>1, <1>3, <1>4, <1>5, BlockPart
<1> DEFINE at == i * len
<1>7. /\ 1 \in 1 .. Len(stream) + 1
      /\ at \in 1 - 1 .. Len(stream)
      /\ at + r \in at .. Len(stream)
  BY <1>2 DEF total
<1> HIDE DEF at
<1>8. SubSeq(stream, 1, at) \o SubSeq(stream, at + 1, at + r)
        = SubSeq(stream, 1, at + r)
  BY <1>4, <1>7, ConcatAdjacentSubSeq
<1> QED BY <1>4, <1>6, <1>8 DEF at

LEMMA EncodeInv == ASSUME IInv, Encode PROVE IInv'
<1>1. k' = k /\ stream' = stream /\ total' = total /\ len' = len
  BY DEF Encode, total, len
<1>2. pc' = "decode" /\ i' = 0 /\ j' = 0 /\ out' = <<>> /\ chunks' = encode(stream, k)
  BY DEF Encode, IInv, JoinedBefore
<1>3. TypeOK'
  BY <1>1, <1>2, TypeInvariant DEF IInv, TypeOK
<1>4. 0 = 0 * len /\ 0 <= total
  BY TypeInvariant
<1>5. SubSeq(stream, 1, 0) = <<>>
  BY SubSeqEmpty
<1>6. JoinedLoop'
  BY <1>1, <1>2, <1>4, <1>5 DEF JoinedLoop
<1> QED
  BY <1>1, <1>2, <1>3, <1>6 DEF IInv, JoinedBefore, JoinedTail, RoundTrip

LEMMA WholeBlockInv == ASSUME IInv, WholeBlock PROVE IInv'
<1>1. /\ k' = k /\ stream' = stream /\ total' = total /\ len' = len
      /\ pc' = pc /\ pc = "decode" /\ chunks' = chunks
  BY DEF WholeBlock, total, len
<1>2. size = total /\ block = len
  BY <1>1, DecodeSizes
<1>3. j = i * len /\ out = SubSeq(stream, 1, j)
  BY <1>1 DEF IInv, JoinedLoop
<1>4. i < k /\ i' = i + 1 /\ j + len <= total /\ j' = j + len
  BY <1>2 DEF WholeBlock
<1>5. j' = i' * len
  BY <1>3, <1>4, TypeInvariant, NextMultiple
<1>6. out' = SubSeq(stream, 1, j')
  <2>1. out' = SubSeq(stream, 1, i * len) \o chunks[i + 1].data
    BY <1>3 DEF WholeBlock
  <2>2. i + 1 \in 1 .. k /\ k \in Nat \ {0} /\ len \in 0 .. len
    BY <1>4, TypeInvariant
  <2>3. stream \in Seq(Bytes) /\ chunks = encode(stream, k)
    BY <1>1 DEF IInv
  <2>4. chunks[i + 1].data \in Seq(Bytes) /\ Len(chunks[i + 1].data) = len
    BY <2>2, <2>3, BlockBytes DEF len, total
  <2>5. SubSeq(chunks[i + 1].data, 1, len) = chunks[i + 1].data
    BY <2>4, SubSeqFull
  <2>6. i * len + len <= total
    BY <1>3, <1>4
  <2>7. SubSeq(stream, 1, i * len) \o SubSeq(chunks[i + 1].data, 1, len)
          = SubSeq(stream, 1, i * len + len)
    BY <1>1, <1>4, <2>2, <2>6, BlockInside
  <2> QED BY <1>3, <1>4, <2>1, <2>5, <2>7
<1>7. TypeOK'
  BY <1>1, <1>4, TypeInvariant DEF IInv, TypeOK
<1>8. JoinedLoop'
  BY <1>1, <1>4, <1>5, <1>6 DEF JoinedLoop
<1> QED
  BY <1>1, <1>7, <1>8 DEF IInv, JoinedBefore, JoinedTail, RoundTrip

LEMMA BreakOutInv == ASSUME IInv, BreakOut PROVE IInv'
<1>1. /\ k' = k /\ stream' = stream /\ total' = total /\ len' = len
      /\ chunks' = chunks /\ i' = i /\ out' = out
      /\ pc = "decode" /\ pc' = "tail"
  BY DEF BreakOut, total, len
<1>2. size = total /\ block = len
  BY <1>1, DecodeSizes
<1>3. j = i * len /\ j <= total /\ out = SubSeq(stream, 1, j)
  BY <1>1 DEF IInv, JoinedLoop
<1>4. i < k /\ j' = j + len /\ total < j'
  BY <1>2, TypeInvariant DEF BreakOut
<1>5. TypeOK'
  BY <1>1, <1>4, TypeInvariant DEF IInv, TypeOK
<1>6. JoinedTail'
  BY <1>1, <1>3, <1>4 DEF JoinedTail
<1> QED
  BY <1>1, <1>5, <1>6 DEF IInv, JoinedBefore, JoinedLoop, RoundTrip

LEMMA LoopEndsInv == ASSUME IInv, LoopEnds PROVE IInv'
<1>1. /\ k' = k /\ stream' = stream /\ total' = total /\ len' = len
      /\ chunks' = chunks /\ i' = i /\ j' = j /\ out' = out
      /\ pc = "decode" /\ pc' = "tail" /\ i = k
  BY DEF LoopEnds, total, len
<1>2. j = i * len /\ j <= total /\ out = SubSeq(stream, 1, j)
  BY <1>1 DEF IInv, JoinedLoop
<1>3. j = total
  <2>1. j = k * len
    BY <1>1, <1>2
  <2> HIDE DEF len
  <2> QED BY <2>1, <1>2, TypeInvariant
<1>4. out = stream
  BY <1>2, <1>3, SubSeqFull DEF IInv, total
<1>5. TypeOK'
  BY <1>1, TypeInvariant DEF IInv, TypeOK
<1>6. JoinedTail'
  BY <1>1, <1>2, <1>4 DEF JoinedTail
<1> QED
  BY <1>1, <1>5, <1>6 DEF IInv, JoinedBefore, JoinedLoop, RoundTrip

LEMMA DecodeTailInv == ASSUME IInv, DecodeTail PROVE IInv'
<1>1. /\ k' = k /\ stream' = stream /\ total' = total /\ len' = len
      /\ chunks' = chunks /\ i' = i /\ j' = j
      /\ pc = "tail" /\ pc' = "done"
  BY DEF DecodeTail, total, len
<1>2. size = total /\ block = len
  BY <1>1, DecodeSizes
<1>3. out' = stream
  <2>1. CASE j <= total /\ out = stream
    <3>1. ~ (extra > 0)
      BY <1>2, <2>1, TypeInvariant DEF extra
    <3> QED BY <2>1, <3>1 DEF DecodeTail
  <2>2. CASE /\ i < k /\ j = i * len + len /\ i * len <= total /\ total < j
             /\ out = SubSeq(stream, 1, i * len)
    <3> DEFINE at == i * len
               r == total - at
    <3>1. at \in Nat /\ len \in Nat /\ total \in Nat /\ j \in Nat
      BY TypeInvariant
    <3>2. j = at + len /\ at <= total /\ total < j
      BY <2>2
    <3> HIDE DEF at
    <3>3. extra > 0 /\ block - extra = r /\ r \in 0 .. len /\ at + r = total
      BY <1>2, <3>1, <3>2 DEF extra
    <3>4. out' = SubSeq(stream, 1, at) \o SubSeq(chunks[i + 1].data, 1, r)
      BY <2>2, <3>3 DEF DecodeTail, at
    <3>5. at + r <= total
      BY <3>1, <3>3
    <3> HIDE DEF r
    <3>6. SubSeq(stream, 1, at) \o SubSeq(chunks[i + 1].data, 1, r)
            = SubSeq(stream, 1, at + r)
      BY <1>1, <2>2, <3>3, <3>5, BlockInside DEF at
    <3>7. SubSeq(stream, 1, total) = stream
      BY SubSeqFull DEF IInv, total
    <3> QED BY <3>3, <3>4, <3>6, <3>7
  <2> QED BY <1>1, <2>1, <2>2 DEF IInv, JoinedTail
<1>4. TypeOK'
  BY <1>1, TypeInvariant DEF IInv, TypeOK
<1> QED
  BY <1>1, <1>3, <1>4 DEF IInv, JoinedBefore, JoinedLoop, JoinedTail, RoundTrip

LEMMA Inductive == Spec => []IInv
<1>1. IInv /\ [Next]_vars => IInv'
  <2> SUFFICES ASSUME IInv, [Next]_vars PROVE IInv'
    OBVIOUS
  <2>1. CASE Encode       BY <2>1, EncodeInv
  <2>2. CASE WholeBlock   BY <2>2, WholeBlockInv
  <2>3. CASE BreakOut     BY <2>3, BreakOutInv
  <2>4. CASE LoopEnds     BY <2>4, LoopEndsInv
  <2>5. CASE DecodeTail   BY <2>5, DecodeTailInv
  <2>6. CASE UNCHANGED vars
    BY <2>6 DEF vars, IInv, TypeOK, JoinedBefore, JoinedLoop, JoinedTail, RoundTrip,
                total, len
  <2> QED BY <2>1, <2>2, <2>3, <2>4, <2>5, <2>6 DEF Next
<1> QED BY <1>1, InitInv, PTL DEF Spec

-----------------------------------------------------------------------------
\* erasure.h:58-151: the variables keep their types for streams of any length.
THEOREM TypeCorrect == Spec => []TypeOK
BY Inductive, PTL DEF IInv

\* erasure.h:107-151: for every word size, number of blocks and stream, decode
\* gives back what was encoded.
THEOREM DecodeUndoesEncode == Spec => []RoundTrip
BY Inductive, PTL DEF IInv

\* erasure.h:141-146: the loop joins a prefix of the stream that ends at a block.
THEOREM JoinsPrefix == Spec => []JoinedPrefix
<1>1. IInv => JoinedPrefix
  BY DecodeSizes DEF IInv, JoinedLoop, JoinedPrefix
<1> QED BY <1>1, Inductive, PTL

\* erasure.h:148-151: bytes are left over only of a block that exists, and not more
\* than it has.
THEOREM TailExists == Spec => []TailInsideBlocks
<1>1. ASSUME IInv, pc = "tail", extra > 0
      PROVE  i < k /\ extra <= block
  <2>1. size = total /\ block = len
    BY <1>1, DecodeSizes
  <2>2. /\ i * len \in Nat /\ len \in Nat /\ total \in Nat /\ j \in Nat
    BY <1>1, TypeInvariant
  <2>3. ~ (j <= total)
    BY <1>1, <2>1, <2>2 DEF extra
  <2>4. i < k /\ j = i * len + len /\ i * len <= total
    BY <1>1, <2>3 DEF IInv, JoinedTail
  <2> QED BY <2>1, <2>2, <2>4 DEF extra
<1>2. IInv => TailInsideBlocks
  BY <1>1 DEF TailInsideBlocks
<1> QED BY <1>2, Inductive, PTL

\* erasure.h:67-73, 93: the blocks of an encoding are equally long, whole word
\* groups, and waste less than a group each.
THEOREM BlocksEven == Spec => []EvenBlocks
<1>1. ASSUME IInv, pc # "encode"
      PROVE  /\ \A b \in 1 .. k : Len(chunks[b].data) = block
             /\ block % Word = 0
             /\ k * block < size + k * Word
  <2>1. size = total /\ block = len /\ k \in Nat \ {0} /\ total \in Nat
    BY <1>1, DecodeSizes, TypeInvariant
  <2>2. stream \in Seq(Bytes) /\ chunks = encode(stream, k)
    BY <1>1 DEF IInv
  <2>3. \A b \in 1 .. k : Len(chunks[b].data) = len
    BY <2>1, <2>2, BlockBytes DEF len, total
  <2>4. len % Word = 0 /\ newsize(total, k) = k * len /\ newsize(total, k) < total + k * Word
    BY <2>1, Sizes DEF len
  <2> QED BY <2>1, <2>3, <2>4
<1>2. IInv => EvenBlocks
  BY <1>1 DEF EvenBlocks
<1> QED BY <1>2, Inductive, PTL

=============================================================================
