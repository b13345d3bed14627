----------------------------- MODULE ByteStreams ------------------------------
(***************************************************************************)
(* Bytes, and the numbers and hashes written with them.  A byte is either  *)
(* a digit of a number or the part-th byte of a hash; a reader that is out *)
(* of step reads a digit from a hash, or a hash from digits, and goes on.  *)
(* Widths and the base are smaller than the code's 8 or 4 bytes, 256 and   *)
(* 32.                                                                     *)
(***************************************************************************)
EXTENDS SequencesExt, Integers

CONSTANTS
  Base,       \* values of a byte
  IntSize,    \* bytes of a number
  HashSize    \* bytes of a hash

ASSUME WidthAssumption ==
  Base \in Nat \ {0, 1} /\ IntSize \in Nat \ {0} /\ HashSize \in Nat \ {0}

\* The numbers that can be written are those below.
Limit ==
  LET power[i \in 0 .. IntSize] == IF i = 0 THEN 1 ELSE Base * power[i - 1]
  IN  power[IntSize]

Digit(d) == [of |-> <<>>, part |-> d]

\* merklecpp.h writes the most significant byte first, a DataStream the least.
BigEndian(n) ==
  LET rest[i \in 0 .. IntSize - 1] == IF i = 0 THEN n ELSE rest[i - 1] \div Base
  IN  [i \in 1 .. IntSize |-> Digit(rest[IntSize - i] % Base)]
LittleEndian(n) == Reverse(BigEndian(n))

FromBigEndian(bytes) ==
  LET value[i \in 0 .. Len(bytes)] ==
        IF i = 0 THEN 0 ELSE value[i - 1] * Base + bytes[i].part
  IN  value[Len(bytes)]
FromLittleEndian(bytes) == FromBigEndian(Reverse(bytes))

HashBytes(h) == [i \in 1 .. HashSize |-> [of |-> h, part |-> i]]

\* The hash whose bytes these are; out of step, one that nothing hashes to.
HashFrom(bytes) ==
  IF bytes = HashBytes(bytes[1].of) THEN bytes[1].of ELSE << <<>>, <<>> >>

\* n bytes after the first at of them.
Take(bytes, at, n) == SubSeq(bytes, at + 1, at + n)
=============================================================================
