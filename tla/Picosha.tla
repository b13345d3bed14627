------------------------------- MODULE Picosha --------------------------------
(***************************************************************************)
(* The hash of a challenge (picosha2, class hash256_one_by_one): bytes are *)
(* buffered until they fill a block, their number is counted in digits     *)
(* with carries, and finish pads the last block or two.  What is checked   *)
(* is which blocks are compressed; the compression of a block is left out. *)
(*                                                                         *)
(* The code's block has 64 bytes, a byte 256 values, and the length is     *)
(* four digits of two bytes each.  Here a byte has fewer values and a      *)
(* block fewer bytes; the length still has four digits of two bytes.       *)
(***************************************************************************)
EXTENDS Sequences, Integers

CONSTANTS
  Byte,         \* values of a byte
  Block,        \* bytes of a block
  CallSizes,    \* bound: how many bytes one call processes
  MaxLength     \* bound: bytes of a message

ASSUME ShaAssumption ==
  /\ Byte \in Nat \ {0} /\ (Byte * Byte) % 8 = 0
  /\ Block \in Nat /\ Block > 8
  /\ CallSizes \subseteq Nat /\ MaxLength \in Nat

VARIABLES
  message,              \* history: the bytes processed since init
  buffer_,              \* bytes of an unfinished block
  data_length_digits_,  \* the number of bytes, least digit first
  blocks,               \* history: the blocks compressed since init
  finished              \* whether the hash can be read

shaVars == <<message, buffer_, data_length_digits_, blocks, finished>>

Digit  == Byte * Byte
marker == -1
zero   == 0

\* The k-th byte of a message, different from every byte of a padding.
MessageByte(k) == Byte + k

-----------------------------------------------------------------------------
\* Each digit passes on what exceeds it; what the last one passes on is lost.
add_to_data_length(digits, n) ==
  LET carry[k \in 1 .. 5] ==
        IF k = 1 THEN n ELSE (digits[k - 1] + carry[k - 1]) \div Digit
  IN  [k \in 1 .. 4 |-> (digits[k] + carry[k]) % Digit]

\* Eight times the length, each digit shifted by three places and or-ed with those
\* that were shifted out of the one below; the greatest digit first, in two bytes.
write_data_bit_length(digits) ==
  LET carry(k) == IF k = 1 THEN 0 ELSE digits[k - 1] \div (Digit \div 8)
      bits(k)  == ((digits[k] * 8) % Digit) + carry(k)
  IN  [b \in 1 .. 8 |-> IF b % 2 = 1 THEN bits((9 - b) \div 2) \div Byte
                                     ELSE bits((10 - b) \div 2) % Byte]

\* Whole blocks are compressed, the rest waits.
Whole(bytes) == Len(bytes) \div Block
Cut(bytes)   == [b \in 1 .. Whole(bytes) |-> SubSeq(bytes, (b - 1) * Block + 1, b * Block)]

Rest(bytes) == SubSeq(bytes, Whole(bytes) * Block + 1, Len(bytes))

Zeros(n) == [k \in 1 .. n |-> zero]

\* Mutant: the marker may take the first byte of the length.
last_blocks_tight(buffer, length) ==
  LET remains == Len(buffer)
      marked  == Append(buffer, marker)
  IN  IF remains > Block - 8
        THEN <<marked \o Zeros(Block - remains - 1), Zeros(Block - 8) \o length>>
        ELSE <<SubSeq(marked \o Zeros(Block - remains - 1), 1, Block - 8) \o length>>

\* One block more if the marker leaves no place for the length.
last_blocks(buffer, length) ==
  LET remains == Len(buffer)
      marked  == Append(buffer, marker)
  IN  IF remains > Block - 9
        THEN <<marked \o Zeros(Block - remains - 1), Zeros(Block - 8) \o length>>
        ELSE <<marked \o Zeros(Block - 8 - remains - 1) \o length>>

-----------------------------------------------------------------------------
init ==
  /\ message = <<>>
  /\ buffer_ = <<>>
  /\ data_length_digits_ = <<0, 0, 0, 0>>
  /\ blocks = <<>>
  /\ finished = FALSE

process(n) ==
  /\ ~ finished
  /\ Len(message) + n <= MaxLength
  /\ LET bytes == [k \in 1 .. n |-> MessageByte(Len(message) + k)]
     IN  /\ message' = message \o bytes
         /\ data_length_digits_' = add_to_data_length(data_length_digits_, n)
         /\ blocks' = blocks \o Cut(buffer_ \o bytes)
         /\ buffer_' = Rest(buffer_ \o bytes)
  /\ UNCHANGED finished

finish ==
  /\ ~ finished
  /\ blocks' = blocks \o last_blocks(buffer_, write_data_bit_length(data_length_digits_))
  /\ finished' = TRUE
  /\ UNCHANGED <<message, buffer_, data_length_digits_>>

\* The hash is read; the next one starts with init, which the constructor calls.
again ==
  /\ finished
  /\ message' = <<>>
  /\ buffer_' = <<>>
  /\ data_length_digits_' = <<0, 0, 0, 0>>
  /\ blocks' = <<>>
  /\ finished' = FALSE

ShaNext == finish \/ again \/ \E n \in CallSizes : process(n)

ShaSpec == init /\ [][ShaNext]_shaVars

-----------------------------------------------------------------------------
\* Reference: the padding that SHA-256 prescribes, of the whole message at once.
BigEndian(n) ==
  LET rest[k \in 1 .. 8] == IF k = 8 THEN n ELSE rest[k + 1] \div Byte
  IN  [k \in 1 .. 8 |-> rest[k] % Byte]
Padded(bytes) ==
  LET used  == Len(bytes) + 9
      zeros == (Block - (used % Block)) % Block
  IN  Append(bytes, marker) \o Zeros(zeros) \o BigEndian(8 * Len(bytes))

\* However a message is split into calls, empty ones and ones of several blocks
\* included, the blocks compressed are those of the padded message, in order:
\* at every length around a block's end and at every carry of the length.
BlocksOfThePaddedMessage ==
  finished =>
    /\ Len(Padded(message)) = Len(blocks) * Block
    /\ \A b \in DOMAIN blocks :
         blocks[b] = SubSeq(Padded(message), (b - 1) * Block + 1, b * Block)
=============================================================================
