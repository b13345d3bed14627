------------------------------- MODULE Lottery --------------------------------
(***************************************************************************)
(* Whether a replica may deal (DrgCore::vrf): on each MsgStart a new key   *)
(* is drawn, the VRF of the process's random bytes under it is computed,   *)
(* and its output is compared with the difficulty, byte by byte from the   *)
(* first, as long as no byte is greater.                                   *)
(*                                                                         *)
(* The VRF is external: its output may be any bytes.  The code's output    *)
(* has 64 bytes of 256 values, of which the difficulty's first is half.    *)
(***************************************************************************)
EXTENDS Integers

CONSTANTS
  VrfByte,    \* values of a byte
  len         \* bytes of an output

ASSUME VrfByteAssumption == VrfByte \in Nat \ {0, 1}
ASSUME LenAssumption  == len \in Nat \ {0}

VARIABLES
  hash,       \* the output at hand
  i,          \* the byte compared next, from 1
  outcome     \* of the comparison: open while it goes on, then deal or none

lotteryVars == <<hash, i, outcome>>

Outputs == [1 .. len -> 0 .. VrfByte - 1]

difficulty == [k \in 1 .. len |-> IF k = 1 THEN VrfByte \div 2 ELSE 0]

-----------------------------------------------------------------------------
vrf_hash == hash' \in Outputs /\ i' = 1 /\ outcome' = "open"

Init == hash \in Outputs /\ i = 1 /\ outcome = "open"

\* Another MsgStart.
on_receive_start == outcome # "open" /\ vrf_hash

\* Mutant: a byte that is less decides.
CompareAsNumber ==
  /\ outcome = "open"
  /\ i' = i + 1
  /\ outcome' = IF hash[i] > difficulty[i] THEN "none"
                ELSE IF hash[i] < difficulty[i] \/ i = len THEN "deal"
                ELSE "open"
  /\ UNCHANGED hash

\* One round of the loop of unsigned_char_compare.
Compare ==
  /\ outcome = "open"
  /\ i' = i + 1
  /\ outcome' = IF hash[i] > difficulty[i] THEN "none"
                ELSE IF i = len THEN "deal"
                ELSE "open"
  /\ UNCHANGED hash

LotteryNext == Compare \/ on_receive_start

LotterySpec == Init /\ [][LotteryNext]_lotteryVars

-----------------------------------------------------------------------------
TypeOK ==
  hash \in Outputs /\ i \in 1 .. len + 1 /\ outcome \in {"open", "deal", "none"}

\* The comparison is not that of two numbers: a deal takes an output of all zeros
\* behind its first byte.  Of VrfByte ^ len outputs half of VrfByte and one deal, 129 of
\* 256 ^ 64 in the code, while half of all outputs are below the difficulty.
DealsEndInZeros ==
  outcome # "open" =>
    (outcome = "deal" <=> /\ hash[1] <= VrfByte \div 2
                          /\ \A k \in 2 .. len : hash[k] = 0)
=============================================================================
