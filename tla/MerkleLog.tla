------------------------------- MODULE MerkleLog ------------------------------
(***************************************************************************)
(* What a Merkle tree promises (class TreeT of merklecpp.h), without nodes *)
(* or pointers: a log of leaf hashes that grows at its end, can be cut     *)
(* back to an earlier length, and forgets leaves from its front.  The root *)
(* hash is a function of the whole log, forgotten leaves included; the     *)
(* leaves themselves can be read only from first on.                       *)
(*                                                                         *)
(* Hashing is injective: the hash of two hashes is their pair, the hash of *)
(* a leaf a sequence of one number, and a hash of zeros is empty.          *)
(***************************************************************************)
EXTENDS Integers, Sequences

CONSTANT Leaves     \* the leaf hashes that may be inserted

VARIABLES
  log,              \* every leaf, in order of insertion
  first,            \* index of the first leaf not forgotten
  kept,             \* the leaves that can be read
  rootHash          \* the hash of the log, zeros when it is empty

vars == <<log, first, kept, rootHash>>

ZeroHash   == <<>>
H(l, r)    == <<l, r>>

\* Only a power of two has no odd divisor but 1.
PowerOfTwo(p) == \A d \in 2 .. p : p % d = 0 => d % 2 = 0

\* The greatest power of two that is less than n.
Split(n) == CHOOSE p \in 1 .. n - 1 : n <= 2 * p /\ PowerOfTwo(p)

\* Nodes(s)[n][i] is the hash of n leaves of s, those behind the first i.
Nodes(s) ==
  LET hash[n \in 1 .. Len(s)] ==
        [i \in Nat |-> IF n = 1 THEN s[i + 1]
                       ELSE H(hash[Split(n)][i], hash[n - Split(n)][i + Split(n)])]
  IN  hash

RootOf(s) == IF s = <<>> THEN ZeroHash ELSE Nodes(s)[Len(s)][0]

\* The hashes that the i-th leaf (from 0) joins with on its way to the root.
PathOf(s, i) ==
  LET path[n \in 1 .. Len(s)] ==
        [j \in Nat |->
           IF n = 1 THEN <<>>
           ELSE IF i < j + Split(n)
             THEN Append(path[Split(n)][j],
                         [hash |-> Nodes(s)[n - Split(n)][j + Split(n)], left |-> FALSE])
             ELSE Append(path[n - Split(n)][j + Split(n)],
                         [hash |-> Nodes(s)[Split(n)][j], left |-> TRUE])]
  IN  path[Len(s)][0]

Becomes(l, f) ==
  /\ log' = l
  /\ first' = f
  /\ kept' = SubSeq(l, f + 1, Len(l))
  /\ rootHash' = RootOf(l)

Init == log = <<>> /\ first = 0 /\ kept = <<>> /\ rootHash = ZeroHash

\* The log gets longer at its end.
Extend ==
  /\ log' \in Seq(Leaves)
  /\ Len(log') > Len(log)
  /\ SubSeq(log', 1, Len(log)) = log
  /\ Becomes(log', first)

Last(l) == Len(l) - 1

\* Forget from the front, cut back the end, or both.
Trim ==
  \E f, t \in first .. Last(log) : f <= t /\ Becomes(SubSeq(log, 1, t + 1), f)

Next == Extend \/ Trim

Spec == Init /\ [][Next]_vars
=============================================================================
