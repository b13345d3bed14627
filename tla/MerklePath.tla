------------------------------ MODULE MerklePath ------------------------------
(***************************************************************************)
(* A path from a leaf of a Merkle tree to its root as an object of its own *)
(* (class PathT of merklecpp.h): taken from a tree, written and read, and  *)
(* verified against a root.  The tree is the log of its leaves (MerkleLog);*)
(* MerkleTree checks that a tree's paths are the log's, ChunkWire that a   *)
(* path verifies after it was written, sent and read.                      *)
(***************************************************************************)
EXTENDS ByteStreams

Tree == INSTANCE MerkleLog
  WITH Leaves <- {}, log <- <<>>, first <- 0, kept <- <<>>, rootHash <- <<>>

\* The path of the i-th leaf (from 0) in a tree with the leaves s.
extract(s, i) ==
  [leaf |-> s[i + 1], leaf_index |-> i, max_index |-> Len(s) - 1,
   elements |-> Tree!PathOf(s, i)]

Join(h, e) == IF e.left THEN Tree!H(e.hash, h) ELSE Tree!H(h, e.hash)

\* The root at the end of the path.
root(p) ==
  LET hash[n \in 0 .. Len(p.elements)] ==
        IF n = 0 THEN p.leaf ELSE Join(hash[n - 1], p.elements[n])
  IN  hash[Len(p.elements)]

verify(p, expected_root) == root(p) = expected_root

serialise(p) ==
  HashBytes(p.leaf) \o BigEndian(p.leaf_index) \o BigEndian(p.max_index)
  \o BigEndian(Len(p.elements))
  \o FlattenSeq([i \in 1 .. Len(p.elements) |->
       Append(HashBytes(p.elements[i].hash),
              Digit(IF p.elements[i].left THEN 1 ELSE 0))])

\* The path that these bytes begin with.
deserialise(bytes) ==
  LET n    == FromBigEndian(Take(bytes, HashSize + 2 * IntSize, IntSize))
      body == HashSize + 3 * IntSize
      Start(i) == body + (i - 1) * (HashSize + 1)
  IN  [leaf       |-> HashFrom(Take(bytes, 0, HashSize)),
       leaf_index |-> FromBigEndian(Take(bytes, HashSize, IntSize)),
       max_index  |-> FromBigEndian(Take(bytes, HashSize + IntSize, IntSize)),
       elements   |-> [i \in 1 .. n |->
          [hash |-> HashFrom(Take(bytes, Start(i), HashSize)),
           left |-> bytes[Start(i) + HashSize + 1].part # 0]]]
=============================================================================
