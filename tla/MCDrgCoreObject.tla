--------------------------- MODULE MCDrgCoreObject ---------------------------
(* Instances of DrgCoreObject for TLC. *)
EXTENDS DrgCoreObject

MCChunk(d, i, g, ok) ==
  [replicaID |-> d, idx |-> i, round |-> 0, gen |-> g, verifies |-> ok]

\* Every chunk of dealer 0 and two more of another sharing of it, three chunks
\* of dealer 1, and one of dealer 1 whose proof is rejected.
MCInChunks ==
  {MCChunk(0, i, 1, TRUE) : i \in ReplicaID}
    \cup {MCChunk(0, i, 2, TRUE) : i \in FirstIds}
    \cup {MCChunk(1, i, 1, TRUE) : i \in 0 .. 2}
    \cup {MCChunk(1, 0, 1, FALSE)}

\* One sharing of each of the first dealers, for larger configurations.
MCOneSharing == {MCChunk(d, i, 1, TRUE) : d \in FirstIds, i \in ReplicaID}
=============================================================================
