------------------------------- MODULE ChunkWire ------------------------------
(***************************************************************************)
(* The bytes of a chunk message, from the dealer's sharing to the sharing  *)
(* that a receiver reads out of the decoder: deliver_chunk prefixes the    *)
(* serialized sharing with its length, cuts it (Erasure), builds the       *)
(* Merkle tree over the blocks and frames each block with its proof        *)
(* (ShareChunk, Chunk); a receiver takes the message apart, verifies the   *)
(* proof, relays the message and, at the threshold, decodes.               *)
(*                                                                         *)
(* DrgCore has the same handler with abstract chunks and all that follows  *)
(* a decoding; here the lengths are real, so that it can be seen what is   *)
(* read and which buffers are filled.  The messages are handed to one      *)
(* object in any order, the dealer's own chunk included, as its interface  *)
(* allows.                                                                 *)
(***************************************************************************)
EXTENDS MerklePath, FiniteSets

CONSTANTS
  N,          \* nreplicas
  K,          \* nreconthres
  Word,       \* as in Erasure
  Lengths,    \* bound: lengths that a serialized sharing may have
  DealerIds   \* bound: the dealers

ASSUME ThresholdAssumption ==
  N \in Nat /\ K \in 1 .. N /\ DealerIds \subseteq 0 .. N - 1 /\ Lengths \subseteq Nat
\* A block has the bytes of a hash: 64 and 32 in the code.
ASSUME BlockAssumption == Word \in Nat \ {0} /\ HashSize <= Word

VARIABLES
  sharing,            \* the serialized sharing of each dealer
  sent,               \* messages made by dealers or relayed
  sharechunk_matrix,  \* per dealer, the chunks kept
  sharing_map,        \* per dealer, the bytes that a sharing was parsed from
  handled,            \* history: origin and index of the messages handled
  buffers,            \* history: of each decoding, how long the coding buffers
                      \* were and how much of them was filled
  running             \* FALSE after a null chunk or a write past a buffer

vars == <<sharing, sent, sharechunk_matrix, sharing_map, handled, buffers, running>>

E == INSTANCE Erasure
  WITH MaxK <- N, MaxSize <- 0, Padding <- Digit(0), k <- K, stream <- <<>>, chunks <- <<>>,
       pc <- "", i <- 0, j <- 0, out <- <<>>

\* Every index and length that is written can be written: in the code, below
\* 2 ^ 31.  A path has fewer elements than the tree has leaves.
ASSUME LimitAssumption ==
  /\ N < Limit
  /\ \A len \in Lengths : E!newsize(IntSize + len, K) < Limit
  /\ HashSize + 3 * IntSize + N * (HashSize + 1) < Limit

-----------------------------------------------------------------------------
\* The dealer.

\* A coding block is some bytes of its own, as long as the data blocks.
Blocks(bytes, d) ==
  LET data == E!encode(LittleEndian(Len(bytes)) \o bytes, K)
  IN  [b \in 1 .. N |->
         IF b <= K THEN data[b]
         ELSE [data[1] EXCEPT !.data =
                 [p \in DOMAIN @ |-> [of |-> <<d, b, 0>>, part |-> p]]]]

\* A chunk's data is converted to a hash: its first HashSize bytes.
LeafOf(chunk) == << Take(chunk.data, 0, HashSize) >>

\* ShareChunk::serialize and Chunk::serialize.
Framed(m) ==
  LittleEndian(m.replicaID) \o LittleEndian(m.idx) \o LittleEndian(m.round)
  \o HashBytes(m.merkle_root)
  \o LittleEndian(Len(m.merkle_proof)) \o m.merkle_proof
  \o LittleEndian(m.chunk.size) \o LittleEndian(Len(m.chunk.data)) \o m.chunk.data

\* Mutant: the last block is left out of the tree.
deliver_chunk_but_last(d) ==
  LET blocks == Blocks(sharing[d], d)
      leaves == [b \in 1 .. N |-> LeafOf(blocks[b])]
  IN  {Framed([replicaID |-> d, idx |-> i, round |-> 0,
               merkle_root |-> Tree!RootOf(Front(leaves)),
               merkle_proof |-> serialise(extract(leaves, i)),
               chunk |-> blocks[i + 1]]) : i \in 0 .. N - 1}

deliver_chunk(d) ==
  LET blocks == Blocks(sharing[d], d)
      leaves == [b \in 1 .. N |-> LeafOf(blocks[b])]
  IN  {Framed([replicaID |-> d, idx |-> i, round |-> 0,
               merkle_root |-> Tree!RootOf(leaves),
               merkle_proof |-> serialise(extract(leaves, i)),
               chunk |-> blocks[i + 1]]) : i \in 0 .. N - 1}

-----------------------------------------------------------------------------
\* Mutant: the size of a chunk is read from the length of its bytes.
UnframedSize(s) ==
  LET Number(at)  == FromLittleEndian(Take(s, at, IntSize))
      rootAt   == 3 * IntSize
      proofAt  == rootAt + HashSize + IntSize
      proofLen == Number(proofAt - IntSize)
      chunkAt  == proofAt + proofLen
  IN  [replicaID    |-> Number(0),
       idx          |-> Number(IntSize),
       round        |-> Number(2 * IntSize),
       merkle_root  |-> HashFrom(Take(s, rootAt, HashSize)),
       merkle_proof |-> Take(s, proofAt, proofLen),
       chunk |-> [size |-> Number(chunkAt + IntSize),
                  data |-> Take(s, chunkAt + 2 * IntSize, Number(chunkAt + IntSize))]]

\* ShareChunk::unserialize and Chunk::unserialize.
Unframed(s) ==
  LET Number(at)  == FromLittleEndian(Take(s, at, IntSize))
      rootAt   == 3 * IntSize
      proofAt  == rootAt + HashSize + IntSize
      proofLen == Number(proofAt - IntSize)
      chunkAt  == proofAt + proofLen
  IN  [replicaID    |-> Number(0),
       idx          |-> Number(IntSize),
       round        |-> Number(2 * IntSize),
       merkle_root  |-> HashFrom(Take(s, rootAt, HashSize)),
       merkle_proof |-> Take(s, proofAt, proofLen),
       chunk |-> [size |-> Number(chunkAt),
                  data |-> Take(s, chunkAt + 2 * IntSize, Number(chunkAt + IntSize))]]

Proven(m) ==
  verify(deserialise(m.merkle_proof), m.merkle_root)

\* What decode writes when the data blocks are there: as many whole blocks as
\* the size of the first one says, and a part of the next.
Decoded(row) ==
  LET size == row[0].size
      len  == E!decode_blocksize(size, K)
  IN  Take(FlattenSeq([b \in 1 .. K |-> Take(row[b - 1].data, 0, len)]), 0, size)

\* Mutant: the bytes are taken from where n is.
ExtraAtFront(d) == Take(d, 0, FromLittleEndian(Take(d, 0, IntSize)))

\* n is read in front, and so many bytes after it.
Extra(d) == Take(d, IntSize, FromLittleEndian(Take(d, 0, IntSize)))

-----------------------------------------------------------------------------
Init ==
  /\ \E len \in [DealerIds -> Lengths] :
       sharing = [d \in DealerIds |->
                    [p \in 1 .. len[d] |-> [of |-> <<d>>, part |-> p]]]
  /\ sent = UNION {deliver_chunk(d) : d \in DealerIds}
  /\ sharechunk_matrix = [d \in 0 .. N - 1 |-> <<>>]
  /\ sharing_map = <<>>
  /\ handled = {}
  /\ buffers = {}
  /\ running = TRUE

\* A map after map[x] = y.
Put(map, x, y) == [q \in DOMAIN map \cup {x} |-> IF q = x THEN y ELSE map[q]]

\* The chunk is kept if its index is new and its proof holds; a message with a
\* new index is relayed.
Kept(m) ==
  LET row == sharechunk_matrix[m.replicaID]
  IN  IF m.idx \notin DOMAIN row /\ Proven(m) THEN Put(row, m.idx, m.chunk) ELSE row

Ignored(m) == Cardinality(DOMAIN sharechunk_matrix[m.replicaID]) > K
AtThreshold(m) == Cardinality(DOMAIN Kept(m)) = K

Store(m) ==
  /\ sharechunk_matrix' = [sharechunk_matrix EXCEPT ![m.replicaID] = Kept(m)]
  /\ handled' = handled \cup {<<m.replicaID, m.idx>>}
  /\ sent' = IF m.idx \in DOMAIN sharechunk_matrix[m.replicaID]
               THEN sent ELSE sent \cup {Framed(m)}
  /\ UNCHANGED sharing

\* Decoding reads the row of the message's round, which is 0, after the message
\* is stored; its coding buffers are as long as the chunk of the message.
DecodeRow(m) ==
  IF m.replicaID = m.round THEN Kept(m) ELSE sharechunk_matrix[m.round]

\* Mutant: a block's share of the stream, without the padding of its word group.
RoomUnpadded(m) == (m.chunk.size + K - 1) \div K

Room(m) == Len(m.chunk.data)
Need(m) == E!decode_blocksize(DecodeRow(m)[0].size, K)

OnlyStore(m) ==
  /\ ~ AtThreshold(m)
  /\ Store(m)
  /\ UNCHANGED <<sharing_map, buffers, running>>

DecodeNull(m) ==
  /\ AtThreshold(m)
  /\ ~ 0 .. K - 1 \subseteq DOMAIN DecodeRow(m)
  /\ Store(m)
  /\ running' = FALSE
  /\ UNCHANGED <<sharing_map, buffers>>

Decode(m) ==
  /\ AtThreshold(m)
  /\ 0 .. K - 1 \subseteq DOMAIN DecodeRow(m)
  /\ Store(m)
  /\ buffers' = buffers \cup {[origin |-> m.replicaID, room |-> Room(m), need |-> Need(m)]}
  /\ IF Room(m) < Need(m)
       THEN running' = FALSE /\ UNCHANGED sharing_map
       ELSE /\ sharing_map' = Put(sharing_map, m.replicaID, Extra(Decoded(DecodeRow(m))))
            /\ UNCHANGED running

on_receive_shareChunk ==
  /\ running
  /\ \E s \in sent :
       LET m == Unframed(s)
       IN  /\ ~ Ignored(m)
           /\ OnlyStore(m) \/ DecodeNull(m) \/ Decode(m)

Spec == Init /\ [][on_receive_shareChunk]_vars

-----------------------------------------------------------------------------
\* Every chunk that a dealer makes is accepted by whoever receives it: the proof
\* survives its way through path, message and back, for each index.
DealtChunksAreProven ==
  \A h \in handled : h[2] \in DOMAIN sharechunk_matrix[h[1]]

\* A relayed message is byte for byte the dealer's.
RelaysAreTheDealers == sent = UNION {deliver_chunk(d) : d \in DealerIds}

\* Whatever dealer's chunk caused the decoding, and whatever the lengths, the
\* bytes that a sharing is parsed from are those that dealer 0 serialized, all of
\* them and nothing of the padding.
RecoveredBytes == \A d \in DOMAIN sharing_map : sharing_map[d] = sharing[0]

\* The coding buffers are exactly as long as decode fills them when the chunk at
\* hand is of the encoding that is decoded, and the decoding of another dealer's
\* chunk goes past them only if that dealer's sharing is so much shorter that it
\* was cut into smaller blocks.
BuffersFitTheirEncoding ==
  \A b \in buffers :
    /\ b.origin = 0 => b.room = b.need
    /\ b.room < b.need => Len(sharing[b.origin]) < Len(sharing[0])
=============================================================================
