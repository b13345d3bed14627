---------------------------- MODULE DrgCoreProofs -----------------------------
(***************************************************************************)
(* Facts about the handlers of DrgCore, for every N and MaxDeals: they     *)
(* preserve the type invariant, and what a handler of replica r does to    *)
(* the chunks it keeps; DrgNetProofs builds on them.  Then one DrgCore     *)
(* object under arbitrary calls (DrgCoreObject), for every number of       *)
(* replicas and every set of chunks it may be handed.                      *)
(*                                                                         *)
(* MatrixBound rests on the early return alone.  What was decoded stays as *)
(* it was because chunks are never replaced: a sharing is recorded only    *)
(* when all data chunks of row 0 are there, and from then on every         *)
(* decoding reads the same chunks.                                         *)
(***************************************************************************)
EXTENDS DrgCoreObject, FiniteSetTheorems, TLAPS

-----------------------------------------------------------------------------
(* Sizes.                                                                  *)

\* The threshold is a positive number, and 0 is among the first indexes.
LEMMA ThresholdType ==
  /\ nreconthres \in Nat \ {0}
  /\ num_faults \in Nat
  /\ 0 \in FirstIds
  /\ 0 \in ReplicaID
BY NAssumption DEF nreconthres, num_faults, FirstIds, ReplicaID

\* DrgCore.cpp:238 against pvss.hpp:81: the threshold at which a replica
\* reconstructs exceeds the degree of the sharing polynomial in clusters of
\* one, two and four replicas only.
THEOREM ThresholdGap ==
  nreconthres > num_faults <=> N \in {1, 2, 4}
BY NAssumption DEF nreconthres, num_faults

\* Sets of replicas are finite.
LEMMA ReplicaSets ==
  ASSUME NEW S \in SUBSET ReplicaID
  PROVE  IsFiniteSet(S) /\ Cardinality(S) \in Nat
<1>1. IsFiniteSet(ReplicaID)
  BY FS_Interval, NAssumption DEF ReplicaID
<1>2. IsFiniteSet(S)
  BY <1>1, FS_Subset
<1> QED
  BY <1>2, FS_CardinalityType

-----------------------------------------------------------------------------
(* Maps.                                                                   *)

\* Putting a pair into a map.
LEMMA PutFacts ==
  ASSUME NEW K, NEW V, NEW f \in MapsFrom(K, V), NEW k \in K, NEW v \in V
  PROVE  /\ Put(f, k, v) \in MapsFrom(K, V)
         /\ DOMAIN Put(f, k, v) = DOMAIN f \cup {k}
         /\ Put(f, k, v)[k] = v
         /\ \A x \in DOMAIN f : x # k => Put(f, k, v)[x] = f[x]
<1>1. PICK S \in SUBSET K : f \in [S -> V]
  BY DEF MapsFrom
<1>2. Put(f, k, v) \in [S \cup {k} -> V]
  BY <1>1 DEF Put
<1>3. S \cup {k} \in SUBSET K
  BY <1>1
<1>4. Put(f, k, v) \in MapsFrom(K, V)
  BY <1>2, <1>3 DEF MapsFrom
<1> QED
  BY <1>1, <1>4 DEF Put

\* A map's keys and values.
LEMMA MapType ==
  ASSUME NEW K, NEW V, NEW f \in MapsFrom(K, V)
  PROVE  DOMAIN f \in SUBSET K /\ \A x \in DOMAIN f : f[x] \in V
BY DEF MapsFrom

\* The empty map.
LEMMA EmptyMapType ==
  ASSUME NEW K, NEW V
  PROVE  EmptyMap \in MapsFrom(K, V) /\ DOMAIN EmptyMap = {}
<1>1. EmptyMap \in [{} -> V] /\ DOMAIN EmptyMap = {}
  BY DEF EmptyMap
<1> QED
  BY <1>1 DEF MapsFrom

-----------------------------------------------------------------------------
(* What a handler does to the rows of chunks.                              *)

\* The row of a chunk's dealer gains at most that chunk's index.
LEMMA RowAfterFacts ==
  ASSUME CoreTypeOK, NEW r \in ReplicaID, NEW c \in ShareChunk
  PROVE  /\ Row(r, c) \in MapsFrom(ReplicaID, Gen)
         /\ RowAfter(r, c) \in MapsFrom(ReplicaID, Gen)
         /\ DOMAIN RowAfter(r, c) =
              DOMAIN Row(r, c) \cup (IF c.verifies THEN {c.idx} ELSE {})
         /\ Fresh(r, c) /\ c.verifies => RowAfter(r, c)[c.idx] = c.gen
         /\ \A i \in DOMAIN Row(r, c) : RowAfter(r, c)[i] = Row(r, c)[i]
         /\ ~Fresh(r, c) => RowAfter(r, c) = Row(r, c)
<1>1. c.replicaID \in ReplicaID /\ c.idx \in ReplicaID /\ c.gen \in Gen
  BY DEF ShareChunk
<1>2. Row(r, c) \in MapsFrom(ReplicaID, Gen)
  BY <1>1 DEF CoreTypeOK, Row
<1>3. CASE Fresh(r, c) /\ c.verifies
  <2>1. RowAfter(r, c) = Put(Row(r, c), c.idx, c.gen)
    BY <1>3 DEF RowAfter
  <2> DEFINE f == Row(r, c)
             k == c.idx
             v == c.gen
  <2>2. f \in MapsFrom(ReplicaID, Gen) /\ k \in ReplicaID /\ v \in Gen
    BY <1>1, <1>2
  <2>3. /\ Put(f, k, v) \in MapsFrom(ReplicaID, Gen)
        /\ DOMAIN Put(f, k, v) = DOMAIN f \cup {k}
        /\ Put(f, k, v)[k] = v
        /\ \A x \in DOMAIN f : x # k => Put(f, k, v)[x] = f[x]
    <3> HIDE DEF f, k, v
    <3> QED
      BY <2>2, PutFacts
  <2> QED
    BY <1>2, <1>3, <2>1, <2>3 DEF Fresh
<1>4. CASE ~(Fresh(r, c) /\ c.verifies)
  <2>1. RowAfter(r, c) = Row(r, c)
    BY <1>4 DEF RowAfter
  <2> QED
    BY <1>2, <1>4, <2>1 DEF Fresh
<1> QED
  BY <1>3, <1>4

\* ... and so its size grows by at most one.
LEMMA RowAfterSize ==
  ASSUME CoreTypeOK, NEW r \in ReplicaID, NEW c \in ShareChunk
  PROVE  /\ Cardinality(DOMAIN Row(r, c)) \in Nat
         /\ Cardinality(DOMAIN RowAfter(r, c)) \in Nat
         /\ Cardinality(DOMAIN RowAfter(r, c)) <= Cardinality(DOMAIN Row(r, c)) + 1
         /\ Cardinality(DOMAIN RowAfter(r, c)) >= Cardinality(DOMAIN Row(r, c))
<1> DEFINE S == DOMAIN Row(r, c)
           T == DOMAIN RowAfter(r, c)
<1>1. S \in SUBSET ReplicaID /\ T \in SUBSET ReplicaID
  BY RowAfterFacts, MapType
<1>2. T = S \/ T = S \cup {c.idx}
  BY RowAfterFacts
<1>3. IsFiniteSet(S) /\ Cardinality(S) \in Nat /\ Cardinality(T) \in Nat
  BY <1>1, ReplicaSets
<1>4. Cardinality(S \cup {c.idx}) = IF c.idx \in S THEN Cardinality(S) ELSE Cardinality(S) + 1
  BY <1>3, FS_AddElement
<1> QED
  BY <1>2, <1>3, <1>4

\* Every way through on_receive_shareChunk either leaves the matrix as it is,
\* because the dealer's row is past the threshold, or is Gather.
LEMMA ChunkPaths ==
  ASSUME CoreTypeOK, NEW r \in ReplicaID, NEW c, NEW taken,
         on_receive_shareChunk(r, c, taken)
  PROVE  /\ running(r)
         /\ \/ /\ Cardinality(DOMAIN Row(r, c)) > nreconthres
               /\ UNCHANGED <<status, sharechunk_matrix, sharing_map, dec_share_vec,
                              deals, net_share>>
               /\ net' = net \ taken
            \/ /\ Gather(r, c)
               /\ UNCHANGED deals
               /\ Exchange(taken, Relay(r, c))
<1>1. CASE IgnoreChunk(r, c, taken)
  BY <1>1 DEF IgnoreChunk
<1>2. CASE RecordChunk(r, c, taken)
  BY <1>2 DEF RecordChunk, Gather
<1>3. CASE DecodeNull(r, c, taken)
  BY <1>3 DEF DecodeNull, Gather
<1>4. CASE DecodeGarbage(r, c, taken)
  BY <1>4 DEF DecodeGarbage, Gather
<1>5. CASE RecoverSharing(r, c, taken)
  BY <1>5 DEF RecoverSharing, Gather
<1>6. CASE AggregateAndShare(r, c, taken)
  BY <1>6 DEF AggregateAndShare, Gather
<1> QED
  BY <1>1, <1>2, <1>3, <1>4, <1>5, <1>6 DEF on_receive_shareChunk

-----------------------------------------------------------------------------
(* Type correctness of the handlers.                                       *)

\* What is in the network after a handler was there before or is sent by it.
LEMMA ExchangeFacts ==
  ASSUME NEW taken, NEW msgs, Exchange(taken, msgs)
  PROVE  /\ net' \subseteq (net \ taken) \cup msgs
         /\ \A m \in net' : status'[m.dst] = "running"
         /\ \A m \in (net \ taken) \cup msgs : status'[m.dst] = "running" => m \in net'
BY DEF Exchange

\* A relay is a message to every other replica.
LEMMA RelayType ==
  ASSUME NEW r \in ReplicaID, NEW c \in ShareChunk
  PROVE  Relay(r, c) \subseteq Message
BY DEF Relay, do_broadcast_sharechunk, Peers, Message

\* The matrix stays a matrix when a chunk is gathered.
LEMMA GatherType ==
  ASSUME CoreTypeOK, NEW r \in ReplicaID, NEW c \in ShareChunk, Gather(r, c)
  PROVE  /\ sharechunk_matrix' \in [ReplicaID -> [ReplicaID -> MapsFrom(ReplicaID, Gen)]]
         /\ sharechunk_matrix'[r] = MatrixAfter(r, c)
         /\ sharechunk_matrix'[r][c.replicaID] = RowAfter(r, c)
         /\ \A p, d \in ReplicaID :
              p # r \/ d # c.replicaID => sharechunk_matrix'[p][d] = sharechunk_matrix[p][d]
<1> DEFINE M == MapsFrom(ReplicaID, Gen)
<1>1. sharechunk_matrix \in [ReplicaID -> [ReplicaID -> M]]
  BY DEF CoreTypeOK
<1>2. RowAfter(r, c) \in M /\ c.replicaID \in ReplicaID
  BY RowAfterFacts DEF ShareChunk
<1>3. sharechunk_matrix' = [sharechunk_matrix EXCEPT ![r] = MatrixAfter(r, c)]
  BY DEF Gather
<1>4. MatrixAfter(r, c) = [sharechunk_matrix[r] EXCEPT ![c.replicaID] = RowAfter(r, c)]
  BY DEF MatrixAfter
<1> HIDE DEF M
<1>5. MatrixAfter(r, c) \in [ReplicaID -> M]
  BY <1>1, <1>2, <1>4
<1>6. sharechunk_matrix' \in [ReplicaID -> [ReplicaID -> M]]
  BY <1>1, <1>3, <1>5
<1> QED
  BY <1>1, <1>2, <1>3, <1>4, <1>5, <1>6 DEF M

\* Decoding yields a sharing, and the map of sharings stays one.
LEMMA SharingsType ==
  ASSUME CoreTypeOK, NEW r \in ReplicaID, NEW c \in ShareChunk, Decodable(r, c)
  PROVE  /\ SharingsAfter(r, c) \in MapsFrom(ReplicaID, Sharing)
         /\ DOMAIN SharingsAfter(r, c) = DOMAIN sharing_map[r] \cup {c.replicaID}
<1>1. c.replicaID \in ReplicaID /\ c.round = 0
  BY DEF ShareChunk
<1>2. MatrixAfter(r, c) \in [ReplicaID -> MapsFrom(ReplicaID, Gen)]
  <2>1. RowAfter(r, c) \in MapsFrom(ReplicaID, Gen)
    BY RowAfterFacts
  <2>2. sharechunk_matrix[r] \in [ReplicaID -> MapsFrom(ReplicaID, Gen)]
    BY DEF CoreTypeOK
  <2> QED
    BY <2>1, <2>2 DEF MatrixAfter
<1>3. DecodeRow(r, c) \in MapsFrom(ReplicaID, Gen)
  BY <1>1, <1>2, ThresholdType DEF DecodeRow
<1>4. DecodeRow(r, c)[0] \in Gen
  BY <1>3, MapType, ThresholdType DEF Decodable
<1>5. Decoded(r, c) \in Sharing
  BY <1>1, <1>4, ThresholdType, MaxDealsAssumption DEF Decoded, Sharing, Gen
<1>6. sharing_map[r] \in MapsFrom(ReplicaID, Sharing)
  BY DEF CoreTypeOK
<1> DEFINE f == sharing_map[r]
           k == c.replicaID
           v == Decoded(r, c)
<1>7. f \in MapsFrom(ReplicaID, Sharing) /\ k \in ReplicaID /\ v \in Sharing
  BY <1>1, <1>5, <1>6
<1>8. Put(f, k, v) \in MapsFrom(ReplicaID, Sharing) /\ DOMAIN Put(f, k, v) = DOMAIN f \cup {k}
  <2>1. DOMAIN Put(f, k, v) = DOMAIN f \cup {k}
    BY DEF Put
  <2> HIDE DEF f, k, v
  <2>2. Put(f, k, v) \in MapsFrom(ReplicaID, Sharing)
    BY <1>7, PutFacts
  <2> QED
    BY <2>1, <2>2
<1> QED
  BY <1>8 DEF SharingsAfter

\* Taking a share appends at most one origin.
LEMMA TakeShareType ==
  ASSUME CoreTypeOK, NEW r \in ReplicaID, NEW o \in ReplicaID, TakeShare(r, o)
  PROVE  /\ dec_share_vec' \in [ReplicaID -> Seq(ReplicaID)]
         /\ status' \in [ReplicaID -> Status]
<1>1. dec_share_vec \in [ReplicaID -> Seq(ReplicaID)] /\ status \in [ReplicaID -> Status]
  BY DEF CoreTypeOK
<1>2. Append(dec_share_vec[r], o) \in Seq(ReplicaID)
  BY <1>1
<1>3. dec_share_vec' = dec_share_vec
        \/ dec_share_vec' = [dec_share_vec EXCEPT ![r] = Append(dec_share_vec[r], o)]
  BY DEF TakeShare
<1>4. status' = status \/ status' = [status EXCEPT ![r] = "abort"]
  BY DEF TakeShare
<1>5. dec_share_vec' \in [ReplicaID -> Seq(ReplicaID)]
  BY <1>1, <1>2, <1>3
<1>6. status' \in [ReplicaID -> Status]
  BY <1>1, <1>4 DEF Status
<1> QED
  BY <1>5, <1>6

\* on_receive_start preserves the types.
LEMMA StartType ==
  ASSUME CoreTypeOK, NEW r \in ReplicaID, on_receive_start(r)
  PROVE  CoreTypeOK'
<1>1. CASE UNCHANGED coreVars
  BY <1>1 DEF coreVars, CoreTypeOK
<1>2. CASE deliver_chunk(r) /\ deals[r] < MaxDeals
  <2> DEFINE chunk(i) == [replicaID |-> r, idx |-> i, round |-> 0,
                          gen |-> deals[r] + 1, verifies |-> TRUE]
             msgs == {do_sharechunk(r, chunk(i), i) : i \in Peers(r)}
  <2>1. deals[r] + 1 \in Gen /\ deals' \in [ReplicaID -> 0 .. MaxDeals]
    BY <1>2, MaxDealsAssumption DEF deliver_chunk, CoreTypeOK, Gen
  <2>2. \A i \in Peers(r) : chunk(i) \in ShareChunk
    BY <2>1 DEF ShareChunk, Peers
  <2>3. msgs \subseteq Message
    BY <2>2 DEF do_sharechunk, Message, Peers
  <2>4. Exchange({}, msgs)
    BY <1>2 DEF deliver_chunk
  <2>5. net' \subseteq net \cup msgs
    <3> HIDE DEF msgs
    <3> QED
      BY <2>4, ExchangeFacts
  <2>6. net' \subseteq Message
    BY <2>3, <2>5 DEF CoreTypeOK
  <2> QED
    BY <1>2, <2>1, <2>6 DEF deliver_chunk, CoreTypeOK
<1> QED
  BY <1>1, <1>2 DEF on_receive_start

\* on_receive_share preserves the types.
LEMMA ShareType ==
  ASSUME CoreTypeOK, NEW r \in ReplicaID, NEW o \in ReplicaID, on_receive_share(r, o)
  PROVE  CoreTypeOK'
<1>1. TakeShare(r, o)
  BY DEF on_receive_share
<1>2. dec_share_vec' \in [ReplicaID -> Seq(ReplicaID)] /\ status' \in [ReplicaID -> Status]
  BY <1>1, TakeShareType
<1> QED
  BY <1>2 DEF on_receive_share, CoreTypeOK

\* on_receive_shareChunk preserves the types.
LEMMA ChunkType ==
  ASSUME CoreTypeOK, NEW r \in ReplicaID, NEW c \in ShareChunk, NEW taken,
         on_receive_shareChunk(r, c, taken)
  PROVE  CoreTypeOK'
<1> DEFINE Matrix == [ReplicaID -> [ReplicaID -> MapsFrom(ReplicaID, Gen)]]
           Shares == [src : ReplicaID, dst : ReplicaID, origin : ReplicaID]
<1>1. sharechunk_matrix' \in Matrix
  <2>1. CASE Gather(r, c)
    BY <2>1, GatherType
  <2>2. CASE UNCHANGED sharechunk_matrix
    BY <2>2 DEF CoreTypeOK
  <2> QED
    BY <2>1, <2>2, ChunkPaths
<1>2. net' \subseteq Message
  <2>1. CASE Exchange(taken, Relay(r, c))
    <3>1. net' \subseteq (net \ taken) \cup Relay(r, c)
      <4> DEFINE msgs == Relay(r, c)
      <4>1. Exchange(taken, msgs)
        BY <2>1
      <4> HIDE DEF msgs
      <4>2. net' \subseteq (net \ taken) \cup msgs
        BY <4>1, ExchangeFacts
      <4> QED
        BY <4>2 DEF msgs
    <3> QED
      BY <3>1, RelayType DEF CoreTypeOK
  <2>2. CASE net' = net \ taken
    BY <2>2 DEF CoreTypeOK
  <2> QED
    BY <2>1, <2>2, ChunkPaths
<1>3. deals' \in [ReplicaID -> 0 .. MaxDeals]
  <2>1. deals' = deals
    BY ChunkPaths
  <2> QED
    BY <2>1 DEF CoreTypeOK
<1>4. /\ status' \in [ReplicaID -> Status]
      /\ sharing_map' \in [ReplicaID -> MapsFrom(ReplicaID, Sharing)]
      /\ dec_share_vec' \in [ReplicaID -> Seq(ReplicaID)]
      /\ net_share' \subseteq Shares
  <2>1. CASE IgnoreChunk(r, c, taken)
    BY <2>1 DEF IgnoreChunk, CoreTypeOK
  <2>2. CASE RecordChunk(r, c, taken)
    BY <2>2 DEF RecordChunk, CoreTypeOK
  <2>3. CASE DecodeNull(r, c, taken)
    <3>1. status' \in [ReplicaID -> Status]
      BY <2>3 DEF DecodeNull, CoreTypeOK, Status
    <3> QED
      BY <2>3, <3>1 DEF DecodeNull, CoreTypeOK
  <2>4. CASE DecodeGarbage(r, c, taken)
    <3>1. status' \in [ReplicaID -> Status]
      BY <2>4 DEF DecodeGarbage, CoreTypeOK, Status
    <3> QED
      BY <2>4, <3>1 DEF DecodeGarbage, CoreTypeOK
  <2>5. CASE RecoverSharing(r, c, taken)
    <3>1. SharingsAfter(r, c) \in MapsFrom(ReplicaID, Sharing)
      BY <2>5, SharingsType DEF RecoverSharing
    <3> QED
      BY <2>5, <3>1 DEF RecoverSharing, CoreTypeOK
  <2>6. CASE AggregateAndShare(r, c, taken)
    <3>1. SharingsAfter(r, c) \in MapsFrom(ReplicaID, Sharing)
      BY <2>6, SharingsType DEF AggregateAndShare
    <3>2. sharing_map' \in [ReplicaID -> MapsFrom(ReplicaID, Sharing)]
      BY <2>6, <3>1 DEF AggregateAndShare, CoreTypeOK
    <3>3. status' \in [ReplicaID -> Status] /\ dec_share_vec' \in [ReplicaID -> Seq(ReplicaID)]
      BY <2>6, TakeShareType DEF AggregateAndShare
    <3>4. do_broadcast_share(r) \subseteq Shares
      BY DEF do_broadcast_share, Peers
    <3>5. net_share' \subseteq Shares
      BY <2>6, <3>4 DEF AggregateAndShare, CoreTypeOK
    <3> QED
      BY <3>2, <3>3, <3>5
  <2> QED
    BY <2>1, <2>2, <2>3, <2>4, <2>5, <2>6 DEF on_receive_shareChunk
<1> QED
  BY <1>1, <1>2, <1>3, <1>4 DEF CoreTypeOK

\* A fresh object has the right types.
LEMMA InitType == CoreInit => CoreTypeOK
<1> SUFFICES ASSUME CoreInit PROVE CoreTypeOK
  OBVIOUS
<1>1. sharechunk_matrix \in [ReplicaID -> [ReplicaID -> MapsFrom(ReplicaID, Gen)]]
  BY EmptyMapType DEF CoreInit
<1>2. sharing_map \in [ReplicaID -> MapsFrom(ReplicaID, Sharing)]
  BY EmptyMapType DEF CoreInit
<1> QED
  BY <1>1, <1>2, MaxDealsAssumption DEF CoreInit, CoreTypeOK, Status

(***************************************************************************)
(* One object, whatever it is called with.                                 *)
(***************************************************************************)

\* The inductive invariant.
OInv ==
  /\ ObjectTypeOK
  /\ MatrixBound
  /\ RecoveredFromFullRows
  /\ SharingsAllAlike

-----------------------------------------------------------------------------
\* What a gathered chunk does to the object's rows.
LEMMA GatherEffect ==
  ASSUME CoreTypeOK, NEW c \in InChunks, Gather(self, c)
  PROVE  /\ \A d \in ReplicaID : ownRow(d) \subseteq ownRow(d)'
         /\ \A d \in ReplicaID : \A i \in ownRow(d) :
              sharechunk_matrix'[self][d][i] = sharechunk_matrix[self][d][i]
         /\ \A d \in ReplicaID : Cardinality(ownRow(d)') <= nreconthres + 1
                                 \/ ownRow(d)' = ownRow(d)
         /\ \A d \in ReplicaID : d # c.replicaID =>
              sharechunk_matrix'[self][d] = sharechunk_matrix[self][d]
         /\ sharechunk_matrix'[self] = MatrixAfter(self, c)
         /\ ownRow(c.replicaID)' = DOMAIN RowAfter(self, c)
         /\ Cardinality(ownRow(c.replicaID)) <= nreconthres
<1>1. c \in ShareChunk /\ self \in ReplicaID /\ c.replicaID \in ReplicaID
  BY InChunksAssumption, SelfAssumption DEF ShareChunk
<1>2. /\ sharechunk_matrix'[self] = MatrixAfter(self, c)
      /\ sharechunk_matrix'[self][c.replicaID] = RowAfter(self, c)
      /\ \A d \in ReplicaID : d # c.replicaID =>
           sharechunk_matrix'[self][d] = sharechunk_matrix[self][d]
  BY <1>1, GatherType
<1>3. /\ DOMAIN Row(self, c) \subseteq DOMAIN RowAfter(self, c)
      /\ \A i \in DOMAIN Row(self, c) : RowAfter(self, c)[i] = Row(self, c)[i]
  BY <1>1, RowAfterFacts
<1>4. Row(self, c) = sharechunk_matrix[self][c.replicaID]
  BY DEF Row
<1>5. Cardinality(DOMAIN Row(self, c)) <= nreconthres
  BY DEF Gather
<1>6. Cardinality(DOMAIN RowAfter(self, c)) <= nreconthres + 1
  BY <1>1, <1>5, RowAfterSize, ThresholdType
<1>7. \A d \in ReplicaID : d = c.replicaID \/ ownRow(d)' = ownRow(d)
  BY <1>2 DEF ownRow
<1>8. ownRow(c.replicaID)' = DOMAIN RowAfter(self, c)
  BY <1>2 DEF ownRow
<1> QED
  BY <1>1, <1>2, <1>3, <1>4, <1>5, <1>6, <1>7, <1>8 DEF ownRow

\* The rows after any step: no chunk is lost or replaced, and what grows stays
\* within the bound.
LEMMA StepRows ==
  ASSUME CoreTypeOK, [ObjectNext]_coreVars
  PROVE  \A d \in ReplicaID :
           /\ ownRow(d) \subseteq ownRow(d)'
           /\ \A i \in ownRow(d) : sharechunk_matrix'[self][d][i] = sharechunk_matrix[self][d][i]
           /\ Cardinality(ownRow(d)') <= nreconthres + 1 \/ ownRow(d)' = ownRow(d)
           /\ Cardinality(ownRow(d)) > nreconthres =>
                sharechunk_matrix'[self][d] = sharechunk_matrix[self][d]
<1>1. CASE UNCHANGED sharechunk_matrix
  BY <1>1 DEF ownRow
<1>2. CASE ObjectChunk
  <2>1. PICK c \in InChunks : on_receive_shareChunk(self, c, {})
    BY <1>2 DEF ObjectChunk
  <2>2. CASE Gather(self, c)
    <3>1. c.replicaID \in ReplicaID /\ c \in ShareChunk /\ self \in ReplicaID
      BY InChunksAssumption, SelfAssumption DEF ShareChunk
    <3>2. Cardinality(ownRow(c.replicaID)) \in Nat
      BY <3>1, RowAfterSize DEF ownRow, Row
    <3> QED
      BY <2>2, <3>2, GatherEffect, ThresholdType
  <2> QED
    BY <1>1, <2>1, <2>2, ChunkPaths, SelfAssumption
<1>3. CASE ObjectStart
  BY <1>1, <1>3 DEF ObjectStart, on_receive_start, deliver_chunk, coreVars
<1>4. CASE ObjectShare
  BY <1>1, <1>4 DEF ObjectShare, on_receive_share
<1> QED
  BY <1>1, <1>2, <1>3, <1>4 DEF ObjectNext, coreVars

\* Every step preserves the types.
LEMMA StepType ==
  ASSUME ObjectTypeOK, [ObjectNext]_coreVars
  PROVE  ObjectTypeOK'
<1>1. CASE ObjectStart
  BY <1>1, StartType, SelfAssumption DEF ObjectStart, ObjectTypeOK
<1>2. CASE ObjectChunk
  BY <1>2, ChunkType, SelfAssumption, InChunksAssumption DEF ObjectChunk, ObjectTypeOK
<1>3. CASE ObjectShare
  BY <1>3, ShareType, SelfAssumption DEF ObjectShare, ObjectTypeOK
<1>4. CASE UNCHANGED coreVars
  BY <1>4 DEF coreVars, ObjectTypeOK, CoreTypeOK
<1> QED
  BY <1>1, <1>2, <1>3, <1>4 DEF ObjectNext

-----------------------------------------------------------------------------
\* What a step does to the recorded sharings: nothing, or it decodes one for
\* the dealer of a chunk that completed that dealer's row.
LEMMA StepMap ==
  ASSUME CoreTypeOK, [ObjectNext]_coreVars
  PROVE  \/ sharing_map'[self] = sharing_map[self]
         \/ \E c \in InChunks :
              /\ Gather(self, c) /\ AtThreshold(self, c) /\ Decodable(self, c)
              /\ sharing_map'[self] = SharingsAfter(self, c)
<1>1. sharing_map \in [ReplicaID -> MapsFrom(ReplicaID, Sharing)] /\ self \in ReplicaID
  BY SelfAssumption DEF CoreTypeOK
<1>2. CASE UNCHANGED sharing_map
  BY <1>2
<1>3. CASE ObjectChunk
  <2>1. PICK c \in InChunks : on_receive_shareChunk(self, c, {})
    BY <1>3 DEF ObjectChunk
  <2>2. CASE RecoverSharing(self, c, {})
    BY <1>1, <2>2 DEF RecoverSharing
  <2>3. CASE AggregateAndShare(self, c, {})
    BY <1>1, <2>3 DEF AggregateAndShare
  <2>4. CASE IgnoreChunk(self, c, {}) \/ RecordChunk(self, c, {}) \/ DecodeNull(self, c, {})
             \/ DecodeGarbage(self, c, {})
    BY <1>2, <2>4 DEF IgnoreChunk, RecordChunk, DecodeNull, DecodeGarbage
  <2> QED
    BY <2>1, <2>2, <2>3, <2>4 DEF on_receive_shareChunk
<1>4. CASE ObjectStart
  BY <1>2, <1>4 DEF ObjectStart, on_receive_start, deliver_chunk, coreVars
<1>5. CASE ObjectShare
  BY <1>2, <1>5 DEF ObjectShare, on_receive_share
<1> QED
  BY <1>2, <1>3, <1>4, <1>5 DEF ObjectNext, coreVars

\* What row 0 encodes, once its data chunks are there.
ZeroSharing ==
  [dealer |-> 0,
   gen    |-> IF \E i, j \in FirstIds : ZeroRow[i] # ZeroRow[j] THEN 0 ELSE ZeroRow[0]]

\* A sharing that is recorded by a step is the one row 0 then encodes.
LEMMA DecodedIsZero ==
  ASSUME CoreTypeOK, NEW c \in InChunks, Gather(self, c), Decodable(self, c)
  PROVE  /\ FirstIds \subseteq ownRow(0)'
         /\ Decoded(self, c) = ZeroSharing'
<1>1. c.round = 0
  BY InChunksAssumption DEF ShareChunk
<1>2. DecodeRow(self, c) = sharechunk_matrix'[self][0]
  BY <1>1, GatherEffect DEF DecodeRow
<1>3. FirstIds \subseteq ownRow(0)'
  BY <1>2 DEF Decodable, ownRow
<1>4. Mixed(self, c) <=> \E i, j \in FirstIds : ZeroRow'[i] # ZeroRow'[j]
  BY <1>2 DEF Mixed, ZeroRow
<1>5. DecodeRow(self, c)[0] = ZeroRow'[0]
  BY <1>2 DEF ZeroRow
<1>6. Decoded(self, c) =
        [dealer |-> 0, gen |-> IF Mixed(self, c) THEN 0 ELSE DecodeRow(self, c)[0]]
  BY <1>1 DEF Decoded
<1> QED
  BY <1>3, <1>4, <1>5, <1>6 DEF ZeroSharing

\* Recorded sharings stay as they are, and stay what row 0 encodes.
LEMMA StepSharings ==
  ASSUME OInv, [ObjectNext]_coreVars
  PROVE  /\ RecoveredFromFullRows'
         /\ SharingsAllAlike'
         /\ \A d \in DOMAIN sharing_map[self] :
              d \in DOMAIN sharing_map'[self] /\ sharing_map'[self][d] = sharing_map[self][d]
<1>1. CoreTypeOK /\ CoreTypeOK'
  BY StepType DEF OInv, ObjectTypeOK
<1>2. /\ sharing_map[self] \in MapsFrom(ReplicaID, Sharing)
      /\ DOMAIN sharing_map[self] \in SUBSET ReplicaID
      /\ \A d \in ReplicaID : ownRow(d)' \in SUBSET ReplicaID
  <2>1. sharing_map[self] \in MapsFrom(ReplicaID, Sharing)
    BY <1>1, SelfAssumption DEF CoreTypeOK
  <2>2. \A d \in ReplicaID : sharechunk_matrix'[self][d] \in MapsFrom(ReplicaID, Gen)
    BY <1>1, SelfAssumption DEF CoreTypeOK
  <2> QED
    BY <2>1, <2>2, MapType DEF ownRow
<1>3. ASSUME NEW d \in DOMAIN sharing_map[self]
      PROVE  /\ Cardinality(ownRow(d)') >= nreconthres
             /\ FirstIds \subseteq ownRow(0)'
             /\ sharing_map[self][d] = ZeroSharing'
  <2>1. /\ Cardinality(ownRow(d)) >= nreconthres /\ FirstIds \subseteq ownRow(0)
        /\ sharing_map[self][d] = ZeroSharing
    BY DEF OInv, RecoveredFromFullRows, SharingsAllAlike, ZeroSharing
  <2>2. ownRow(d) \subseteq ownRow(d)' /\ ownRow(0) \subseteq ownRow(0)'
        /\ \A i \in ownRow(0) : ZeroRow'[i] = ZeroRow[i]
    BY <1>1, <1>2, StepRows, ThresholdType DEF ZeroRow
  <2>3. Cardinality(ownRow(d)) <= Cardinality(ownRow(d)')
    BY <1>2, <2>2, ReplicaSets, FS_Subset
  <2>4. /\ Cardinality(ownRow(d)) \in Nat /\ Cardinality(ownRow(d)') \in Nat
    BY <1>2, <2>2, ReplicaSets
  <2>5. ZeroSharing' = ZeroSharing
    BY <2>1, <2>2, ThresholdType DEF ZeroSharing
  <2> QED
    BY <2>1, <2>2, <2>3, <2>4, <2>5, ThresholdType
<1>4. CASE sharing_map'[self] = sharing_map[self]
  BY <1>3, <1>4 DEF RecoveredFromFullRows, SharingsAllAlike, ZeroSharing
<1>5. ASSUME NEW c \in InChunks, Gather(self, c), AtThreshold(self, c), Decodable(self, c),
             sharing_map'[self] = SharingsAfter(self, c)
      PROVE  /\ \A d \in DOMAIN sharing_map'[self] :
                  /\ Cardinality(ownRow(d)') >= nreconthres
                  /\ FirstIds \subseteq ownRow(0)'
                  /\ sharing_map'[self][d] = ZeroSharing'
             /\ DOMAIN sharing_map[self] \subseteq DOMAIN sharing_map'[self]
  <2>1. sharing_map'[self] = Put(sharing_map[self], c.replicaID, Decoded(self, c))
    BY <1>5 DEF SharingsAfter
  <2>2. FirstIds \subseteq ownRow(0)' /\ Decoded(self, c) = ZeroSharing'
    BY <1>1, <1>5, DecodedIsZero
  <2>3. Cardinality(ownRow(c.replicaID)') = nreconthres
    BY <1>1, <1>5, GatherEffect DEF AtThreshold
  <2>4. /\ DOMAIN sharing_map'[self] = DOMAIN sharing_map[self] \cup {c.replicaID}
        /\ sharing_map'[self][c.replicaID] = Decoded(self, c)
        /\ \A d \in DOMAIN sharing_map[self] :
             d # c.replicaID => sharing_map'[self][d] = sharing_map[self][d]
    BY <2>1 DEF Put
  <2> QED
    BY <1>3, <2>2, <2>3, <2>4, ThresholdType
<1>6. CASE sharing_map'[self] # sharing_map[self]
  <2>1. PICK c \in InChunks : /\ Gather(self, c) /\ AtThreshold(self, c) /\ Decodable(self, c)
                             /\ sharing_map'[self] = SharingsAfter(self, c)
    BY <1>1, <1>6, StepMap
  <2> QED
    BY <1>3, <1>5, <2>1 DEF RecoveredFromFullRows, SharingsAllAlike, ZeroSharing
<1> QED
  BY <1>4, <1>6

-----------------------------------------------------------------------------
(* Theorems.                                                               *)

\* The inductive invariant holds throughout.
THEOREM ObjectInvariance == ObjectSpec => []OInv
<1>1. CoreInit => OInv
  <2> SUFFICES ASSUME CoreInit PROVE OInv
    OBVIOUS
  <2>1. ObjectTypeOK
    BY InitType DEF ObjectTypeOK
  <2>2. \A d \in ReplicaID : ownRow(d) = {}
    BY EmptyMapType, SelfAssumption DEF CoreInit, ownRow
  <2>3. DOMAIN sharing_map[self] = {}
    BY EmptyMapType, SelfAssumption DEF CoreInit
  <2>4. MatrixBound
    BY <2>2, FS_EmptySet, ThresholdType DEF MatrixBound
  <2> QED
    BY <2>1, <2>3, <2>4 DEF OInv, RecoveredFromFullRows, SharingsAllAlike
<1>2. OInv /\ [ObjectNext]_coreVars => OInv'
  <2> SUFFICES ASSUME OInv, [ObjectNext]_coreVars PROVE OInv'
    OBVIOUS
  <2>1. ObjectTypeOK'
    BY StepType DEF OInv
  <2>2. MatrixBound'
    BY StepRows DEF OInv, ObjectTypeOK, MatrixBound
  <2> QED
    BY <2>1, <2>2, StepSharings DEF OInv
<1> QED
  BY <1>1, <1>2, PTL DEF ObjectSpec

\* The object's variables keep their types.
THEOREM ObjectTypeCorrect == ObjectSpec => []ObjectTypeOK
<1>1. OInv => ObjectTypeOK
  BY DEF OInv
<1> QED
  BY <1>1, ObjectInvariance, PTL

\* No dealer ever occupies more than one chunk beyond the threshold.
THEOREM MatrixBounded == ObjectSpec => []MatrixBound
<1>1. OInv => MatrixBound
  BY DEF OInv
<1> QED
  BY <1>1, ObjectInvariance, PTL

\* A recorded sharing has a full row behind it, and row 0 complete.
THEOREM RecoveredFromFull == ObjectSpec => []RecoveredFromFullRows
<1>1. OInv => RecoveredFromFullRows
  BY DEF OInv
<1> QED
  BY <1>1, ObjectInvariance, PTL

\* All recorded sharings are the one that row 0 encodes, in every cluster.
THEOREM SharingsAlike == ObjectSpec => []SharingsAllAlike
<1>1. OInv => SharingsAllAlike
  BY DEF OInv
<1> QED
  BY <1>1, ObjectInvariance, PTL

\* Chunks are never replaced.
THEOREM ChunksStay == ObjectSpec => ChunksAreFinal
<1> DEFINE A == \A d \in ReplicaID :
                  \A i \in ownRow(d) :
                    /\ i \in ownRow(d)'
                    /\ sharechunk_matrix'[self][d][i] = sharechunk_matrix[self][d][i]
<1>1. OInv /\ [ObjectNext]_coreVars => [A]_coreVars
  BY StepRows DEF OInv, ObjectTypeOK
<1> QED
  BY <1>1, ObjectInvariance, PTL DEF ObjectSpec, ChunksAreFinal

\* Recorded sharings are never changed, however often the decoder runs.
THEOREM SharingsStay == ObjectSpec => SharingsAreFinal
<1> DEFINE A == \A d \in DOMAIN sharing_map[self] :
                  /\ d \in DOMAIN sharing_map'[self]
                  /\ sharing_map'[self][d] = sharing_map[self][d]
<1>1. OInv /\ [ObjectNext]_coreVars => [A]_coreVars
  BY StepSharings
<1> QED
  BY <1>1, ObjectInvariance, PTL DEF ObjectSpec, SharingsAreFinal

-----------------------------------------------------------------------------
(* Decryption shares.                                                      *)

\* The shares that were collected, while the object runs, are fewer than the
\* threshold or were fit for reconstruct.
SharesInv ==
  /\ ObjectTypeOK
  /\ Len(dec_share_vec[self]) <= nreconthres
  /\ running(self) /\ Len(dec_share_vec[self]) = nreconthres
       => ~ReconstructAborts(dec_share_vec[self])

\* Taking a share preserves that.
LEMMA TakeShareStep ==
  ASSUME SharesInv, ObjectTypeOK', running(self), NEW o \in ReplicaID, TakeShare(self, o)
  PROVE  SharesInv'
<1> DEFINE v == dec_share_vec[self]
<1>1. /\ v \in Seq(ReplicaID) /\ dec_share_vec \in [ReplicaID -> Seq(ReplicaID)]
      /\ status \in [ReplicaID -> Status] /\ self \in ReplicaID
  BY SelfAssumption DEF SharesInv, ObjectTypeOK, CoreTypeOK
<1>2. CASE Len(v) >= nreconthres
  BY <1>2 DEF TakeShare, SharesInv, running
<1>3. CASE ~(Len(v) >= nreconthres)
  <2>1. /\ dec_share_vec' = [dec_share_vec EXCEPT ![self] = Append(v, o)]
        /\ status' = IF Len(Append(v, o)) = nreconthres /\ ReconstructAborts(Append(v, o))
                       THEN [status EXCEPT ![self] = "abort"]
                       ELSE status
    BY <1>3 DEF TakeShare
  <2>2. dec_share_vec'[self] = Append(v, o)
    BY <1>1, <2>1
  <2>3. Len(Append(v, o)) = Len(v) + 1 /\ Len(v) \in Nat
    BY <1>1
  <2>4. Len(Append(v, o)) <= nreconthres
    BY <1>3, <2>3, ThresholdType
  <2>5. status'[self] = "running" =>
          ~(Len(Append(v, o)) = nreconthres /\ ReconstructAborts(Append(v, o)))
    BY <1>1, <2>1
  <2>6. ReconstructAborts(dec_share_vec[self])' <=> ReconstructAborts(Append(v, o))
    BY <2>2 DEF ReconstructAborts
  <2> QED
    BY <2>2, <2>4, <2>5, <2>6 DEF SharesInv, running
<1> QED
  BY <1>2, <1>3

\* The invariant about the collected shares holds throughout.
LEMMA SharesInvariance == ObjectSpec => []SharesInv
<1>1. CoreInit => SharesInv
  <2> SUFFICES ASSUME CoreInit PROVE SharesInv
    OBVIOUS
  <2>1. Len(dec_share_vec[self]) = 0
    BY SelfAssumption DEF CoreInit
  <2> QED
    BY <2>1, InitType, ThresholdType DEF SharesInv, ObjectTypeOK
<1>2. SharesInv /\ [ObjectNext]_coreVars => SharesInv'
  <2> SUFFICES ASSUME SharesInv, [ObjectNext]_coreVars PROVE SharesInv'
    OBVIOUS
  <2>1. ObjectTypeOK'
    BY StepType DEF SharesInv
  <2>2. status \in [ReplicaID -> Status] /\ self \in ReplicaID
    BY SelfAssumption DEF SharesInv, ObjectTypeOK, CoreTypeOK
  <2>3. CASE UNCHANGED dec_share_vec /\ (running(self)' => running(self))
    BY <2>1, <2>3 DEF SharesInv, ReconstructAborts
  <2>4. CASE ObjectStart
    BY <2>3, <2>4 DEF ObjectStart, on_receive_start, deliver_chunk, coreVars
  <2>5. CASE ObjectShare
    BY <2>1, <2>5, TakeShareStep DEF ObjectShare, on_receive_share
  <2>6. CASE ObjectChunk
    <3>1. PICK c \in InChunks : on_receive_shareChunk(self, c, {})
      BY <2>6 DEF ObjectChunk
    <3>2. CASE AggregateAndShare(self, c, {})
      BY <2>1, <2>2, <3>2, TakeShareStep DEF AggregateAndShare, Gather
    <3>3. CASE IgnoreChunk(self, c, {}) \/ RecordChunk(self, c, {}) \/ RecoverSharing(self, c, {})
      BY <2>3, <3>3 DEF IgnoreChunk, RecordChunk, RecoverSharing, running
    <3>4. CASE DecodeNull(self, c, {}) \/ DecodeGarbage(self, c, {})
      BY <2>2, <2>3, <3>4 DEF DecodeNull, DecodeGarbage, Gather, running
    <3> QED
      BY <3>1, <3>2, <3>3, <3>4 DEF on_receive_shareChunk
  <2>7. CASE UNCHANGED coreVars
    BY <2>3, <2>7 DEF coreVars, running
  <2> QED
    BY <2>4, <2>5, <2>6, <2>7 DEF ObjectNext
<1> QED
  BY <1>1, <1>2, PTL DEF ObjectSpec

\* A beacon is only ever interpolated at distinct origins.
THEOREM DistinctOrigins == ObjectSpec => []BeaconFromDistinctOrigins
<1>1. SharesInv => BeaconFromDistinctOrigins
  <2> SUFFICES ASSUME SharesInv, running(self), Len(dec_share_vec[self]) >= nreconthres
               PROVE  BeaconFromDistinctOrigins
    BY DEF BeaconFromDistinctOrigins
  <2>1. Len(dec_share_vec[self]) \in Nat
    BY SelfAssumption DEF SharesInv, ObjectTypeOK, CoreTypeOK
  <2>2. Len(dec_share_vec[self]) = nreconthres
    BY <2>1, ThresholdType DEF SharesInv
  <2> QED
    BY <2>2 DEF SharesInv, BeaconFromDistinctOrigins, ReconstructAborts
<1> QED
  BY <1>1, SharesInvariance, PTL

\* Unless there are one, two or four replicas, the threshold is too low for
\* reconstruct, and whoever reaches it ends.
THEOREM NobodySurvives == ObjectSpec => []NoSurvivor
<1>1. SharesInv => NoSurvivor
  <2> SUFFICES ASSUME SharesInv, N \notin {1, 2, 4}, running(self)
               PROVE  Len(dec_share_vec[self]) < nreconthres
    BY DEF NoSurvivor
  <2>1. Len(dec_share_vec[self]) \in Nat
    BY SelfAssumption DEF SharesInv, ObjectTypeOK, CoreTypeOK
  <2>2. nreconthres <= num_faults
    BY ThresholdGap, ThresholdType
  <2>3. Len(dec_share_vec[self]) # nreconthres
    BY <2>1, <2>2 DEF SharesInv, ReconstructAborts
  <2> QED
    BY <2>1, <2>3, ThresholdType DEF SharesInv
<1> QED
  BY <1>1, SharesInvariance, PTL

\* Taking a share appends at most that share.
LEMMA TakeShareEntries ==
  ASSUME CoreTypeOK, NEW o \in ReplicaID, TakeShare(self, o)
  PROVE  \A i \in DOMAIN dec_share_vec'[self] :
           \/ dec_share_vec'[self][i] = o
           \/ i \in DOMAIN dec_share_vec[self]
                /\ dec_share_vec'[self][i] = dec_share_vec[self][i]
<1> DEFINE v == dec_share_vec[self]
<1>1. v \in Seq(ReplicaID) /\ dec_share_vec \in [ReplicaID -> Seq(ReplicaID)] /\ self \in ReplicaID
  BY SelfAssumption DEF CoreTypeOK
<1>2. dec_share_vec'[self] = v \/ dec_share_vec'[self] = Append(v, o)
  BY <1>1 DEF TakeShare
<1>3. \A i \in DOMAIN Append(v, o) : Append(v, o)[i] = o \/ (i \in DOMAIN v /\ Append(v, o)[i] = v[i])
  BY <1>1
<1> QED
  BY <1>2, <1>3

\* The object's own share comes after all the sharings it is aggregated from.
THEOREM OwnShareLast == ObjectSpec => []ShareAfterAllSharings
<1>1. CoreInit => ShareAfterAllSharings
  BY SelfAssumption DEF CoreInit, ShareAfterAllSharings
<1>2. OInv /\ ShareAfterAllSharings /\ [ObjectNext]_coreVars => ShareAfterAllSharings'
  <2> SUFFICES ASSUME OInv, ShareAfterAllSharings, [ObjectNext]_coreVars
               PROVE  ShareAfterAllSharings'
    OBVIOUS
  <2>1. CoreTypeOK /\ self \in ReplicaID
    BY SelfAssumption DEF OInv, ObjectTypeOK
  <2>2. DOMAIN sharing_map[self] \subseteq DOMAIN sharing_map'[self]
    BY StepSharings
  <2>3. CASE UNCHANGED <<dec_share_vec, net_share>>
    BY <2>2, <2>3 DEF ShareAfterAllSharings
  <2>4. CASE ObjectStart
    BY <2>3, <2>4 DEF ObjectStart, on_receive_start, deliver_chunk, coreVars
  <2>5. CASE ObjectShare
    <3>1. PICK o \in ReplicaID \ {self} : TakeShare(self, o) /\ UNCHANGED net_share
      BY <2>5 DEF ObjectShare, on_receive_share
    <3>2. \A i \in DOMAIN dec_share_vec'[self] :
            dec_share_vec'[self][i] = self
              => i \in DOMAIN dec_share_vec[self] /\ dec_share_vec[self][i] = self
      BY <2>1, <3>1, TakeShareEntries
    <3> QED
      BY <2>2, <3>1, <3>2 DEF ShareAfterAllSharings
  <2>6. CASE ObjectChunk
    <3>1. PICK c \in InChunks : on_receive_shareChunk(self, c, {})
      BY <2>6 DEF ObjectChunk
    <3>2. CASE AggregateAndShare(self, c, {})
      <4>1. /\ sharing_map' = [sharing_map EXCEPT ![self] = SharingsAfter(self, c)]
            /\ FirstIds \subseteq DOMAIN SharingsAfter(self, c)
        BY <3>2 DEF AggregateAndShare, AllFirst
      <4>2. sharing_map'[self] = SharingsAfter(self, c)
        BY <2>1, <4>1 DEF CoreTypeOK
      <4> QED
        BY <4>1, <4>2 DEF ShareAfterAllSharings
    <3>3. CASE \/ IgnoreChunk(self, c, {}) \/ RecordChunk(self, c, {}) \/ DecodeNull(self, c, {})
               \/ DecodeGarbage(self, c, {}) \/ RecoverSharing(self, c, {})
      BY <2>3, <3>3 DEF IgnoreChunk, RecordChunk, DecodeNull, DecodeGarbage, RecoverSharing
    <3> QED
      BY <3>1, <3>2, <3>3 DEF on_receive_shareChunk
  <2>7. CASE UNCHANGED coreVars
    BY <2>3, <2>7 DEF coreVars
  <2> QED
    BY <2>4, <2>5, <2>6, <2>7 DEF ObjectNext
<1> QED
  BY <1>1, <1>2, ObjectInvariance, PTL DEF ObjectSpec

-----------------------------------------------------------------------------
(* Dealers past the threshold.                                             *)

\* What a step puts on the network: dealt chunks, or relays of a chunk whose
\* dealer is not past the threshold.
LEMMA StepSends ==
  ASSUME CoreTypeOK, [ObjectNext]_coreVars
  PROVE  \A m \in net' \ net :
           m.via = "relay" => Cardinality(ownRow(m.chunk.replicaID)) <= nreconthres
<1>1. CASE net' \subseteq net
  BY <1>1
<1>2. CASE ObjectStart
  <2> DEFINE chunk(i) == [replicaID |-> self, idx |-> i, round |-> 0,
                          gen |-> deals[self] + 1, verifies |-> TRUE]
             msgs == {do_sharechunk(self, chunk(i), i) : i \in Peers(self)}
  <2>1. CASE deliver_chunk(self)
    <3>1. Exchange({}, msgs)
      BY <2>1 DEF deliver_chunk
    <3>2. \A m \in msgs : m.via = "deal"
      BY DEF do_sharechunk
    <3> HIDE DEF msgs
    <3>3. net' \subseteq (net \ {}) \cup msgs
      BY <3>1, ExchangeFacts
    <3> QED
      BY <3>2, <3>3
  <2>2. CASE UNCHANGED coreVars
    BY <1>1, <2>2 DEF coreVars
  <2> QED
    BY <1>2, <2>1, <2>2 DEF ObjectStart, on_receive_start
<1>3. CASE ObjectChunk
  <2>1. PICK c \in InChunks : on_receive_shareChunk(self, c, {})
    BY <1>3 DEF ObjectChunk
  <2>2. CASE net' = net \ {}
    BY <1>1, <2>2
  <2>3. CASE Gather(self, c) /\ Exchange({}, Relay(self, c))
    <3>1. net' \subseteq (net \ {}) \cup Relay(self, c)
      BY <2>3, ExchangeFacts
    <3>2. \A m \in Relay(self, c) : m.chunk = c
      BY DEF Relay, do_broadcast_sharechunk
    <3>3. Cardinality(ownRow(c.replicaID)) <= nreconthres
      BY <2>3 DEF Gather, Row, ownRow
    <3> QED
      BY <3>1, <3>2, <3>3
  <2> QED
    BY <2>1, <2>2, <2>3, ChunkPaths, SelfAssumption
<1>4. CASE ObjectShare
  BY <1>1, <1>4 DEF ObjectShare, on_receive_share
<1> QED
  BY <1>1, <1>2, <1>3, <1>4 DEF ObjectNext, coreVars

\* A dealer past the threshold is closed for good.
THEOREM DealersClose == ObjectSpec => ClosedDealers
<1> DEFINE Closed(d) ==
             Cardinality(ownRow(d)) > nreconthres
               => /\ sharechunk_matrix'[self][d] = sharechunk_matrix[self][d]
                  /\ d \in DOMAIN sharing_map'[self] => d \in DOMAIN sharing_map[self]
                  /\ \A m \in net' \ net :
                       m.via = "relay" => m.chunk.replicaID # d
           A == \A d \in ReplicaID : Closed(d)
<1>1. OInv /\ [ObjectNext]_coreVars => [A]_coreVars
  <2> SUFFICES ASSUME OInv, [ObjectNext]_coreVars, NEW d \in ReplicaID,
                      Cardinality(ownRow(d)) > nreconthres
               PROVE  /\ sharechunk_matrix'[self][d] = sharechunk_matrix[self][d]
                      /\ d \in DOMAIN sharing_map'[self] => d \in DOMAIN sharing_map[self]
                      /\ \A m \in net' \ net : m.via = "relay" => m.chunk.replicaID # d
    OBVIOUS
  <2>1. CoreTypeOK
    BY DEF OInv, ObjectTypeOK
  <2>2. Cardinality(ownRow(d)) \in Nat
    <3>1. sharechunk_matrix[self][d] \in MapsFrom(ReplicaID, Gen)
      BY <2>1, SelfAssumption DEF CoreTypeOK
    <3>2. ownRow(d) \in SUBSET ReplicaID
      BY <3>1, MapType DEF ownRow
    <3> QED
      BY <3>2, ReplicaSets
  <2>3. sharechunk_matrix'[self][d] = sharechunk_matrix[self][d]
    BY <2>1, StepRows
  <2>4. d \in DOMAIN sharing_map'[self] => d \in DOMAIN sharing_map[self]
    <3>1. ASSUME NEW c \in InChunks, Gather(self, c), Decodable(self, c),
                 sharing_map'[self] = SharingsAfter(self, c)
          PROVE  d \in DOMAIN sharing_map'[self] => d \in DOMAIN sharing_map[self]
      <4>1. Cardinality(ownRow(c.replicaID)) <= nreconthres
        BY <2>1, <3>1, GatherEffect
      <4>2. c.replicaID # d
        BY <2>2, <4>1, ThresholdType
      <4>3. DOMAIN sharing_map'[self] = DOMAIN sharing_map[self] \cup {c.replicaID}
        BY <2>1, <3>1, SharingsType, SelfAssumption, InChunksAssumption
      <4> QED
        BY <4>2, <4>3
    <3> QED
      BY <2>1, <3>1, StepMap
  <2>5. \A m \in net' \ net : m.via = "relay" => m.chunk.replicaID # d
    BY <2>1, <2>2, StepSends, ThresholdType
  <2> QED
    BY <2>3, <2>4, <2>5
<1> QED
  BY <1>1, ObjectInvariance, PTL DEF ObjectSpec, ClosedDealers
=============================================================================
