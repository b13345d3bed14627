----------------------------- MODULE DrgNetProofs -----------------------------
(***************************************************************************)
(* The cluster of DrgNet for every number of replicas, every set of        *)
(* starters and of unreliable replicas: its safety properties, and that it *)
(* implements ChunkGossip.                                                 *)
(*                                                                         *)
(* The argument turns on the chunk at the dealer's own index.  Nobody ever *)
(* has it, so the row of dealer 0 never holds chunk 0; but the decoder     *)
(* reads that row whoever's chunk completed a row, so no decoding gets     *)
(* past it.  A replica therefore either stays below the threshold for      *)
(* every dealer or ends, and of the six ways through on_receive_shareChunk *)
(* only two are ever taken (Delivery).                                     *)
(***************************************************************************)
EXTENDS DrgNet, DrgCoreProofs

\* A message in the network carries a chunk whose proof is accepted.
AllVerify == \A m \in net : m.chunk.verifies /\ m.src # m.dst

\* The inductive invariant.
IInv ==
  /\ TypeOK
  /\ AllVerify
  /\ OwnChunkAbsent
  /\ RunningBelowThreshold
  /\ NothingRecovered
  /\ Provenance
  /\ NoChunkStranded

-----------------------------------------------------------------------------
\* What is known of a message in the network.
LEMMA MessageType ==
  ASSUME TypeOK, NEW m \in net
  PROVE  /\ m.src \in ReplicaID /\ m.dst \in ReplicaID
         /\ m.chunk \in ShareChunk
         /\ m.chunk.replicaID \in ReplicaID /\ m.chunk.idx \in ReplicaID
         /\ m.chunk.round = 0 /\ m.chunk.gen \in Gen
         /\ m.via \in {"deal", "relay"}
BY DEF TypeOK, CoreTypeOK, Message, ShareChunk

\* The row of dealer 0 lacks chunk 0 also after this chunk was gathered, so
\* the decoder does not find what it needs.
LEMMA NeverDecodable ==
  ASSUME TypeOK, OwnChunkAbsent, NEW m \in net
  PROVE  ~Decodable(m.dst, m.chunk)
<1> DEFINE r == m.dst
           c == m.chunk
<1>1. /\ r \in ReplicaID /\ c \in ShareChunk /\ c.replicaID \in ReplicaID
      /\ c.round = 0 /\ c.idx # c.replicaID
  BY MessageType DEF OwnChunkAbsent
<1>2. sharechunk_matrix[r] \in [ReplicaID -> MapsFrom(ReplicaID, Gen)]
  BY <1>1 DEF TypeOK, CoreTypeOK
<1>3. 0 \notin DOMAIN MatrixAfter(r, c)[0]
  <2>1. CASE c.replicaID = 0
    <3>1. MatrixAfter(r, c)[0] = RowAfter(r, c)
      BY <1>2, <2>1, ThresholdType DEF MatrixAfter
    <3>2. 0 \notin DOMAIN Row(r, c)
      BY <1>1, <2>1, ThresholdType DEF OwnChunkAbsent, row, Row
    <3>3. DOMAIN RowAfter(r, c) \subseteq DOMAIN Row(r, c) \cup {c.idx}
      BY <1>1, RowAfterFacts DEF TypeOK
    <3> QED
      BY <1>1, <2>1, <3>1, <3>2, <3>3
  <2>2. CASE c.replicaID # 0
    <3>1. MatrixAfter(r, c)[0] = sharechunk_matrix[r][0]
      BY <1>2, <2>2, ThresholdType DEF MatrixAfter
    <3> QED
      BY <1>1, <3>1, ThresholdType DEF OwnChunkAbsent, row
  <2> QED
    BY <2>1, <2>2
<1> QED
  BY <1>1, <1>3, ThresholdType DEF Decodable, DecodeRow

\* A delivery either records the chunk or ends its receiver.
LEMMA Delivery ==
  ASSUME IInv, NEW m \in net, sharechunk_handler(m)
  PROVE  /\ running(m.dst)
         /\ \/ RecordChunk(m.dst, m.chunk, {m})
            \/ DecodeNull(m.dst, m.chunk, {m})
<1> DEFINE r == m.dst
           c == m.chunk
<1>1. r \in ReplicaID /\ c \in ShareChunk /\ c.replicaID \in ReplicaID
  BY MessageType DEF IInv
<1>2. on_receive_shareChunk(r, c, {m})
  BY DEF sharechunk_handler
<1>3. ~Decodable(r, c)
  BY NeverDecodable DEF IInv
<1>4. running(r)
  BY <1>2 DEF on_receive_shareChunk, IgnoreChunk, RecordChunk, DecodeNull,
              DecodeGarbage, RecoverSharing, AggregateAndShare, Gather
<1>5. ~IgnoreChunk(r, c, {m})
  <2>1. Cardinality(DOMAIN Row(r, c)) < nreconthres
    BY <1>1, <1>4 DEF IInv, RunningBelowThreshold, row, Row
  <2>2. Cardinality(DOMAIN Row(r, c)) \in Nat
    BY <1>1, RowAfterSize DEF IInv, TypeOK
  <2> QED
    BY <2>1, <2>2, ThresholdType DEF IgnoreChunk
<1> QED
  BY <1>2, <1>3, <1>4, <1>5 DEF on_receive_shareChunk, DecodeGarbage, RecoverSharing,
                                AggregateAndShare

\* The handler of a chunk, run to its end or killed on the way.
Handling(m) == sharechunk_handler(m) \/ KillHandling(m)

\* What the handling of a chunk does to the cluster.
LEMMA DeliveryEffect ==
  ASSUME IInv, NEW m \in net, Handling(m)
  PROVE  /\ running(m.dst)
         /\ UNCHANGED <<sharing_map, dec_share_vec, deals, net_share>>
         /\ \A p, d \in ReplicaID :
              row(p, d)' = row(p, d) \cup
                (IF p = m.dst /\ d = m.chunk.replicaID THEN {m.chunk.idx} ELSE {})
         /\ \A p, d \in ReplicaID : \A i \in row(p, d) :
              sharechunk_matrix'[p][d][i] = sharechunk_matrix[p][d][i]
         /\ Fresh(m.dst, m.chunk) =>
              sharechunk_matrix'[m.dst][m.chunk.replicaID][m.chunk.idx] = m.chunk.gen
         /\ \A p \in ReplicaID : p # m.dst => status'[p] = status[p]
         /\ status'[m.dst] \in {"running", "segfault", "killed"}
         /\ status'[m.dst] = "running" =>
              Cardinality(row(m.dst, m.chunk.replicaID)') < nreconthres
         /\ status'[m.dst] = "segfault" =>
              /\ Fresh(m.dst, m.chunk)
              /\ ~(Cardinality(row(m.dst, m.chunk.replicaID)') < nreconthres)
         /\ status'[m.dst] = "killed" => ~sharechunk_handler(m)
         /\ Gather(m.dst, m.chunk)
         /\ Exchange({m}, Relay(m.dst, m.chunk))
<1> DEFINE r == m.dst
           c == m.chunk
           d0 == c.replicaID
<1>1. /\ r \in ReplicaID /\ c \in ShareChunk /\ d0 \in ReplicaID /\ c.idx \in ReplicaID
      /\ c.verifies
  BY MessageType DEF IInv, AllVerify
<1>2. /\ running(r)
      /\ \/ RecordChunk(r, c, {m})
         \/ DecodeNull(r, c, {m})
         \/ KillHandling(m) /\ ~sharechunk_handler(m)
  BY Delivery DEF Handling, KillHandling, killed
<1>3. /\ Gather(r, c) /\ Exchange({m}, Relay(r, c))
      /\ UNCHANGED <<sharing_map, dec_share_vec, deals, net_share>>
  BY <1>2 DEF RecordChunk, DecodeNull, KillHandling
<1>4. CoreTypeOK
  BY DEF IInv, TypeOK
<1>5. /\ sharechunk_matrix'[r][d0] = RowAfter(r, c)
      /\ \A p, d \in ReplicaID :
           p # r \/ d # d0 => sharechunk_matrix'[p][d] = sharechunk_matrix[p][d]
  BY <1>1, <1>3, <1>4, GatherType
<1>6. /\ DOMAIN RowAfter(r, c) = DOMAIN Row(r, c) \cup {c.idx}
      /\ \A i \in DOMAIN Row(r, c) : RowAfter(r, c)[i] = Row(r, c)[i]
      /\ Fresh(r, c) => RowAfter(r, c)[c.idx] = c.gen
      /\ ~Fresh(r, c) => RowAfter(r, c) = Row(r, c)
  BY <1>1, <1>4, RowAfterFacts
<1>7. Row(r, c) = sharechunk_matrix[r][d0]
  BY DEF Row
<1>8. \A p, d \in ReplicaID :
        row(p, d)' = row(p, d) \cup (IF p = r /\ d = d0 THEN {c.idx} ELSE {})
  BY <1>5, <1>6, <1>7 DEF row
<1>9. \A p, d \in ReplicaID : \A i \in row(p, d) :
        sharechunk_matrix'[p][d][i] = sharechunk_matrix[p][d][i]
  BY <1>5, <1>6, <1>7 DEF row
<1>10. Fresh(r, c) => sharechunk_matrix'[r][d0][c.idx] = c.gen
  BY <1>5, <1>6
<1>11. /\ Cardinality(DOMAIN Row(r, c)) < nreconthres
       /\ Cardinality(DOMAIN Row(r, c)) \in Nat
       /\ Cardinality(DOMAIN RowAfter(r, c)) \in Nat
       /\ Cardinality(DOMAIN RowAfter(r, c)) <= Cardinality(DOMAIN Row(r, c)) + 1
  BY <1>1, <1>2, <1>4, RowAfterSize DEF IInv, RunningBelowThreshold, row, Row
<1>12. row(r, d0)' = DOMAIN RowAfter(r, c)
  BY <1>5 DEF row
<1>13. status \in [ReplicaID -> Status]
  BY <1>4 DEF CoreTypeOK
<1>14. CASE RecordChunk(r, c, {m})
  <2>1. status' = status
    BY <1>14 DEF RecordChunk
  <2>2. Cardinality(row(r, d0)') < nreconthres
    BY <1>11, <1>12, <1>14, ThresholdType DEF RecordChunk, AtThreshold
  <2> QED
    BY <1>2, <1>3, <1>8, <1>9, <1>10, <2>1, <2>2 DEF running
<1>15. CASE DecodeNull(r, c, {m})
  <2>1. status' = [status EXCEPT ![r] = "segfault"]
    BY <1>15 DEF DecodeNull
  <2>2. status'[r] = "segfault" /\ \A p \in ReplicaID : p # r => status'[p] = status[p]
    BY <1>1, <1>13, <2>1
  <2>3. Cardinality(row(r, d0)') = nreconthres
    BY <1>12, <1>15 DEF DecodeNull, AtThreshold
  <2>4. Fresh(r, c)
    BY <1>6, <1>11, <1>12, <2>3, ThresholdType
  <2>5. ~(Cardinality(row(r, d0)') < nreconthres)
    BY <2>3, ThresholdType
  <2> QED
    BY <1>2, <1>3, <1>8, <1>9, <1>10, <2>2, <2>4, <2>5
<1>16. CASE KillHandling(m) /\ ~sharechunk_handler(m)
  <2>1. status'[r] = "killed" /\ \A p \in ReplicaID : p # r => status'[p] = status[p]
    BY <1>1, <1>13, <1>16 DEF KillHandling, killed
  <2> QED
    BY <1>2, <1>3, <1>8, <1>9, <1>10, <1>16, <2>1
<1> QED
  BY <1>2, <1>14, <1>15, <1>16

-----------------------------------------------------------------------------
(* Every action preserves the inductive invariant.                         *)

\* What deliver_chunk adds to the network.
LEMMA DealEffect ==
  ASSUME TypeOK, NEW r \in ReplicaID, deliver_chunk(r), running(r)
  PROVE  /\ UNCHANGED <<status, sharechunk_matrix, sharing_map, dec_share_vec, net_share>>
         /\ deals' = [deals EXCEPT ![r] = @ + 1]
         /\ \A m \in net' \ net :
              /\ m.via = "deal" /\ m.src = r /\ m.dst = m.chunk.idx /\ m.dst # r
              /\ m.chunk.replicaID = r /\ m.chunk.gen = deals[r] + 1 /\ m.chunk.verifies
         /\ \A m \in net : running(m.dst) => m \in net'
         /\ \A p \in Peers(r) : running(p) =>
              \E m \in net' :
                m.src = r /\ m.dst = p /\ m.chunk.replicaID = r /\ m.chunk.idx = p
<1> DEFINE chunk(i) == [replicaID |-> r, idx |-> i, round |-> 0,
                        gen |-> deals[r] + 1, verifies |-> TRUE]
           msgs == {do_sharechunk(r, chunk(i), i) : i \in Peers(r)}
<1>1. Exchange({}, msgs)
  BY DEF deliver_chunk
<1>2. /\ net' \subseteq net \cup msgs
      /\ \A m \in net \cup msgs : status'[m.dst] = "running" => m \in net'
  <2> HIDE DEF msgs
  <2> QED
    BY <1>1, ExchangeFacts
<1>3. \A m \in msgs :
        /\ m.via = "deal" /\ m.src = r /\ m.dst = m.chunk.idx /\ m.dst # r
        /\ m.chunk.replicaID = r /\ m.chunk.gen = deals[r] + 1 /\ m.chunk.verifies
  BY DEF do_sharechunk, Peers
<1>4. /\ UNCHANGED <<status, sharechunk_matrix, sharing_map, dec_share_vec, net_share>>
      /\ deals' = [deals EXCEPT ![r] = @ + 1]
  BY DEF deliver_chunk
<1>5. \A p \in Peers(r) : \E m \in msgs :
        m.src = r /\ m.dst = p /\ m.chunk.replicaID = r /\ m.chunk.idx = p
  <2> SUFFICES ASSUME NEW p \in Peers(r)
               PROVE  \E m \in msgs : /\ m.src = r /\ m.dst = p
                                      /\ m.chunk.replicaID = r /\ m.chunk.idx = p
    OBVIOUS
  <2>1. do_sharechunk(r, chunk(p), p) \in msgs
    OBVIOUS
  <2> QED
    BY <2>1 DEF do_sharechunk
<1> HIDE DEF msgs
<1>6. ASSUME NEW p \in Peers(r), running(p)
      PROVE  \E m \in net' :
               m.src = r /\ m.dst = p /\ m.chunk.replicaID = r /\ m.chunk.idx = p
  <2>1. PICK m \in msgs : m.src = r /\ m.dst = p /\ m.chunk.replicaID = r /\ m.chunk.idx = p
    BY <1>5
  <2> QED
    BY <1>2, <1>4, <1>6, <2>1 DEF running
<1> QED
  BY <1>2, <1>3, <1>4, <1>6 DEF running

\* Dealing preserves the invariant.
LEMMA DealStep ==
  ASSUME IInv, NEW r \in ReplicaID, deliver_chunk(r), on_receive_start(r)
  PROVE  IInv'
<1>1. running(r) /\ TypeOK
  BY DEF on_receive_start, IInv
<1>2. /\ UNCHANGED <<status, sharechunk_matrix, sharing_map, dec_share_vec, net_share>>
      /\ deals' = [deals EXCEPT ![r] = @ + 1]
      /\ \A m \in net' \ net :
           /\ m.via = "deal" /\ m.src = r /\ m.dst = m.chunk.idx /\ m.dst # r
           /\ m.chunk.replicaID = r /\ m.chunk.gen = deals[r] + 1 /\ m.chunk.verifies
      /\ \A m \in net : running(m.dst) => m \in net'
      /\ \A p \in Peers(r) : running(p) =>
           \E m \in net' :
             m.src = r /\ m.dst = p /\ m.chunk.replicaID = r /\ m.chunk.idx = p
  BY <1>1, DealEffect
<1>3. TypeOK'
  BY <1>1, StartType DEF TypeOK
<1>4. AllVerify'
  BY <1>2 DEF AllVerify, IInv
<1>5. OwnChunkAbsent'
  BY <1>2 DEF OwnChunkAbsent, IInv, row
<1>6. RunningBelowThreshold' /\ NothingRecovered'
  BY <1>2 DEF RunningBelowThreshold, NothingRecovered, IInv, row, running
<1>7. Provenance'
  <2>1. \A d \in ReplicaID : /\ deals[d] \in Int /\ deals'[d] \in Int
                             /\ deals[d] <= deals'[d]
                             /\ deals'[r] = deals[r] + 1
    BY <1>1, <1>2, MaxDealsAssumption DEF TypeOK, CoreTypeOK
  <2>2. ASSUME NEW m \in net'
        PROVE  /\ m.chunk.gen <= deals'[m.chunk.replicaID]
               /\ m.via = "deal" => m.src = m.chunk.replicaID /\ m.dst = m.chunk.idx
               /\ m.via = "relay" =>
                    /\ m.chunk.idx \in row(m.src, m.chunk.replicaID)'
                    /\ sharechunk_matrix'[m.src][m.chunk.replicaID][m.chunk.idx] = m.chunk.gen
    <3>1. CASE m \in net
      <4>1. m.chunk.replicaID \in ReplicaID /\ m.chunk.gen \in Int
        BY <1>1, <3>1, MessageType, MaxDealsAssumption DEF Gen
      <4>2. m.chunk.gen <= deals[m.chunk.replicaID]
        BY <3>1 DEF Provenance, IInv
      <4>3. m.chunk.gen <= deals'[m.chunk.replicaID]
        BY <2>1, <4>1, <4>2
      <4> QED
        BY <1>2, <3>1, <4>3 DEF Provenance, IInv, row
    <3>2. CASE m \notin net
      BY <1>2, <2>1, <3>2
    <3> QED
      BY <3>1, <3>2
  <2>3. ASSUME NEW p \in ReplicaID, NEW d \in ReplicaID, NEW i \in row(p, d)
        PROVE  sharechunk_matrix[p][d][i] <= deals'[d]
    <3>1. sharechunk_matrix[p][d][i] \in Gen
      <4>1. sharechunk_matrix[p][d] \in MapsFrom(ReplicaID, Gen)
        BY <1>1 DEF TypeOK, CoreTypeOK
      <4> QED
        BY <4>1, MapType DEF row
    <3>2. sharechunk_matrix[p][d][i] <= deals[d]
      BY DEF Provenance, IInv
    <3> QED
      BY <2>1, <3>1, <3>2, MaxDealsAssumption DEF Gen
  <2> QED
    BY <1>2, <2>2, <2>3 DEF Provenance, row
<1>8. NoChunkStranded'
  <2>1. \A d \in ReplicaID : d # r => (Dealt(d)' <=> Dealt(d))
    BY <1>1, <1>2 DEF TypeOK, CoreTypeOK, Dealt
  <2>2. ASSUME NEW q \in ReplicaID, NEW p \in ReplicaID \ Unreliable, NEW d \in ReplicaID,
               NEW i \in Sent(q, p, d)', running(q), running(p), p # q, i \notin row(p, d)
        PROVE  \E m \in net' :
                 m.src = q /\ m.dst = p /\ m.chunk.replicaID = d /\ m.chunk.idx = i
    <3>1. CASE i \in Sent(q, p, d)
      <4>1. PICK m \in net :
              m.src = q /\ m.dst = p /\ m.chunk.replicaID = d /\ m.chunk.idx = i
        BY <2>2, <3>1 DEF NoChunkStranded, IInv
      <4> QED
        BY <1>2, <2>2, <4>1
    <3>2. CASE i \notin Sent(q, p, d)
      <4>1. q = r /\ d = r /\ i = p
        BY <1>2, <2>1, <2>2, <3>2 DEF Sent, row
      <4> QED
        BY <1>2, <2>2, <4>1 DEF Peers
    <3> QED
      BY <3>1, <3>2
  <2> QED
    BY <1>2, <2>2 DEF NoChunkStranded, row, running
<1> QED
  BY <1>3, <1>4, <1>5, <1>6, <1>7, <1>8 DEF IInv

\* Losing a message preserves the invariant.
LEMMA LoseStep ==
  ASSUME IInv, NEW m \in net, Lose(m)
  PROVE  IInv'
<1>1. /\ net' = net \ {m} /\ (m.dst \in Unreliable \/ ~running(m.src))
      /\ UNCHANGED <<status, sharechunk_matrix, sharing_map, dec_share_vec, deals, net_share>>
  BY DEF Lose
<1>2. TypeOK' /\ AllVerify' /\ OwnChunkAbsent' /\ RunningBelowThreshold' /\ NothingRecovered'
  BY <1>1 DEF IInv, TypeOK, CoreTypeOK, AllVerify, OwnChunkAbsent, RunningBelowThreshold,
              NothingRecovered, row, running
<1>3. Provenance'
  BY <1>1 DEF IInv, Provenance, row
<1>4. NoChunkStranded'
  <2>1. ASSUME NEW q \in ReplicaID, NEW p \in ReplicaID \ Unreliable, NEW d \in ReplicaID,
               NEW i \in Sent(q, p, d), running(q), running(p), p # q, i \notin row(p, d)
        PROVE  \E n \in net' :
                 n.src = q /\ n.dst = p /\ n.chunk.replicaID = d /\ n.chunk.idx = i
    <3>1. PICK n \in net :
            n.src = q /\ n.dst = p /\ n.chunk.replicaID = d /\ n.chunk.idx = i
      BY <2>1 DEF IInv, NoChunkStranded
    <3> QED
      BY <1>1, <2>1, <3>1
  <2> QED
    BY <1>1, <2>1 DEF NoChunkStranded, Sent, Dealt, row, running
<1> QED
  BY <1>2, <1>3, <1>4 DEF IInv

\* Killing a replica preserves the invariant.
LEMMA KillStep ==
  ASSUME IInv, NEW r \in Unreliable, Kill(r)
  PROVE  IInv'
<1>1. /\ net' = {m \in net : status'[m.dst] = "running"} /\ r \in ReplicaID
      /\ status' = [status EXCEPT ![r] = "killed"]
      /\ UNCHANGED <<sharechunk_matrix, sharing_map, dec_share_vec, deals, net_share>>
  BY UnreliableAssumption DEF Kill, killed, Exchange
<1>2. status \in [ReplicaID -> Status]
  BY DEF IInv, TypeOK, CoreTypeOK
<1>3. \A p \in ReplicaID : running(p)' => running(p) /\ p # r
  BY <1>1, <1>2 DEF running
<1>4. TypeOK'
  BY <1>1 DEF IInv, TypeOK, CoreTypeOK, Status
<1>5. AllVerify' /\ OwnChunkAbsent'
  BY <1>1 DEF IInv, AllVerify, OwnChunkAbsent, row
<1>6. RunningBelowThreshold'
  BY <1>1, <1>3 DEF IInv, RunningBelowThreshold, row
<1>7. NothingRecovered'
  BY <1>1, <1>2 DEF IInv, NothingRecovered
<1>8. Provenance'
  BY <1>1 DEF IInv, Provenance, row
<1>9. NoChunkStranded'
  <2>1. ASSUME NEW q \in ReplicaID, NEW p \in ReplicaID \ Unreliable, NEW d \in ReplicaID,
               NEW i \in Sent(q, p, d), running(q)', running(p)', p # q, i \notin row(p, d)
        PROVE  \E n \in net' :
                 n.src = q /\ n.dst = p /\ n.chunk.replicaID = d /\ n.chunk.idx = i
    <3>1. PICK n \in net :
            n.src = q /\ n.dst = p /\ n.chunk.replicaID = d /\ n.chunk.idx = i
      BY <1>3, <2>1 DEF IInv, NoChunkStranded
    <3> QED
      BY <1>1, <2>1, <3>1 DEF running
  <2> QED
    BY <1>1, <2>1 DEF NoChunkStranded, Sent, Dealt, row
<1> QED
  BY <1>4, <1>5, <1>6, <1>7, <1>8, <1>9 DEF IInv

\* What the handling of a chunk leaves in the network: what was there for replicas
\* that run on, but for the message itself, and relays of the chunk if it was new.
LEMMA DeliveryNet ==
  ASSUME IInv, NEW m \in net, Handling(m)
  PROVE  /\ \A n \in net' \ net :
              /\ Fresh(m.dst, m.chunk)
              /\ n.via = "relay" /\ n.src = m.dst /\ n.src # n.dst /\ n.chunk = m.chunk
         /\ \A n \in net \ {m} : status'[n.dst] = "running" => n \in net'
         /\ Fresh(m.dst, m.chunk) =>
              \A p \in ReplicaID \ {m.dst} : status'[p] = "running" =>
                \E n \in net' : n.src = m.dst /\ n.dst = p /\ n.chunk = m.chunk
<1> DEFINE r == m.dst
           c == m.chunk
           msgs == Relay(r, c)
<1>1. Exchange({m}, msgs)
  BY DeliveryEffect
<1>2. /\ net' \subseteq (net \ {m}) \cup msgs
      /\ \A n \in (net \ {m}) \cup msgs : status'[n.dst] = "running" => n \in net'
  <2> HIDE DEF msgs, r
  <2> QED
    BY <1>1, ExchangeFacts
<1>3. \A n \in msgs :
        /\ Fresh(r, c)
        /\ n.via = "relay" /\ n.src = r /\ n.src # n.dst /\ n.chunk = c
  BY DEF Relay, do_broadcast_sharechunk, Peers
<1>4. Fresh(r, c) =>
        \A p \in ReplicaID \ {r} : \E n \in msgs : n.src = r /\ n.dst = p /\ n.chunk = c
  <2> SUFFICES ASSUME Fresh(r, c), NEW p \in ReplicaID \ {r}
               PROVE  \E n \in msgs : n.src = r /\ n.dst = p /\ n.chunk = c
    OBVIOUS
  <2> DEFINE n == [src |-> r, dst |-> p, via |-> "relay", chunk |-> c]
  <2>1. n \in msgs
    BY DEF Relay, do_broadcast_sharechunk, Peers
  <2> QED
    BY <2>1
<1> HIDE DEF msgs, r, c
<1>5. \A n \in net' \ net :
        Fresh(r, c) /\ n.via = "relay" /\ n.src = r /\ n.src # n.dst /\ n.chunk = c
  BY <1>2, <1>3
<1>6. ASSUME Fresh(r, c), NEW p \in ReplicaID \ {r}, status'[p] = "running"
      PROVE  \E n \in net' : n.src = r /\ n.dst = p /\ n.chunk = c
  <2>1. PICK n \in msgs : n.src = r /\ n.dst = p /\ n.chunk = c
    BY <1>4, <1>6
  <2> QED
    BY <1>2, <1>6, <2>1
<1> QED
  BY <1>2, <1>5, <1>6 DEF r, c

\* Handling a chunk preserves the invariant.
LEMMA DeliverStep ==
  ASSUME IInv, NEW m \in net, Handling(m)
  PROVE  IInv'
<1> DEFINE r == m.dst
           c == m.chunk
           d0 == c.replicaID
<1>1. /\ r \in ReplicaID /\ c \in ShareChunk /\ d0 \in ReplicaID /\ c.idx \in ReplicaID
      /\ c.verifies /\ c.idx # d0
  BY MessageType DEF IInv, AllVerify, OwnChunkAbsent
<1>2. /\ UNCHANGED <<sharing_map, dec_share_vec, deals, net_share>>
      /\ \A p, d \in ReplicaID :
           row(p, d)' = row(p, d) \cup (IF p = r /\ d = d0 THEN {c.idx} ELSE {})
      /\ \A p, d \in ReplicaID : \A i \in row(p, d) :
           sharechunk_matrix'[p][d][i] = sharechunk_matrix[p][d][i]
      /\ Fresh(r, c) => sharechunk_matrix'[r][d0][c.idx] = c.gen
      /\ \A p \in ReplicaID : p # r => status'[p] = status[p]
      /\ status'[r] \in {"running", "segfault", "killed"}
      /\ status'[r] = "running" => Cardinality(row(r, d0)') < nreconthres
  BY DeliveryEffect
<1>3. /\ \A n \in net' \ net :
           /\ Fresh(r, c)
           /\ n.via = "relay" /\ n.src = r /\ n.src # n.dst /\ n.chunk = c
      /\ \A n \in net \ {m} : status'[n.dst] = "running" => n \in net'
      /\ Fresh(r, c) =>
           \A p \in ReplicaID \ {r} : status'[p] = "running" =>
             \E n \in net' : n.src = r /\ n.dst = p /\ n.chunk = c
  BY DeliveryNet
<1>4. running(r)
  BY DeliveryEffect
<1>5. \A p \in ReplicaID : running(p)' => running(p)
  BY <1>1, <1>2, <1>4 DEF running
<1>6. TypeOK'
  <2>1. CASE on_receive_shareChunk(r, c, {m})
    BY <1>1, <2>1, ChunkType DEF IInv, TypeOK
  <2>2. CASE KillHandling(m)
    <3>1. net' \subseteq Message
      <4>1. net' \subseteq net \cup Relay(r, c)
        BY DeliveryEffect DEF Exchange
      <4> QED
        BY <1>1, <4>1, RelayType DEF IInv, TypeOK, CoreTypeOK
    <3>2. status' \in [ReplicaID -> Status]
      BY <2>2 DEF KillHandling, killed, IInv, TypeOK, CoreTypeOK, Status
    <3>3. sharechunk_matrix' \in [ReplicaID -> [ReplicaID -> MapsFrom(ReplicaID, Gen)]]
      BY <1>1, <2>2, GatherType DEF KillHandling, IInv, TypeOK
    <3> QED
      BY <1>2, <3>1, <3>2, <3>3 DEF IInv, TypeOK, CoreTypeOK
  <2> QED
    BY <2>1, <2>2 DEF Handling, sharechunk_handler
<1>7. AllVerify'
  BY <1>1, <1>3 DEF IInv, AllVerify
<1>8. OwnChunkAbsent'
  <2>1. \A n \in net' : n.chunk.idx # n.chunk.replicaID
    BY <1>1, <1>3 DEF IInv, OwnChunkAbsent
  <2>2. \A p, d \in ReplicaID : d \notin row(p, d)'
    BY <1>1, <1>2 DEF IInv, OwnChunkAbsent
  <2> QED
    BY <2>1, <2>2 DEF OwnChunkAbsent
<1>9. RunningBelowThreshold'
  <2>1. ASSUME NEW p \in ReplicaID, NEW d \in ReplicaID, running(p)'
        PROVE  Cardinality(row(p, d)') < nreconthres
    <3>1. CASE p = r /\ d = d0
      BY <1>2, <2>1, <3>1 DEF running
    <3>2. CASE ~(p = r /\ d = d0)
      <4>1. row(p, d)' = row(p, d) \cup {}
        BY <1>2, <3>2
      <4>2. row(p, d) \cup {} = row(p, d)
        OBVIOUS
      <4> QED
        BY <1>5, <2>1, <4>1, <4>2 DEF IInv, RunningBelowThreshold
    <3> QED
      BY <3>1, <3>2
  <2> QED
    BY <2>1 DEF RunningBelowThreshold
<1>10. NothingRecovered'
  <2>1. \A p \in ReplicaID : status'[p] # "abort"
    BY <1>1, <1>2 DEF IInv, NothingRecovered
  <2> QED
    BY <1>2, <2>1 DEF IInv, NothingRecovered
<1>11. Provenance'
  <2>1. ASSUME NEW n \in net'
        PROVE  /\ n.chunk.gen <= deals[n.chunk.replicaID]
               /\ n.via = "deal" => n.src = n.chunk.replicaID /\ n.dst = n.chunk.idx
               /\ n.via = "relay" =>
                    /\ n.chunk.idx \in row(n.src, n.chunk.replicaID)'
                    /\ sharechunk_matrix'[n.src][n.chunk.replicaID][n.chunk.idx] = n.chunk.gen
    <3>1. CASE n \in net
      <4>1. n.src \in ReplicaID /\ n.chunk.replicaID \in ReplicaID
        BY <3>1, MessageType DEF IInv
      <4> QED
        BY <1>2, <3>1, <4>1 DEF IInv, Provenance
    <3>2. CASE n \notin net
      <4>1. Fresh(r, c) /\ n.via = "relay" /\ n.src = r /\ n.chunk = c
        BY <1>3, <3>2
      <4>2. c.gen <= deals[d0]
        BY DEF IInv, Provenance
      <4> QED
        BY <1>1, <1>2, <4>1, <4>2
    <3> QED
      BY <3>1, <3>2
  <2>2. ASSUME NEW p \in ReplicaID, NEW d \in ReplicaID, NEW i \in row(p, d)'
        PROVE  sharechunk_matrix'[p][d][i] <= deals[d]
    <3>1. CASE i \in row(p, d)
      BY <1>2, <3>1 DEF IInv, Provenance
    <3>2. CASE i \notin row(p, d)
      <4>1. p = r /\ d = d0 /\ i = c.idx
        BY <1>2, <2>2, <3>2
      <4>2. Fresh(r, c)
        BY <3>2, <4>1 DEF Fresh, Row, row
      <4>3. c.gen <= deals[d0]
        BY DEF IInv, Provenance
      <4> QED
        BY <1>2, <4>1, <4>2, <4>3
    <3> QED
      BY <3>1, <3>2
  <2> QED
    BY <1>2, <2>1, <2>2 DEF Provenance, row
<1>12. NoChunkStranded'
  <2>1. ASSUME NEW q \in ReplicaID, NEW p \in ReplicaID \ Unreliable, NEW d \in ReplicaID,
               NEW i \in Sent(q, p, d)', running(q)', running(p)', p # q, i \notin row(p, d)'
        PROVE  \E n \in net' :
                 n.src = q /\ n.dst = p /\ n.chunk.replicaID = d /\ n.chunk.idx = i
    <3>1. i \notin row(p, d)
      BY <1>2, <2>1
    <3>2. CASE i \in Sent(q, p, d)
      <4>1. PICK n \in net :
              n.src = q /\ n.dst = p /\ n.chunk.replicaID = d /\ n.chunk.idx = i
        BY <1>5, <2>1, <3>1, <3>2 DEF IInv, NoChunkStranded
      <4>2. n # m
        BY <1>2, <2>1, <4>1
      <4> QED
        BY <1>3, <2>1, <4>1, <4>2 DEF running
    <3>3. CASE i \notin Sent(q, p, d)
      <4>1. i \in row(q, d)' /\ i \notin row(q, d)
        BY <1>2, <2>1, <3>3 DEF Sent, Dealt
      <4>2. q = r /\ d = d0 /\ i = c.idx
        BY <1>2, <4>1
      <4>3. Fresh(r, c)
        BY <4>1, <4>2 DEF Fresh, Row, row
      <4> QED
        BY <1>3, <2>1, <4>2, <4>3 DEF running
    <3> QED
      BY <3>2, <3>3
  <2> QED
    BY <2>1 DEF NoChunkStranded
<1> QED
  BY <1>6, <1>7, <1>8, <1>9, <1>10, <1>11, <1>12 DEF IInv

-----------------------------------------------------------------------------
(* The safety properties.                                                  *)

\* A fresh cluster satisfies the invariant.
LEMMA InitInv == Init => IInv
<1> SUFFICES ASSUME Init PROVE IInv
  OBVIOUS
<1>1. TypeOK
  BY InitType DEF Init, TypeOK
<1>2. \A r, d \in ReplicaID : row(r, d) = {}
  BY EmptyMapType DEF Init, CoreInit, row
<1>3. AllVerify /\ OwnChunkAbsent /\ Provenance /\ NoChunkStranded
  BY <1>2 DEF Init, CoreInit, AllVerify, OwnChunkAbsent, Provenance, NoChunkStranded, Sent, Dealt
<1>4. RunningBelowThreshold
  BY <1>2, FS_EmptySet, ThresholdType DEF RunningBelowThreshold
<1>5. NothingRecovered
  BY DEF Init, CoreInit, NothingRecovered
<1> QED
  BY <1>1, <1>3, <1>4, <1>5 DEF IInv

\* Every step preserves the invariant.
LEMMA NextInv == IInv /\ [Next]_vars => IInv'
<1> SUFFICES ASSUME IInv, [Next]_vars PROVE IInv'
  OBVIOUS
<1>1. CASE UNCHANGED vars
  BY <1>1 DEF vars, coreVars, IInv, TypeOK, CoreTypeOK, AllVerify, OwnChunkAbsent,
              RunningBelowThreshold, NothingRecovered, Provenance, NoChunkStranded, Sent, Dealt,
              row, running
<1>2. CASE Start
  <2>1. PICK r \in Starters : on_receive_start(r)
    BY <1>2 DEF Start
  <2>2. CASE UNCHANGED coreVars
    BY <1>1, <2>2 DEF vars
  <2>3. CASE deliver_chunk(r)
    BY <2>1, <2>3, DealStep, StartersAssumption
  <2> QED
    BY <2>1, <2>2, <2>3 DEF on_receive_start
<1>3. CASE Deliver
  BY <1>3, DeliverStep DEF Deliver, Handling
<1>4. CASE \E m \in net : Lose(m)
  BY <1>4, LoseStep
<1>5. CASE \E r \in Unreliable : Kill(r)
  BY <1>5, KillStep
<1>6. CASE \E m \in net : m.dst \in Unreliable /\ KillHandling(m)
  BY <1>6, DeliverStep DEF Handling
<1> QED
  BY <1>1, <1>2, <1>3, <1>4, <1>5, <1>6 DEF Next

\* The inductive invariant holds throughout.
THEOREM Invariance == Spec => []IInv
BY InitInv, NextInv, PTL DEF Spec

\* The variables of the cluster keep their types.
THEOREM TypeCorrect == Spec => []TypeOK
<1>1. IInv => TypeOK
  BY DEF IInv
<1> QED
  BY <1>1, Invariance, PTL

\* Nothing is made up on the way: chunks in flight and kept are of sharings
\* that were dealt, and a relay carries what its sender keeps.
THEOREM ProvenanceHolds == Spec => []Provenance
<1>1. IInv => Provenance
  BY DEF IInv
<1> QED
  BY <1>1, Invariance, PTL

\* The chunk at a dealer's own index exists nowhere.
THEOREM OwnChunkNeverExists == Spec => []OwnChunkAbsent
<1>1. IInv => OwnChunkAbsent
  BY DEF IInv
<1> QED
  BY <1>1, Invariance, PTL

\* Whoever runs is below the threshold for every dealer.
THEOREM RunningStaysBelow == Spec => []RunningBelowThreshold
<1>1. IInv => RunningBelowThreshold
  BY DEF IInv
<1> QED
  BY <1>1, Invariance, PTL

\* In a cluster of any size no sharing is ever recovered and no decryption
\* share is ever taken or sent.
THEOREM NeverRecovers == Spec => []NothingRecovered
<1>1. IInv => NothingRecovered
  BY DEF IInv
<1> QED
  BY <1>1, Invariance, PTL

\* What a running replica has relayed or dealt is kept by every other running replica
\* that loses no messages, or its own copy is on its way there.
THEOREM NothingStranded == Spec => []NoChunkStranded
<1>1. IInv => NoChunkStranded
  BY DEF IInv
<1> QED
  BY <1>1, Invariance, PTL

\* A relay leaves in the step in which its chunk becomes kept, and in no other.
THEOREM RelaysOnce == Spec => RelayedOnce
<1> DEFINE A == \A m \in net' \ net :
                  m.via = "relay" =>
                    /\ m.chunk.idx \notin row(m.src, m.chunk.replicaID)
                    /\ m.chunk.idx \in row(m.src, m.chunk.replicaID)'
<1>1. IInv /\ [Next]_vars => [A]_vars
  <2> SUFFICES ASSUME IInv, Next, NEW n \in net' \ net, n.via = "relay"
               PROVE  /\ n.chunk.idx \notin row(n.src, n.chunk.replicaID)
                      /\ n.chunk.idx \in row(n.src, n.chunk.replicaID)'
    OBVIOUS
  <2>1. CASE Start
    <3>1. PICK r \in Starters : on_receive_start(r)
      BY <2>1 DEF Start
    <3>2. CASE UNCHANGED coreVars
      BY <3>2 DEF coreVars
    <3>3. CASE deliver_chunk(r)
      <4>1. r \in ReplicaID /\ running(r) /\ TypeOK
        BY <3>1, StartersAssumption DEF on_receive_start, IInv
      <4>2. n.via = "deal"
        BY <3>3, <4>1, DealEffect
      <4> QED
        BY <4>2
    <3> QED
      BY <3>1, <3>2, <3>3 DEF on_receive_start
  <2>2. CASE \E m \in net : Handling(m)
    <3>1. PICK m \in net : Handling(m)
      BY <2>2
    <3>2. Fresh(m.dst, m.chunk) /\ n.src = m.dst /\ n.chunk = m.chunk
      BY <3>1, DeliveryNet
    <3>3. m.dst \in ReplicaID /\ m.chunk.replicaID \in ReplicaID
      BY MessageType DEF IInv
    <3>4. row(m.dst, m.chunk.replicaID)' = row(m.dst, m.chunk.replicaID) \cup {m.chunk.idx}
      BY <3>1, <3>3, DeliveryEffect
    <3> QED
      BY <3>2, <3>4 DEF Fresh, Row, row
  <2>3. CASE \E m \in net : Lose(m)
    BY <2>3 DEF Lose
  <2>4. CASE \E r \in Unreliable : Kill(r)
    BY <2>4 DEF Kill, Exchange
  <2> QED
    BY <2>1, <2>2, <2>3, <2>4 DEF Next, Deliver, Handling
<1> QED
  BY <1>1, Invariance, PTL DEF Spec, RelayedOnce

-----------------------------------------------------------------------------
(* Refinement.                                                             *)

\* The abstract state that ChunkGossip sees.
dealtBar  == {d \in ReplicaID : Dealt(d)}
knownBar  == [r \in ReplicaID |-> [d \in ReplicaID |-> row(r, d)]]
haltedBar == {r \in ReplicaID : ~running(r)}

\* The sets of ChunkGossip are counted as those of DrgNet.
LEMMA GossipCardinality ==
  ASSUME NEW S
  PROVE  Gossip!Cardinality(S) = Cardinality(S)
BY DEF Gossip!Cardinality, Cardinality

\* A step that leaves the abstract state alone.
LEMMA Stutter ==
  ASSUME UNCHANGED <<status, sharechunk_matrix, deals>>
  PROVE  UNCHANGED Gossip!vars
BY DEF Gossip!vars, row, running, Dealt

\* deliver_chunk is Deal.
LEMMA DealRefines ==
  ASSUME IInv, NEW r \in ReplicaID, deliver_chunk(r), running(r)
  PROVE  Gossip!Deal(r)
<1>1. /\ UNCHANGED <<status, sharechunk_matrix>>
      /\ deals' = [deals EXCEPT ![r] = @ + 1]
  BY DealEffect DEF IInv
<1>2. deals \in [ReplicaID -> Nat]
  BY MaxDealsAssumption DEF IInv, TypeOK, CoreTypeOK
<1>3. \A d \in ReplicaID : Dealt(d)' <=> Dealt(d) \/ d = r
  BY <1>1, <1>2 DEF Dealt
<1>4. dealtBar' = dealtBar \cup {r}
  BY <1>3 DEF dealtBar
<1>5. knownBar' = knownBar /\ haltedBar' = haltedBar
  BY <1>1 DEF knownBar, haltedBar, row, running
<1>6. r \notin haltedBar
  BY DEF haltedBar
<1> QED
  BY <1>4, <1>5, <1>6 DEF Gossip!Deal, dealtBar, knownBar, haltedBar

\* The handling of a chunk is Learn, or, if the replica has the chunk, leaves the
\* abstract state alone or is Stop.
LEMMA DeliveryRefines ==
  ASSUME IInv, NEW m \in net, Handling(m), sharechunk_handler(m) \/ m.dst \in Unreliable
  PROVE  \/ /\ m.chunk.replicaID \in dealtBar
            /\ Gossip!Learn(m.dst, m.chunk.replicaID, m.chunk.idx)
         \/ UNCHANGED Gossip!vars
         \/ m.dst \in Unreliable /\ Gossip!Stop(m.dst)
<1> DEFINE r == m.dst
           c == m.chunk
           d0 == c.replicaID
           i0 == c.idx
<1>1. /\ r \in ReplicaID /\ c \in ShareChunk /\ d0 \in ReplicaID /\ i0 \in ReplicaID
      /\ c.gen \in Gen /\ m.src \in ReplicaID /\ m.src # r /\ i0 # d0
      /\ m.via \in {"deal", "relay"}
  BY MessageType DEF IInv, AllVerify, OwnChunkAbsent
<1>2. /\ UNCHANGED deals
      /\ \A p, d \in ReplicaID :
           row(p, d)' = row(p, d) \cup (IF p = r /\ d = d0 THEN {i0} ELSE {})
      /\ \A p \in ReplicaID : p # r => status'[p] = status[p]
      /\ status'[r] \in {"running", "segfault", "killed"}
      /\ status'[r] = "running" => Cardinality(row(r, d0)') < nreconthres
      /\ status'[r] = "segfault" =>
           Fresh(r, c) /\ ~(Cardinality(row(r, d0)') < nreconthres)
      /\ status'[r] = "killed" => r \in Unreliable
  BY DeliveryEffect
<1>3. running(r)
  BY DeliveryEffect
<1>4. CASE ~Fresh(r, c)
  <2>1. i0 \in row(r, d0)
    BY <1>4 DEF Fresh, Row, row
  <2>2. ASSUME NEW p \in ReplicaID, NEW d \in ReplicaID
        PROVE  row(p, d)' = row(p, d)
    <3>1. CASE p = r /\ d = d0
      <4>1. row(r, d0)' = row(r, d0) \cup {i0}
        BY <1>1, <1>2
      <4>2. row(r, d0) \cup {i0} = row(r, d0)
        BY <2>1
      <4> QED
        BY <3>1, <4>1, <4>2
    <3>2. CASE ~(p = r /\ d = d0)
      <4>1. row(p, d)' = row(p, d) \cup {}
        BY <1>2, <3>2
      <4>2. row(p, d) \cup {} = row(p, d)
        OBVIOUS
      <4> QED
        BY <4>1, <4>2
    <3> QED
      BY <3>1, <3>2
  <2>3. knownBar' = knownBar
    BY <2>2 DEF knownBar
  <2>4. dealtBar' = dealtBar
    BY <1>2 DEF dealtBar, Dealt
  <2>5. CASE status'[r] = "running"
    <3>1. haltedBar' = haltedBar
      BY <1>1, <1>2, <1>3, <2>5 DEF haltedBar, running
    <3> QED
      BY <2>3, <2>4, <3>1 DEF Gossip!vars, dealtBar, knownBar, haltedBar
  <2>6. CASE status'[r] = "killed"
    <3>1. haltedBar' = haltedBar \cup {r}
      BY <1>1, <1>2, <2>6 DEF haltedBar, running
    <3> QED
      BY <1>2, <2>3, <2>4, <2>6, <3>1 DEF Gossip!Stop, dealtBar, knownBar, haltedBar
  <2> QED
    BY <1>2, <1>4, <2>5, <2>6
<1>5. CASE Fresh(r, c)
  <2>1. i0 \notin row(r, d0)
    BY <1>5 DEF Fresh, Row, row
  <2>2. d0 \in dealtBar
    <3>1. c.gen <= deals[d0]
      BY DEF IInv, Provenance
    <3>2. deals[d0] \in Int /\ c.gen \in Int /\ c.gen >= 1
      BY <1>1, MaxDealsAssumption DEF IInv, TypeOK, CoreTypeOK, Gen
    <3> QED
      BY <1>1, <3>1, <3>2 DEF dealtBar, Dealt
  <2>3. i0 = r \/ \E p \in ReplicaID \ {r} : i0 \in knownBar[p][d0]
    BY <1>1 DEF IInv, Provenance, knownBar
  <2>4. knownBar' = [knownBar EXCEPT ![r][d0] = @ \cup {i0}]
    <3>1. \A p, d \in ReplicaID :
            row(p, d)' = IF p = r /\ d = d0 THEN row(p, d) \cup {i0} ELSE row(p, d)
      BY <1>2
    <3>2. knownBar' = [p \in ReplicaID |-> [d \in ReplicaID |->
                         IF p = r /\ d = d0 THEN row(p, d) \cup {i0} ELSE row(p, d)]]
      BY <3>1 DEF knownBar
    <3> QED
      BY <1>1, <3>2 DEF knownBar
  <2>5. row(r, d0)' = row(r, d0) \cup {i0}
    BY <1>1, <1>2
  <2>6. /\ Cardinality(row(r, d0) \cup {i0}) \in Int
        /\ nreconthres \in Int
    <3>1. DOMAIN RowAfter(r, c) \in SUBSET ReplicaID
      <4>1. RowAfter(r, c) \in MapsFrom(ReplicaID, Gen)
        BY <1>1, RowAfterFacts DEF IInv, TypeOK
      <4> QED
        BY <4>1, MapType
    <3>2. DOMAIN RowAfter(r, c) = row(r, d0) \cup {i0}
      BY <1>1, RowAfterFacts DEF IInv, TypeOK, AllVerify, Row, row
    <3> QED
      BY <3>1, <3>2, ReplicaSets, ThresholdType
  <2>7. \/ haltedBar' = IF Cardinality(knownBar[r][d0] \cup {i0}) >= nreconthres
                          THEN haltedBar \cup {r}
                          ELSE haltedBar
        \/ r \in Unreliable /\ haltedBar' = haltedBar \cup {r}
    <3>1. knownBar[r][d0] = row(r, d0)
      BY <1>1 DEF knownBar
    <3>2. \A p \in ReplicaID : p # r => (running(p)' <=> running(p))
      BY <1>2 DEF running
    <3>3. CASE status'[r] = "running"
      <4>1. ~(Cardinality(row(r, d0) \cup {i0}) >= nreconthres)
        BY <1>2, <2>5, <2>6, <3>3
      <4>2. haltedBar' = haltedBar
        BY <1>1, <1>3, <3>2, <3>3 DEF haltedBar, running
      <4> QED
        BY <3>1, <4>1, <4>2
    <3>4. CASE status'[r] # "running"
      <4>1. haltedBar' = haltedBar \cup {r}
        BY <1>1, <3>2, <3>4 DEF haltedBar, running
      <4>2. CASE status'[r] = "killed"
        BY <1>2, <4>1, <4>2
      <4>3. CASE status'[r] = "segfault"
        <5>1. Cardinality(row(r, d0) \cup {i0}) >= nreconthres
          BY <1>2, <2>5, <2>6, <4>3
        <5> QED
          BY <3>1, <4>1, <5>1
      <4> QED
        BY <1>2, <3>4, <4>2, <4>3
    <3> QED
      BY <3>3, <3>4
  <2>8. r \notin haltedBar /\ dealtBar' = dealtBar
    BY <1>2, <1>3 DEF haltedBar, dealtBar, Dealt
  <2>9. i0 \notin knownBar[r][d0]
    BY <1>1, <2>1 DEF knownBar
  <2>10. Gossip!Cardinality(knownBar[r][d0] \cup {i0}) = Cardinality(knownBar[r][d0] \cup {i0})
    BY GossipCardinality
  <2> QED
    BY <1>1, <2>2, <2>3, <2>4, <2>7, <2>8, <2>9, <2>10
    DEF Gossip!Learn, dealtBar, knownBar, haltedBar
<1> QED
  BY <1>4, <1>5

\* A kill is Stop.
LEMMA KillRefines ==
  ASSUME IInv, NEW r \in Unreliable, Kill(r)
  PROVE  Gossip!Stop(r)
<1>1. status \in [ReplicaID -> Status] /\ r \in ReplicaID
  BY UnreliableAssumption DEF IInv, TypeOK, CoreTypeOK
<1>2. /\ status' = [status EXCEPT ![r] = "killed"]
      /\ UNCHANGED <<sharechunk_matrix, deals>>
  BY DEF Kill, killed
<1>3. haltedBar' = haltedBar \cup {r}
  BY <1>1, <1>2 DEF haltedBar, running
<1>4. dealtBar' = dealtBar /\ knownBar' = knownBar
  BY <1>2 DEF dealtBar, Dealt, knownBar, row
<1> QED
  BY <1>3, <1>4 DEF Gossip!Stop, dealtBar, knownBar, haltedBar

\* The cluster implements the dissemination: chunks spread only from a dealer
\* to the replica of the index and on among replicas that keep them, and a
\* replica ends exactly when it keeps nreconthres chunks of one dealer.
THEOREM Refinement == Spec => ImplementsGossip
<1>1. Init => Gossip!Init
  <2> SUFFICES ASSUME Init PROVE Gossip!Init
    OBVIOUS
  <2>1. \A r, d \in ReplicaID : row(r, d) = {}
    BY EmptyMapType DEF Init, CoreInit, row
  <2>2. \A r \in ReplicaID : running(r) /\ ~Dealt(r)
    BY DEF Init, CoreInit, running, Dealt
  <2> QED
    BY <2>1, <2>2 DEF Gossip!Init
<1>2. IInv /\ [Next]_vars => [Gossip!Next]_(Gossip!vars)
  <2> SUFFICES ASSUME IInv, [Next]_vars PROVE Gossip!Next \/ UNCHANGED Gossip!vars
    OBVIOUS
  <2>1. CASE UNCHANGED vars
    BY <2>1, Stutter DEF vars, coreVars
  <2>2. CASE Start
    <3>1. PICK r \in Starters : on_receive_start(r)
      BY <2>2 DEF Start
    <3>2. CASE UNCHANGED coreVars
      BY <3>2, Stutter DEF coreVars
    <3>3. CASE deliver_chunk(r)
      BY <3>1, <3>3, DealRefines, StartersAssumption DEF on_receive_start, Gossip!Next
    <3> QED
      BY <3>1, <3>2, <3>3 DEF on_receive_start
  <2>3. CASE Deliver \/ \E m \in net : m.dst \in Unreliable /\ KillHandling(m)
    <3>1. PICK m \in net : Handling(m) /\ (sharechunk_handler(m) \/ m.dst \in Unreliable)
      BY <2>3 DEF Deliver, Handling
    <3>2. m.dst \in ReplicaID /\ m.chunk.replicaID \in ReplicaID /\ m.chunk.idx \in ReplicaID
      BY MessageType DEF IInv
    <3> QED
      BY <3>1, <3>2, DeliveryRefines DEF Gossip!Next, dealtBar
  <2>4. CASE \E m \in net : Lose(m)
    BY <2>4, Stutter DEF Lose
  <2>5. CASE \E r \in Unreliable : Kill(r)
    BY <2>5, KillRefines DEF Gossip!Next
  <2> QED
    BY <2>1, <2>2, <2>3, <2>4, <2>5 DEF Next
<1> QED
  BY <1>1, <1>2, Invariance, PTL DEF Spec, ImplementsGossip, Gossip!Spec
=============================================================================
