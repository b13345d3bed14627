------------------------------- MODULE DrgNet --------------------------------
(***************************************************************************)
(* The cluster: N replicas (DrgCore objects inside DrgBase) that exchange  *)
(* ShareChunk messages over the peer network.                              *)
(*                                                                         *)
(* A message is in `net` from the handler that sends it to its delivery or *)
(* loss: in the queue of its sender, on the connection or in the queue of  *)
(* its receiver, which are all in the memory of one process or the other.  *)
(* Messages overtake one another: a chunk reaches a replica from its       *)
(* dealer and from every relay, over connections that are independent.     *)
(* Decryption shares are sent but never delivered, because DrgBase         *)
(* registers no handler for MsgShare (module DrgBase).                     *)
(*                                                                         *)
(* A deal begins with a call of on_receive_start on one of Starters.       *)
(***************************************************************************)
EXTENDS DrgCore

CONSTANTS
  Starters,   \* the replicas that are told to start
  Unreliable  \* the replicas that may be killed, and that messages may miss

ASSUME StartersAssumption   == Starters \subseteq ReplicaID
ASSUME UnreliableAssumption == Unreliable \subseteq ReplicaID

vars == coreVars

-----------------------------------------------------------------------------
Start == \E r \in Starters : on_receive_start(r)

\* sharechunk_handler on the connection of a known peer.
sharechunk_handler(m) ==
  /\ m \in net
  /\ on_receive_shareChunk(m.dst, m.chunk, {m})

\* A message is lost: its connection breaks, or the handler does not know the
\* peer it came from and returns; or its sender has ended, by itself or killed,
\* and with it the queue that the message had not left.
Lose(m) ==
  /\ m.dst \in Unreliable \/ ~running(m.src)
  /\ net' = net \ {m}
  /\ UNCHANGED <<status, sharechunk_matrix, sharing_map, dec_share_vec, deals,
                 net_share>>

\* A signal has its default effect, as the handlers for it are added behind
\* start, which returns only when the event loop has ended.  Nothing is stored,
\* and no replica ever connects to the process again.
killed(r) ==
  /\ running(r)
  /\ status' = [status EXCEPT ![r] = "killed"]

\* A signal between two handlers, or in the middle of dealing: chunks of the
\* deal that have not left are lost like all the replica has sent.
Kill(r) ==
  /\ killed(r)
  /\ Exchange({}, {})
  /\ UNCHANGED <<sharechunk_matrix, sharing_map, dec_share_vec, deals, net_share>>

\* A signal in the middle of the handler of a chunk, which may have been relayed
\* but is not decoded.
KillHandling(m) ==
  /\ killed(m.dst)
  /\ Gather(m.dst, m.chunk)
  /\ Exchange({m}, Relay(m.dst, m.chunk))
  /\ UNCHANGED <<sharing_map, dec_share_vec, deals, net_share>>

Deliver == \E m \in net : sharechunk_handler(m)

Next ==
  \/ Start
  \/ Deliver
  \/ \E m \in net : Lose(m)
  \/ \E r \in Unreliable : Kill(r)
  \/ \E m \in net : m.dst \in Unreliable /\ KillHandling(m)

Init == CoreInit

Spec == Init /\ [][Next]_vars

\* The event loops do not all stop: while messages for running replicas are in
\* the network, one of them is handled sooner or later.  A deal causes finitely
\* many messages, so this is enough for each of them.
FairSpec == Spec /\ WF_vars(Deliver)

-----------------------------------------------------------------------------
row(r, d) == DOMAIN sharechunk_matrix[r][d]

TypeOK == CoreTypeOK

\* Nothing is made up on the way: a chunk that is in flight or kept anywhere
\* is of a sharing its dealer has dealt; a direct one goes from its dealer to
\* the replica of its index; a relayed one is what its sender keeps itself.
Provenance ==
  /\ \A m \in net :
       /\ m.chunk.gen <= deals[m.chunk.replicaID]
       /\ m.via = "deal" => m.src = m.chunk.replicaID /\ m.dst = m.chunk.idx
       /\ m.via = "relay" =>
            /\ m.chunk.idx \in row(m.src, m.chunk.replicaID)
            /\ sharechunk_matrix[m.src][m.chunk.replicaID][m.chunk.idx] = m.chunk.gen
  /\ \A r, d \in ReplicaID : \A i \in row(r, d) :
       sharechunk_matrix[r][d][i] <= deals[d]

\* The chunk at a dealer's own index exists nowhere: the dealer neither sends
\* it nor keeps it, so every row lacks the index of its dealer.
OwnChunkAbsent ==
  /\ \A m \in net : m.chunk.idx # m.chunk.replicaID
  /\ \A r, d \in ReplicaID : d \notin row(r, d)

\* A running replica holds fewer chunks of every dealer than a decoding
\* takes; reaching the threshold ends the process (decode reads the missing
\* chunk 0 of dealer 0).
RunningBelowThreshold ==
  \A r, d \in ReplicaID : running(r) => Cardinality(row(r, d)) < nreconthres

\* So no sharing is ever recovered, no share is ever taken or sent, and the
\* only ways a process ends are the null chunk and a kill.
NothingRecovered ==
  /\ \A r \in ReplicaID : sharing_map[r] = EmptyMap /\ dec_share_vec[r] = <<>>
  /\ net_share = {}
  /\ \A r \in ReplicaID : status[r] # "abort"

\* DrgCore.cpp:107, on first receipt of a chunk it is sent to the others: a
\* relay leaves a replica only in the step in which its index becomes kept
\* there, so once in the replica's life, however many copies of the chunk and
\* however many sharings of the dealer reach it.
RelayedOnce ==
  [][\A m \in net' \ net :
       m.via = "relay" =>
         /\ m.chunk.idx \notin row(m.src, m.chunk.replicaID)
         /\ m.chunk.idx \in row(m.src, m.chunk.replicaID)']_vars

Dealt(d) == deals[d] > 0

\* The chunks of d's that r has sent to p: those it keeps, which it has relayed,
\* and as their dealer the one of p's index.
Sent(r, p, d) == row(r, d) \cup IF r = d /\ Dealt(d) THEN {p} ELSE {}

\* Nothing is stranded: what a running replica has relayed or dealt to another one
\* that runs and whose messages are not lost is kept there, or the sender's own copy
\* of it is on its way, whatever became of the copies of those that have ended.
NoChunkStranded ==
  \A r \in ReplicaID, p \in ReplicaID \ Unreliable, d \in ReplicaID :
    running(r) /\ running(p) /\ p # r =>
      \A i \in Sent(r, p, d) \ row(p, d) :
        \E m \in net :
          m.src = r /\ m.dst = p /\ m.chunk.replicaID = d /\ m.chunk.idx = i

-----------------------------------------------------------------------------
(* The cluster implements the dissemination of ChunkGossip.                *)

Gossip == INSTANCE ChunkGossip WITH
  Replica   <- ReplicaID,
  Threshold <- nreconthres,
  Mortal    <- Unreliable,
  dealt     <- {d \in ReplicaID : Dealt(d)},
  known     <- [r \in ReplicaID |-> [d \in ReplicaID |-> row(r, d)]],
  halted    <- {r \in ReplicaID : ~running(r)}

\* Whatever the interleaving, the losses and the kills: chunks spread only
\* from the dealer to the replica of the index and from there along replicas
\* that keep them, the chunk at the dealer's index never appears, and a
\* replica that is not killed ends exactly when it has nreconthres chunks of one
\* dealer.
ImplementsGossip == Gossip!Spec

-----------------------------------------------------------------------------
\* A deal does not leave the cluster intact: some replica gathers nreconthres
\* chunks and ends, also if one that is unreliable never does.
DealStopsAReplica ==
  \A d \in Starters : Dealt(d) ~> \E r \in ReplicaID : status[r] = "segfault"
=============================================================================
