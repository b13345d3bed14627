---------------------------- MODULE DrgCoreObject ----------------------------
(***************************************************************************)
(* One DrgCore object driven through its public interface: its owner may   *)
(* call on_receive_start, on_receive_shareChunk and on_receive_share in    *)
(* any order, with any chunk of InChunks and any other replica's share.    *)
(* This is the class as its header offers it.  The cluster that the        *)
(* shipped handlers make of it, where far fewer calls can happen, is       *)
(* DrgNet.                                                                 *)
(***************************************************************************)
EXTENDS DrgCore

CONSTANTS
  self,       \* the replica the object belongs to
  InChunks    \* the chunks it may be handed

ASSUME SelfAssumption     == self \in ReplicaID
ASSUME InChunksAssumption == InChunks \subseteq ShareChunk

ObjectStart == on_receive_start(self)
ObjectChunk == \E c \in InChunks : on_receive_shareChunk(self, c, {})
ObjectShare == \E o \in ReplicaID \ {self} : on_receive_share(self, o)

ObjectNext == ObjectStart \/ ObjectChunk \/ ObjectShare

ObjectSpec == CoreInit /\ [][ObjectNext]_coreVars

ObjectTypeOK == CoreTypeOK

-----------------------------------------------------------------------------
ownRow(d) == DOMAIN sharechunk_matrix[self][d]

\* At most one chunk beyond the threshold is ever kept for a dealer: the early
\* return of on_receive_shareChunk bounds the matrix whatever arrives.
MatrixBound == \A d \in ReplicaID : Cardinality(ownRow(d)) <= nreconthres + 1

\* A sharing is recorded for a dealer only while that dealer's own row holds
\* at least nreconthres chunks and the row decode reads (round 0) holds every
\* data chunk; neither is ever lost afterwards.
RecoveredFromFullRows ==
  \A d \in DOMAIN sharing_map[self] :
    /\ Cardinality(ownRow(d)) >= nreconthres
    /\ FirstIds \subseteq ownRow(0)

\* Because decode reads the row of round 0 whoever the chunk's dealer is, every
\* sharing that is recorded, for any dealer, is the one that dealer 0's data
\* chunks encode (or garbage, gen 0, if they are of two sharings).
ZeroRow == sharechunk_matrix[self][0]

SharingsAllAlike ==
  \A d \in DOMAIN sharing_map[self] :
    sharing_map[self][d] =
      [dealer |-> 0,
       gen    |-> IF \E i, j \in FirstIds : ZeroRow[i] # ZeroRow[j] THEN 0 ELSE ZeroRow[0]]

\* The object's own decryption share appears, locally or on the wire, only
\* after the sharings of all of the first nreconthres replicas were recorded.
ShareAfterAllSharings ==
  ((\E i \in DOMAIN dec_share_vec[self] : dec_share_vec[self][i] = self)
     \/ net_share # {})
    => FirstIds \subseteq DOMAIN sharing_map[self]

\* Once nreconthres shares were collected the object either ended in
\* reconstruct or holds exactly that many, from distinct replicas as far as
\* interpolation reads them: no beacon is interpolated at a repeated origin.
BeaconFromDistinctOrigins ==
  (Len(dec_share_vec[self]) >= nreconthres /\ running(self))
    => /\ Len(dec_share_vec[self]) = nreconthres
       /\ \A i, j \in 1 .. num_faults + 1 :
            dec_share_vec[self][i] = dec_share_vec[self][j] => i = j

\* In a cluster of three, or of five and more, no replica survives collecting
\* nreconthres shares: reconstruct asks for more than there are.
NoSurvivor ==
  N \notin {1, 2, 4} /\ running(self) => Len(dec_share_vec[self]) < nreconthres

\* A chunk that was recorded is never replaced, not even by the chunk of a
\* later sharing of the same dealer for the same index.
ChunksAreFinal ==
  [][\A d \in ReplicaID :
       \A i \in ownRow(d) :
         /\ i \in ownRow(d)'
         /\ sharechunk_matrix'[self][d][i] = sharechunk_matrix[self][d][i]]_coreVars

\* Decoding again (a chunk that arrives while exactly nreconthres are there
\* runs the decoder once more) never changes a sharing that was recorded.
SharingsAreFinal ==
  [][\A d \in DOMAIN sharing_map[self] :
       /\ d \in DOMAIN sharing_map'[self]
       /\ sharing_map'[self][d] = sharing_map[self][d]]_coreVars

\* Beyond the threshold a dealer is closed: nothing of its row or its sharing
\* changes any more, and no chunk of its is relayed.
ClosedDealers ==
  [][\A d \in ReplicaID :
       Cardinality(ownRow(d)) > nreconthres
         => /\ sharechunk_matrix'[self][d] = sharechunk_matrix[self][d]
            /\ d \in DOMAIN sharing_map'[self] => d \in DOMAIN sharing_map[self]
            /\ \A m \in net' \ net :
                 m.via = "relay" => m.chunk.replicaID # d]_coreVars

-----------------------------------------------------------------------------
(* What comments and assertions of the code say, checked by runs of their  *)
(* own.                                                                    *)

\* DrgCore.cpp:143: before aggregating, "check whether the sharings of the
\* first nreconthres nodes have all been received".
FirstSharingsReceived ==
  net_share # {} => \A i \in FirstIds : sharing_map[self][i].dealer = i

\* pvss.hpp:81: assert(recon.size() > config.num_faults()) when nreconthres
\* shares are handed to reconstruct.
EnoughToReconstruct ==
  Len(dec_share_vec[self]) = nreconthres
    => Len(dec_share_vec[self]) > num_faults
=============================================================================
