------------------------------ MODULE DrgConfig ------------------------------
(***************************************************************************)
(* The sizes every replica derives from its configuration file.            *)
(*                                                                         *)
(* drg.conf lists the replicas; DrgBase::start adds them one by one and    *)
(* ReplicaConfig counts them, DrgCore::on_init derives the reconstruction  *)
(* threshold, and drg.cpp derives the number of faults of the PVSS context *)
(* from the same list.                                                     *)
(***************************************************************************)
EXTENDS Integers

CONSTANT N          \* ReplicaConfig::nreplicas, the replicas of drg.conf

ASSUME NAssumption == N \in Nat \ {0}

\* A replica is its position in the configuration file.
ReplicaID == 0 .. N - 1

\* floor(nreplicas / 4.0) + 1
nreconthres == N \div 4 + 1

\* SyncSystemConfig::FromNumReplicas: (num_replicas - 1) / 2 in size_t
num_faults == (N - 1) \div 2

\* The chunk positions an erasure decoding reads, and the dealers an
\* aggregation needs: the first nreconthres indexes.
FirstIds == 0 .. nreconthres - 1
=============================================================================
