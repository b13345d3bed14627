------------------------------- MODULE DrgCore -------------------------------
(***************************************************************************)
(* The protocol object of a replica (class DrgCore): what it keeps, and    *)
(* the three handlers that change it.                                      *)
(*                                                                         *)
(* A dealer whose VRF output is below the difficulty shares a fresh secret *)
(* (create_sharing), erasure-codes it and sends chunk i to replica i.  A   *)
(* replica relays every chunk it sees for the first time, and when it has  *)
(* gathered nreconthres chunks of a dealer it decodes the sharing; once    *)
(* the sharings of the first nreconthres replicas are there it aggregates  *)
(* and decrypts them and broadcasts its decryption share; nreconthres      *)
(* decryption shares are interpolated to the beacon.                       *)
(*                                                                         *)
(* Data is abstracted as follows.  A sharing is the dealer that made it    *)
(* and which of that dealer's runs of create_sharing it came from (gen); a *)
(* chunk of it carries that gen, so that chunks of different sharings can  *)
(* be told apart; a Merkle proof is whether path.verify accepts it; a      *)
(* decryption share is its origin.                                         *)
(***************************************************************************)
EXTENDS DrgConfig, FiniteSets, Sequences

CONSTANT MaxDeals   \* bound: the runs of create_sharing of one replica

ASSUME MaxDealsAssumption == MaxDeals \in Nat

VARIABLES
  status,             \* "running", or how the process ended
  sharechunk_matrix,  \* per replica and dealer: chunk index -> gen, what arrived
  sharing_map,        \* per replica: dealer -> the sharing decoded for it
  dec_share_vec,      \* per replica: origins of the decryption shares, in order
  deals,              \* per replica: how often it has run create_sharing
  net,                \* the MsgShareChunk messages on their way
  net_share           \* every MsgShare that was broadcast

coreVars == <<status, sharechunk_matrix, sharing_map, dec_share_vec, deals,
              net, net_share>>

-----------------------------------------------------------------------------
(* Data.                                                                   *)

Status == {"running", "segfault", "abort", "killed"}
Gen    == 1 .. MaxDeals

\* gen 0 is what parsing the bytes of a mixture of two sharings may yield.
Sharing == [dealer : ReplicaID, gen : 0 .. MaxDeals]

ShareChunk == [replicaID : ReplicaID, idx : ReplicaID, round : {0},
               gen : Gen, verifies : BOOLEAN]

\* "deal": do_sharechunk, dealer to replica idx; "relay": a broadcast.
Message == [src : ReplicaID, dst : ReplicaID, via : {"deal", "relay"},
            chunk : ShareChunk]

\* Maps with a key set that grows (std::unordered_map).
MapsFrom(K, V) == UNION {[S -> V] : S \in SUBSET K}
EmptyMap       == [x \in {} |-> 0]
Put(f, k, v)   == [x \in DOMAIN f \cup {k} |-> IF x = k THEN v ELSE f[x]]

\* The replicas a broadcast goes to.
Peers(r) == ReplicaID \ {r}

running(r) == status[r] = "running"

-----------------------------------------------------------------------------
(* The outgoing calls of a handler.                                        *)

\* Mutant: the dealt chunk goes to the next replica's address.
sharechunk_to_next(r, c, dest) ==
  [src |-> r, dst |-> (dest + 1) % N, via |-> "deal", chunk |-> c]

do_sharechunk(r, c, dest) == [src |-> r, dst |-> dest, via |-> "deal", chunk |-> c]

\* Mutant: the dealer is left out of the relay, "it has the chunk anyway".
broadcast_not_to_dealer(r, c) ==
  {[src |-> r, dst |-> p, via |-> "relay", chunk |-> c] : p \in Peers(r) \ {c.replicaID}}

do_broadcast_sharechunk(r, c) ==
  {[src |-> r, dst |-> p, via |-> "relay", chunk |-> c] : p \in Peers(r)}

do_broadcast_share(r) == {[src |-> r, dst |-> p, origin |-> r] : p \in Peers(r)}

\* The network after a handler that took the messages `taken` from it and sends
\* msgs: these are with the worker threads of their sender now.  Messages to a
\* process that has ended are gone with its sockets; what is lost of the messages
\* of one that has ended is said in DrgNet.
Exchange(taken, msgs) ==
  net' = {m \in (net \ taken) \cup msgs : status'[m.dst] = "running"}

-----------------------------------------------------------------------------
(* Dealing.                                                                *)

\* The dealer keeps neither the sharing nor the chunk at its own index.
deliver_chunk(r) ==
  LET chunk(i) == [replicaID |-> r, idx |-> i, round |-> 0,
                   gen |-> deals[r] + 1, verifies |-> TRUE]
  IN  /\ deals' = [deals EXCEPT ![r] = @ + 1]
      /\ UNCHANGED status
      /\ Exchange({}, {do_sharechunk(r, chunk(i), i) : i \in Peers(r)})
      /\ UNCHANGED <<sharechunk_matrix, sharing_map, dec_share_vec, net_share>>

\* The VRF output either is below the difficulty or is not; if it is not,
\* nothing changes.
on_receive_start(r) ==
  /\ running(r)
  /\ deals[r] < MaxDeals
  /\ \/ deliver_chunk(r)
     \/ UNCHANGED coreVars

-----------------------------------------------------------------------------
(* Decryption shares.                                                      *)

\* reconstruct asserts recon.size() > num_faults, and interpolates at the
\* first num_faults + 1 origins; two equal ones make it invert zero.
ReconstructAborts(shares) ==
  \/ Len(shares) <= num_faults
  \/ \E i, j \in 1 .. num_faults + 1 : i # j /\ shares[i] = shares[j]

\* Mutant: the early return lets one share more than nreconthres in.
TakeShareOneMore(r, origin) ==
  LET shares == Append(dec_share_vec[r], origin)
  IN  IF Len(dec_share_vec[r]) > nreconthres
        THEN UNCHANGED <<dec_share_vec, status>>
        ELSE /\ dec_share_vec' = [dec_share_vec EXCEPT ![r] = shares]
             /\ status' = IF Len(shares) = nreconthres /\ ReconstructAborts(shares)
                            THEN [status EXCEPT ![r] = "abort"]
                            ELSE status

\* The effect of on_receive_share on its replica.  The beacon that is
\* reconstructed stays a local variable of the handler.
TakeShare(r, origin) ==
  LET shares == Append(dec_share_vec[r], origin)
  IN  IF Len(dec_share_vec[r]) >= nreconthres
        THEN UNCHANGED <<dec_share_vec, status>>
        ELSE /\ dec_share_vec' = [dec_share_vec EXCEPT ![r] = shares]
             /\ status' = IF Len(shares) = nreconthres /\ ReconstructAborts(shares)
                            THEN [status EXCEPT ![r] = "abort"]
                            ELSE status

on_receive_share(r, origin) ==
  /\ running(r)
  /\ TakeShare(r, origin)
  /\ UNCHANGED <<sharechunk_matrix, sharing_map, deals, net, net_share>>

-----------------------------------------------------------------------------
(* Chunks.  `taken` is what the network hands over with this call.         *)

Row(r, c)   == sharechunk_matrix[r][c.replicaID]
Fresh(r, c) == c.idx \notin DOMAIN Row(r, c)

\* Mutant: the find is dropped, so that a later chunk overwrites.
RowOverwritten(r, c) ==
  IF c.verifies THEN Put(Row(r, c), c.idx, c.gen) ELSE Row(r, c)

\* The dealer's row after the handler's find / verify / insert.
RowAfter(r, c) ==
  IF Fresh(r, c) /\ c.verifies THEN Put(Row(r, c), c.idx, c.gen) ELSE Row(r, c)

MatrixAfter(r, c) == [sharechunk_matrix[r] EXCEPT ![c.replicaID] = RowAfter(r, c)]

\* Mutants: every copy is relayed; or none is.
RelayAlways(r, c) == do_broadcast_sharechunk(r, c)
RelayNever(r, c)  == {}

\* Relayed on first sight, whether or not the Merkle proof was accepted.
Relay(r, c) == IF Fresh(r, c) THEN do_broadcast_sharechunk(r, c) ELSE {}

\* Mutant: no early return.
GatherUnbounded(r, c) ==
  /\ running(r)
  /\ sharechunk_matrix' = [sharechunk_matrix EXCEPT ![r] = MatrixAfter(r, c)]

\* The common part of every path that gets past the early return.
Gather(r, c) ==
  /\ running(r)
  /\ Cardinality(DOMAIN Row(r, c)) <= nreconthres
  /\ sharechunk_matrix' = [sharechunk_matrix EXCEPT ![r] = MatrixAfter(r, c)]

\* Mutant: one chunk too late.
PastThreshold(r, c) == Cardinality(DOMAIN RowAfter(r, c)) = nreconthres + 1

\* qsize == nreconthres: also true of a repeated or rejected chunk that
\* arrives while exactly nreconthres chunks are there.
AtThreshold(r, c) == Cardinality(DOMAIN RowAfter(r, c)) = nreconthres

\* Mutant: the row of the dealer is read.
DealersRow(r, c) == MatrixAfter(r, c)[c.replicaID]

\* The row decode reads is picked by the chunk's round, not by its dealer.
DecodeRow(r, c) == MatrixAfter(r, c)[c.round]
Decodable(r, c) == FirstIds \subseteq DOMAIN DecodeRow(r, c)
Mixed(r, c)     == \E i, j \in FirstIds : DecodeRow(r, c)[i] # DecodeRow(r, c)[j]

\* Mutant: the sharing is taken for the one of the chunk's dealer.
DecodedOfDealer(r, c) ==
  [dealer |-> c.replicaID, gen |-> IF Mixed(r, c) THEN 0 ELSE DecodeRow(r, c)[0]]

Decoded(r, c) ==
  [dealer |-> c.round, gen |-> IF Mixed(r, c) THEN 0 ELSE DecodeRow(r, c)[0]]

SharingsAfter(r, c) == Put(sharing_map[r], c.replicaID, Decoded(r, c))
AllFirst(r, c)      == FirstIds \subseteq DOMAIN SharingsAfter(r, c)

\* Early return: the dealer's row is past the threshold already.
IgnoreChunk(r, c, taken) ==
  /\ running(r)
  /\ Cardinality(DOMAIN Row(r, c)) > nreconthres
  /\ net' = net \ taken
  /\ UNCHANGED <<status, sharechunk_matrix, sharing_map, dec_share_vec, deals, net_share>>

\* Not at the threshold: record and relay only.
RecordChunk(r, c, taken) ==
  /\ Gather(r, c)
  /\ ~AtThreshold(r, c)
  /\ UNCHANGED status
  /\ Exchange(taken, Relay(r, c))
  /\ UNCHANGED <<sharing_map, dec_share_vec, deals, net_share>>

\* A data chunk the decoder needs is not in the row: operator[] creates a
\* null chunk there and decode dereferences it.
DecodeNull(r, c, taken) ==
  /\ Gather(r, c)
  /\ AtThreshold(r, c)
  /\ ~Decodable(r, c)
  /\ status' = [status EXCEPT ![r] = "segfault"]
  /\ Exchange(taken, Relay(r, c))
  /\ UNCHANGED <<sharing_map, dec_share_vec, deals, net_share>>

\* Bytes of two sharings: parsing them, or aggregating what was parsed, may
\* fail an assertion.
DecodeGarbage(r, c, taken) ==
  /\ Gather(r, c)
  /\ AtThreshold(r, c)
  /\ Decodable(r, c)
  /\ \/ Mixed(r, c)
     \/ AllFirst(r, c) /\ \E i \in FirstIds : SharingsAfter(r, c)[i].gen = 0
  /\ status' = [status EXCEPT ![r] = "abort"]
  /\ Exchange(taken, Relay(r, c))
  /\ UNCHANGED <<sharing_map, dec_share_vec, deals, net_share>>

\* Decoded, but sharings of the first nreconthres replicas are missing.
RecoverSharing(r, c, taken) ==
  /\ Gather(r, c)
  /\ AtThreshold(r, c)
  /\ Decodable(r, c)
  /\ ~AllFirst(r, c)
  /\ sharing_map' = [sharing_map EXCEPT ![r] = SharingsAfter(r, c)]
  /\ UNCHANGED status
  /\ Exchange(taken, Relay(r, c))
  /\ UNCHANGED <<dec_share_vec, deals, net_share>>

\* Mutant: the search for the sharings does not return when one is missing.
ShareWithoutAll(r, c, taken) ==
  /\ Gather(r, c)
  /\ AtThreshold(r, c)
  /\ Decodable(r, c)
  /\ sharing_map' = [sharing_map EXCEPT ![r] = SharingsAfter(r, c)]
  /\ TakeShare(r, r)
  /\ Exchange(taken, Relay(r, c))
  /\ net_share' = IF status'[r] = "running"
                     THEN net_share \cup do_broadcast_share(r)
                     ELSE net_share
  /\ UNCHANGED deals

\* All there: aggregate, decrypt, take the own share, then broadcast it --
\* unless taking it ended the process.
AggregateAndShare(r, c, taken) ==
  /\ Gather(r, c)
  /\ AtThreshold(r, c)
  /\ Decodable(r, c)
  /\ AllFirst(r, c)
  /\ sharing_map' = [sharing_map EXCEPT ![r] = SharingsAfter(r, c)]
  /\ TakeShare(r, r)
  /\ Exchange(taken, Relay(r, c))
  /\ net_share' = IF status'[r] = "running"
                     THEN net_share \cup do_broadcast_share(r)
                     ELSE net_share
  /\ UNCHANGED deals

on_receive_shareChunk(r, c, taken) ==
  \/ IgnoreChunk(r, c, taken)
  \/ RecordChunk(r, c, taken)
  \/ DecodeNull(r, c, taken)
  \/ DecodeGarbage(r, c, taken)
  \/ RecoverSharing(r, c, taken)
  \/ AggregateAndShare(r, c, taken)

-----------------------------------------------------------------------------
\* A freshly constructed object; add_replica and on_init have run.
CoreInit ==
  /\ status            = [r \in ReplicaID |-> "running"]
  /\ sharechunk_matrix = [r \in ReplicaID |-> [d \in ReplicaID |-> EmptyMap]]
  /\ sharing_map       = [r \in ReplicaID |-> EmptyMap]
  /\ dec_share_vec     = [r \in ReplicaID |-> <<>>]
  /\ deals             = [r \in ReplicaID |-> 0]
  /\ net               = {}
  /\ net_share         = {}

CoreTypeOK ==
  /\ status \in [ReplicaID -> Status]
  /\ sharechunk_matrix \in [ReplicaID -> [ReplicaID -> MapsFrom(ReplicaID, Gen)]]
  /\ sharing_map \in [ReplicaID -> MapsFrom(ReplicaID, Sharing)]
  /\ dec_share_vec \in [ReplicaID -> Seq(ReplicaID)]
  /\ deals \in [ReplicaID -> 0 .. MaxDeals]
  /\ net \subseteq Message
  /\ net_share \subseteq [src : ReplicaID, dst : ReplicaID, origin : ReplicaID]
=============================================================================
