------------------------------- MODULE DrgBase --------------------------------
(***************************************************************************)
(* The process of one replica (drg.cpp, class DrgBase): what happens       *)
(* between the constructor, which registers the message handlers and opens *)
(* the listening socket, and the event loop, which start() enters last.    *)
(*                                                                         *)
(* Two threads of control meet here.  The main thread adds the replicas    *)
(* one by one, initialises the core and then serves the event loop; the    *)
(* worker threads of the peer network accept connections and queue what    *)
(* arrives from the moment the socket is open.                             *)
(*                                                                         *)
(* The peer network is external.  It hands each queued message to the      *)
(* handler registered for its opcode, on the event loop's thread; a        *)
(* message whose opcode has no handler is logged and dropped.  The         *)
(* connection of a message has a peer address only if its other end is a   *)
(* peer that was added, and even then the handshake may have failed.       *)
(*                                                                         *)
(* What the core does with a chunk is in DrgCore.  Any chunk may end the   *)
(* process there, and with it the loop: what is queued is never taken.     *)
(***************************************************************************)
EXTENDS DrgConfig, Sequences, FiniteSets, SequencesExt

CONSTANTS
  Addr,          \* network addresses
  MaxArrivals    \* bound: the messages that arrive in a process's life

ASSUME AddrAssumption        == N <= Cardinality(Addr)
ASSUME MaxArrivalsAssumption == MaxArrivals \in Nat

VARIABLES
  replicas,      \* the addresses of drg.conf, in order
  id,            \* --idx: the replica this process is
  client,        \* the client's address
  phase,         \* how far the main thread is
  handlers,      \* the opcodes that have a handler
  replica_map,   \* ReplicaConfig: replica -> address
  nreplicas,     \* ReplicaConfig: how many were added
  threshold,     \* ReplicaConfig::nreconthres, 0 until on_init
  peers,         \* the addresses a broadcast goes to
  added,         \* the addresses the peer network has as peers
  inbox,         \* what arrived and was not handled yet
  narrived,      \* how many messages arrived
  calls,         \* the calls of on_receive_shareChunk
  dropped        \* the opcodes of messages that found no handler

vars == <<replicas, id, client, phase, handlers, replica_map, nreplicas,
          threshold, peers, added, inbox, narrived, calls, dropped>>

config  == <<replicas, id, client>>
registered == <<replica_map, nreplicas, threshold, peers, added>>
started == <<phase, handlers, registered>>

Opcode == {"MsgStart", "MsgShareChunk", "MsgShare"}

listen_addr == replicas[id + 1]
Listening   == phase \notin {"new", "ended"}

-----------------------------------------------------------------------------
\* Any drg.conf and any --idx inside it.
Init ==
  /\ replicas \in [1 .. N -> Addr]
  /\ id \in ReplicaID
  /\ client \in Addr
  /\ phase       = "new"
  /\ handlers    = {}
  /\ replica_map = <<>>
  /\ nreplicas   = 0
  /\ threshold   = 0
  /\ peers       = <<>>
  /\ added       = {}
  /\ inbox       = <<>>
  /\ narrived    = 0
  /\ calls       = {}
  /\ dropped     = {}

\* The constructor: two handlers, pn.start, pn.listen.
Construct ==
  /\ phase = "new"
  /\ handlers' = {"MsgStart", "MsgShareChunk"}
  /\ phase' = "adding"
  /\ UNCHANGED <<config, replica_map, nreplicas, threshold, peers, added, inbox,
                 narrived, calls, dropped>>

\* Mutant: the own address is recognised by an index that is off by one.
AddReplicaByIndex ==
  LET addr == replicas[nreplicas + 1]
  IN  /\ phase = "adding"
      /\ nreplicas < N
      /\ replica_map' = Append(replica_map, addr)
      /\ nreplicas' = nreplicas + 1
      /\ peers' = IF nreplicas + 1 # id THEN Append(peers, addr) ELSE peers
      /\ added' = IF nreplicas + 1 # id THEN added \cup {addr} ELSE added
      /\ UNCHANGED <<config, phase, handlers, threshold, inbox, narrived, calls, dropped>>

\* One round of start()'s loop: add_replica, and a peer unless it is oneself.
AddReplica ==
  LET addr == replicas[nreplicas + 1]
  IN  /\ phase = "adding"
      /\ nreplicas < N
      /\ replica_map' = Append(replica_map, addr)
      /\ nreplicas' = nreplicas + 1
      /\ peers' = IF addr # listen_addr THEN Append(peers, addr) ELSE peers
      /\ added' = IF addr # listen_addr THEN added \cup {addr} ELSE added
      /\ UNCHANGED <<config, phase, handlers, threshold, inbox, narrived, calls, dropped>>

AddClient ==
  /\ phase = "adding"
  /\ nreplicas = N
  /\ added' = added \cup {client}
  /\ phase' = "initialising"
  /\ UNCHANGED <<config, handlers, replica_map, nreplicas, threshold, peers, inbox,
                 narrived, calls, dropped>>

\* on_init; the event loop is entered right after it.
OnInit ==
  /\ phase = "initialising"
  /\ threshold' = nreplicas \div 4 + 1
  /\ phase' = "dispatching"
  /\ UNCHANGED <<config, handlers, replica_map, nreplicas, peers, added, inbox,
                 narrived, calls, dropped>>

\* A worker thread queues a message: from another replica or the client, or
\* from an address that is in no configuration.
Arrive(op, from) ==
  /\ Listening
  /\ narrived < MaxArrivals
  /\ inbox' = Append(inbox, [opcode |-> op, from |-> from])
  /\ narrived' = narrived + 1
  /\ UNCHANGED <<config, started, calls, dropped>>

-----------------------------------------------------------------------------
\* Mutant: handlers run as soon as the socket is open.
TakeEarly(op) ==
  /\ Listening
  /\ inbox # <<>>
  /\ Head(inbox).opcode = op
  /\ inbox' = Tail(inbox)

\* The event loop takes the next message.
Take(op) ==
  /\ phase = "dispatching"
  /\ inbox # <<>>
  /\ Head(inbox).opcode = op
  /\ inbox' = Tail(inbox)

\* Is the peer address of the connection not null?
PeerKnown(b) == b => Head(inbox).from \in added

\* Logs; never calls on_receive_start.
start_handler ==
  /\ "MsgStart" \in handlers
  /\ Take("MsgStart")
  /\ UNCHANGED <<config, started, narrived, calls, dropped>>

\* on_receive_shareChunk may end the process.
Core(from) ==
  /\ calls' = calls \cup {[from |-> from, nreplicas |-> nreplicas, threshold |-> threshold]}
  /\ phase' \in {phase, "ended"}

\* Mutant: the peer address is not looked at.
sharechunk_handler_any_peer ==
  /\ "MsgShareChunk" \in handlers
  /\ Take("MsgShareChunk")
  /\ Core(Head(inbox).from)
  /\ UNCHANGED <<config, handlers, registered, narrived, dropped>>

sharechunk_handler ==
  /\ "MsgShareChunk" \in handlers
  /\ Take("MsgShareChunk")
  /\ \E known \in BOOLEAN :
       /\ PeerKnown(known)
       /\ IF known THEN Core(Head(inbox).from) ELSE UNCHANGED <<calls, phase>>
  /\ UNCHANGED <<config, handlers, registered, narrived, dropped>>

NoHandler ==
  \E op \in Opcode \ handlers :
    /\ Take(op)
    /\ dropped' = dropped \cup {op}
    /\ UNCHANGED <<config, started, narrived, calls>>

Handle == start_handler \/ sharechunk_handler \/ NoHandler

MainThread == Construct \/ AddReplica \/ AddClient \/ OnInit \/ Handle

Next == MainThread \/ \E op \in Opcode, from \in Addr : Arrive(op, from)

Spec == Init /\ [][Next]_vars

-----------------------------------------------------------------------------
TypeOK ==
  /\ replicas \in [1 .. N -> Addr] /\ id \in ReplicaID /\ client \in Addr
  /\ phase \in {"new", "adding", "initialising", "dispatching", "ended"}
  /\ handlers \subseteq Opcode
  /\ replica_map \in Seq(Addr)
  /\ nreplicas \in 0 .. N
  /\ threshold \in {0, nreconthres}
  /\ peers \in Seq(Addr)
  /\ added \subseteq Addr
  /\ inbox \in Seq([opcode : Opcode, from : Addr])
  /\ narrived \in 0 .. MaxArrivals
  /\ calls \subseteq [from : Addr, nreplicas : 0 .. N, threshold : 0 .. N]
  /\ dropped \subseteq Opcode

Distinct == \A i, j \in 1 .. N : replicas[i] = replicas[j] => i = j

get_addr(i) == replica_map[i + 1]

\* DrgCore.hpp:166, on_init comes before all other functions: although the
\* socket is open before the first replica is added, no chunk reaches the core
\* before every replica was added and the threshold is set.
InitBeforeChunks ==
  \A c \in calls : c.nreplicas = N /\ c.threshold = nreconthres

\* The two ways of addressing agree: with distinct addresses, the replicas the
\* core deals to (every id but its own) are exactly the broadcast's addresses
\* (every address but its own), each once, and all of them are peers.
DealTargetsArePeers ==
  phase = "dispatching" /\ Distinct =>
    /\ {get_addr(i) : i \in ReplicaID \ {id}} = ToSet(peers)
    /\ Len(peers) = N - 1
    /\ ToSet(peers) \subseteq added
    /\ listen_addr \notin ToSet(peers)

\* What reaches the core came over the connection of a configured peer, also
\* when it arrived before that peer was added.
ChunksFromConfigured ==
  \A c \in calls : c.from \in ToSet(replicas) \cup {client}
=============================================================================
