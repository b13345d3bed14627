# random-beacon in TLA+

random-beacon is a distributed random beacon in C++: replicas share secrets
with a publicly verifiable secret sharing scheme (PVSS), erasure-code the
sharings, gossip the chunks over a salticidae peer network, aggregate and
decrypt what they recovered, and interpolate decryption shares to a beacon
value. The code is work in progress: the draw that starts a deal is never
called by the shipped message handlers, the beacon is computed and discarded,
and no file opens the connections between replicas. This directory models what
the code does, not what it will do.

## Inventory

| component | source | state | operations | correct means |
| --- | --- | --- | --- | --- |
| protocol object `DrgCore` | `src/DrgCore.cpp`, `include/DrgCore.hpp` | `sharechunk_matrix`, `sharing_map`, `dec_share_vec`, the replica configuration | `on_receive_start` (draw, then `deliver_chunk`), `on_receive_shareChunk`, `on_receive_share`, `add_replica`, `on_init` | rows are bounded and never rewritten; a sharing is recorded only from enough chunks; a share is made only after all sharings; nothing is interpolated at repeated points |
| dissemination between replicas | the same, with `src/DrgBase.cpp` | N protocol objects and the messages between them | deal, relay on first receipt, stop | chunks come from their dealer; what one replica has the others get; a replica relays once |
| process `DrgBase` and `drg.cpp` | `src/DrgBase.cpp`, `include/DrgBase.hpp`, `src/drg.cpp` | peer list, handler table, configuration, the queue of the event loop | constructor, `start`, message handlers, `stop` (empty) | nothing is handled before initialisation; the two ways of addressing agree |
| configuration | `include/ReplicaConfig.hpp`, `include/pvss/Config.hpp` | replica map, `nreplicas`, `nreconthres`, `num_faults` | `add_replica`, `get_addr`, `FromNumReplicas` | the two thresholds fit together |
| erasure coding | `include/erasure.h`, `src/erasure.cpp` | none | `encode`, `decode` | decode undoes encode for every length |
| chunk messages in bytes | `include/DrgCore.hpp`, `src/erasure.cpp` | the bytes of a message, the decoder's buffers | frame, relay, verify, decode | what is relayed still proves itself; buffers are as long as what fills them |
| Merkle tree and paths | `include/merklecpp.h` | nodes, leaf list, waiting leaves, insertion stack, number flushed | `insert`, `root`, `path`, `past_*`, `size`, `flush_to`, `retract_to`, copy, move, `serialise`, `deserialise`; `verify` | the tree is the log of its leaves; a path verifies against its root only |
| PVSS | `include/pvss/*.hpp` | context (keys, generators) | `create_sharing`, `verify_sharing`, `aggregate`, `decrypt`, `reconstruct`, `verify_beacon` | the decrypted shares interpolate to the aggregated secret |
| text serialization | `include/pvss/Serialization.hpp` and the `>>`, `<<` of each class | the text, an object that may be in use | write, read into a new or used object | reader and writer agree on every line |
| SHA-256 of the challenges | `include/pvss/internal/picosha.h` | buffer, length in digits | `init`, `process`, `finish` | however a message is split, its padded blocks are compressed |
| VRF lottery | `DrgCore::vrf`, `unsigned_char_compare` | key, output, byte compared | draw, compare | decides each draw, and by the difficulty |
| setup | `src/pvss_setup.cpp`, `include/pvss/Factory.hpp`, `scripts/gen_conf.py` | `drg.conf`, one context file per replica | draw keys, write contexts; write `drg.conf`, start `pvss-setup` | contexts of one setup agree; a replica reads whole ones |
| client | `src/client.cpp` | its address | listen, `send_start` | is where the replicas look for it |
| errors | `include/drgerror.hpp` | none | an exception type | (not modelled) |

How they interact. The main thread constructs `DrgBase` (which opens the
socket), adds the replicas, calls `on_init` and serves the event loop; worker
threads of the network accept connections and queue messages for it. A handler
runs to its end on the event loop's thread, so one replica's handlers do not
interleave; what interleaves is the handlers of different replicas and the
messages between them. `DrgCore` calls back into `DrgBase` through four virtual
functions that send to one replica or to all peers. A dealer writes its sharing
as text, puts its length in front, cuts it with `Erasure`, inserts the blocks
into a Merkle tree and frames each block with its path; a receiver goes the same
way back. Before all this `gen_conf.py` and `pvss-setup` have written the files
that a replica reads when it starts.

What is hard here: the threshold is counted on one row of the matrix and the
decoder reads another; which chunks exist depends on the dealer; the decoder
runs at *exactly* the threshold and can run again; a handler can end the process
halfway; the same chunk arrives from many sides; two thresholds are derived
from n by unrelated formulas; messages arrive before initialisation; the Merkle
tree inserts and hashes lazily, over nodes that flushing and retracting delete;
readers and writers agree on every byte and newline by hand; processes read files
that others are writing. The list with its source lines is `hazards` in
`PROJECT.json`.

## Modules

| module | models | role |
| --- | --- | --- |
| `DrgConfig` | n and what is derived from it | extended by the others |
| `DrgCore` | the state of N protocol objects and the three handlers | extended by the next two |
| `DrgCoreObject` | one object, its public interface called in any order | the class as its header offers it |
| `DrgNet` | the cluster: N objects and the network between them | the system as its handlers wire it |
| `ChunkGossip` | the abstract specification of dissemination, without messages | implemented by `DrgNet` |
| `DrgBase` | one process: start-up, handler table, event loop | |
| `Erasure` | padding, cutting, joining and trimming of a sharing's bytes | used by `ChunkWire` |
| `ByteStreams` | integers, hashes and positions in a stream of bytes | extended by the next two |
| `ChunkWire` | the bytes of chunk messages, from a sharing to a sharing | composes `Erasure`, `MerkleLog`, `MerklePath` |
| `MerklePath` | operators: a path taken from a log, written, read, verified | used by `ChunkWire` |
| `MerkleLog` | the abstract specification of a Merkle tree: a log of leaves | implemented by `MerkleTree` |
| `MerkleTree` | the tree on an explicit heap, and its operations | |
| `PolyOps` | the field, polynomials, interpolation and the degree test | extended by `Pvss` |
| `Pvss` | contexts, sharings, aggregation, decryption, reconstruction | the algebra that `DrgCore` abstracts |
| `TextFields` | fields and newlines, and how one is read | extended by the next two |
| `TextClass` | the text of an object of a class, given that of its parts | instantiated by `TextStreams` |
| `TextStreams` | the scripts of the PVSS classes, objects written and read | composed by `MCAlgorithms` |
| `Picosha` | which blocks the hash of a challenge compresses | composed by `MCAlgorithms` |
| `Lottery` | the draw that `DrgCore` takes as a free choice | composed by `MCAlgorithms` |
| `Bringup` | gen_conf.py, pvss-setup, the files, replicas and client | the system before its first message |
| `MCPvss` | the keys, polynomials and hash given to `Pvss` by TLC | |
| `MCDrgCoreObject` | the chunks given to one object by TLC | |
| `MCAlgorithms` | the three sequential algorithms, one of them in each behaviour | |
| `DrgCoreProofs`, `DrgNetProofs`, `StartupProofs`, `ErasureProofs`, `ChunkWireProofs`, `PvssProofs`, `TextClassProofs`, `AlgorithmProofs` | theorems and proofs; `DrgCoreProofs` is also about `DrgCoreObject`, `StartupProofs` about `Bringup` and `DrgBase`, `AlgorithmProofs` about `Lottery`, `Picosha` and `TextStreams` | |

A definition whose comment begins with "Mutant" is a plausible bug in the
definition below it. Nothing uses it; it is put in the place of that definition
to see that a property notices. A variable marked "history" is not in the code:
it remembers what happened so that a property can speak of it, and no guard
reads it.

### DrgCore

Variables have the names of the members they model, indexed by replica.
`sharechunk_matrix[r][d]` maps the chunk indexes that r keeps of dealer d to
`gen`, the run of `create_sharing` they come from, so that chunks of two
sharings of one dealer can be told apart. A sharing is its dealer and gen; gen 0
is whatever the decoder makes of a mixture. A Merkle proof is whether
`path.verify` accepts it. The VRF draw is a free choice.

`on_receive_shareChunk` is one handler with six ways through it, one action
each, and they exclude one another except where undefined parsing makes the
code's outcome open:

| action | path in the code |
| --- | --- |
| `IgnoreChunk` | the early return, `qsize > nreconthres` |
| `RecordChunk` | stored or rejected, relayed if new, not at the threshold |
| `DecodeNull` | the decoder dereferences a chunk that is not there; the process ends |
| `DecodeGarbage` | the bytes of two sharings do not parse, or do not aggregate |
| `RecoverSharing` | decoded and recorded, other sharings still missing |
| `AggregateAndShare` | all there: aggregate, take the own share, broadcast it |

The decoder reads `sharechunk_matrix[round]`, and every chunk is made with round
0: `DecodeRow` is therefore the row of dealer 0, whoever dealt the chunk.

`Exchange` is sending. A handler's messages go to queues in the process, which
worker threads empty. A step adds what its handler sent to `net`; when the process
ends, what has not left by then is lost, which is `DrgNet!Lose`.

### DrgNet

`net` is a set of messages in no order: a chunk comes from its dealer and from
every relay, over connections that are independent of one another. A message is in
it from the handler that sends it to its handling or loss, wherever it is: in a queue
of its sender, on a connection, or in a queue of its receiver. A message a
second copy of which is sent while the first is under way is one element; the
receiver treats repeated chunks like the first or ignores them, and repeated
delivery is explored through the copies of different relays.

Messages are lost in two ways. Those to `Unreliable` replicas may be lost at any
time. Those of a replica that has ended, of whichever handler, may be lost as long
as they are in `net`: nobody knows which of them were still in the memory of the
process. `Unreliable` replicas may be killed at any moment: between two handlers
(`Kill`) or inside the handler of a chunk, when it is stored and relayed, or
rejected, and not yet decoded (`KillHandling`); of its relays any part may have
left. A kill inside the dealing is `Start` and then `Kill`. Neither losses nor kills
are assumed to happen. A kill is final: nothing is stored, and no source
file makes a replica connect to another. That a signal kills at any moment follows
from `drg.cpp`: its handlers are added behind `start`, which does not return before
the loop ends, so the empty `stop` is never called while a replica runs.

Two things the code leaves out are assumed so that there is something to check:
that the replicas' connections exist, and that something calls
`on_receive_start` on the `Starters` (`start_handler` only logs).

### DrgBase

`phase` is how far the main thread is. `Arrive` is the worker threads: from the
moment the socket is open any message may be queued, also from an address that
is in no configuration. The peer address of a connection is non-null only for
an added peer, and even then the handshake may have failed, so the model
leaves both outcomes open for a peer and only "null" for a stranger. Any chunk that
reaches the core may end the process (`Core`; in `DrgCore` it depends on the rows):
then the loop ends, and what is queued is never taken.

### Erasure

A byte is its position in the stream and a padding byte is the constant
`Padding`, so equality of
streams is byte-for-byte equality with nothing of the padding. `Word` is
`w * sizeof(long)`. `decode` is a loop in the code and a few actions here, so
that its two exits and the block after them are seen separately. Its rounding of
the size, `decode_groups`, is written once more, as it is in the code: that it comes to
the same as that of `encode`, `Groups`, is a matter of `EvenBlocks` and `RoundTrip`. jerasure is
external: all data blocks are present whenever `DrgCore` decodes, and it leaves
those as they are.

### ChunkWire

`Erasure`, `MerkleLog` and `MerklePath` are instances here, for their operators
only. A byte of a sharing carries whose it is and its place, an integer is its
little-endian digits, so a message can be taken apart only the way it was put
together. `on_receive_shareChunk` is that handler up to the parsing of the
recovered sharing; everything behind that is in `DrgCore`. The lengths are real and
`buffers` remembers, for each decoding, how long the coding buffers were
(`chunk`'s length, `DrgCore.cpp:123`) and how much of them jerasure filled (the
block size of the row's first chunk). A write past a buffer ends the behaviour.

### MerkleTree, MerkleLog, MerklePath

`tree` is a record with the members of `TreeT` and the heap, `node`, a function
from the addresses in use to nodes; deleting takes an address out of its domain,
so that a pointer to a deleted node is one outside of it. Each method is an
operator from a tree to a tree, written after it, with its assertions as
guards where the caller must meet them. Assertions are active as the code is built (no
`CMakeLists.txt` names a build type and nothing defines `NDEBUG`), so `Copy` is not
taken where the assertion behind it fails: the process ends there. Hashing is
injective: the hash of two hashes is their pair. `MerkleLog` is what the tree
should be: a sequence of leaves, of which a part at the front may be forgotten.
`TreeIsALog` maps the tree to what it *answers* (`kept` and `rootHash` are what
root and leaves are when asked after each operation), not to its members.
`MerklePath` extracts paths from the log, which is sound because `MerkleTree`
checks that a tree's paths are the log's. A behaviour begins with a new tree, into
which leaves go one by one or, the first ones, as a vector.

### TextFields, TextClass and TextStreams

Writers and readers are scripts of steps, one entry per statement of the
operators; text is tokens, fields and newlines. A reader asserts each newline
that it consumes, as the code does (nothing defines `NDEBUG`; `Debug` is that the
secret is written along). libff writes in text mode: its numbers skip white
space, its group elements do not. An object that was read stays in `held` and
may be read into again, and `StaleParts` says exactly which parts of it survive.

`TextClass` says what a script does, given how the parts of an object are written
and read. A setup has aggregates, an aggregate decompositions, a decomposition a
proof and a proof fields, so `TextStreams` instantiates it four times: fields are
the parts of the first level, and what each level reads is a part of the next.

### PolyOps and Pvss

A group element is its exponent, so field arithmetic modulo a small prime stands
for all three groups and a pairing multiplies. Nothing is said about discrete
logarithms being hard, only that the equations hold. The hash of a proof is the
constant operator `Challenge`, any function of what is hashed; random draws are
choices, and each proof of a sharing draws a nonce of its own. `size_t` wraps at `SizeMax`, and `Memory` bounds the vectors that can
be allocated. One behaviour is a round of `pvss_setup`'s loop (num_faults + 1
dealers in a row, aggregated and verified) followed by what `DrgCore` does with
an aggregate: any replicas decrypt, in any order, and the beacon is
interpolated.

### Picosha, Lottery, MCAlgorithms

In `Picosha` a byte has `Byte` values and a block `Block` bytes, so that carries
and block ends come early; which blocks are compressed does not depend on their
sizes. The reference is the padding of the whole message at once. `Lottery` is
`unsigned_char_compare` round by round over an output the VRF may give. These two
and `TextStreams` share no state and do not call one another, so `MCAlgorithms`
puts them side by side without interleaving: a behaviour is one of just one of
them.

### Bringup

One action per file that is opened or closed, per process that reads one,
listens or ends. `keys` is the run of `pvss-setup` that a replica's keys were drawn
in. Assumed: `drg.conf` fits its writer's buffer (it is empty until it is closed);
a context is usable only when all of it is there, as reading less fails an
assertion of libff; one process per replica, all on one host, as `gen_conf.py`
writes it; and two runs of `pvss-setup` that have one file open may leave a
mixture. Keys are never read again by a replica that runs; only its end and another
start bring newer ones. `pvss-setup.dat` is written and read by nobody.

## Runs

| run | instance | what it shows |
| --- | --- | --- |
| `object` | N = 4, two deals | the safety of one object under any sequence of calls |
| `net` | N = 4, one deal, replica 0 unreliable | safety of the cluster whatever is lost with the replicas that end, that a deal ends one, and its refinement of `ChunkGossip` |
| `base` | N = 3, two messages, four addresses | start-up and end against arrivals, all address lists |
| `erasure` | Word = 3, k up to 5, 0 to 40 bytes | decode undoes encode |
| `pvss` | N = 5, Prime = 7, three decryptions | sharings, aggregates and decryptions verify; any three replicas in any order get the beacon of the sum |
| `tree` | up to 10 leaves with all operations, up to 18 with `insert`, `size` and copies | the tree is the log, its paths and past paths are the log's; incomplete insertions are completed when they must be |
| `wire` | two dealers, K = 2 of N = 4, four lengths | bytes of messages, proofs and buffers, in any order of delivery |
| `bringup` | N = 3, two runs of `gen_conf.py` | files, keys and restarts in every interleaving |
| `algorithms` | outputs of three bytes; messages of 320 bytes, Block = 12; two objects of eleven types, vectors of 0 to 2 | which outputs deal; every block end and two carries of the length; readers and writers agree, into new and used objects |
| `first_sharings`, `enough_to_reconstruct`, `setup_of_one` | | disagreements of the code with its own comments and assertions (below) |

Bounds and why they are enough. Four replicas are the smallest cluster in which
the threshold (2) is more than one chunk and in which `reconstruct` accepts
nreconthres shares, so that all six paths are taken and an object can survive
to the end. `MaxDeals` bounds the runs of `create_sharing`; two are needed for
a mixture of sharings. `MCInChunks` holds all chunks of dealer 0, two of a
second sharing of it, three chunks of dealer 1 (one more than a decoding takes)
and a rejected one: every branch of the handler for a dealer whose row the
decoder reads and for one whose row it does not. In `net` the dealer is replica
2, whose missing chunk is not among the first ones, the case in which a
decoding of its own row *would* be possible. The proofs lift all these bounds
for the safety properties of the core. `MaxArrivals = 2` lets one message wait
in the queue behind another. The lengths in `erasure` cover every residue of
`k * Word` for k up to 5, with whole multiples and the empty stream.

Five replicas are the fewest with num_faults = 2, where interpolation
multiplies weights and the degree test draws a polynomial that is not constant;
7 is the least prime above 5. The three polynomials of `MCPolys` span those of
degree 2, and everything tested is linear in them; dealer rounds begin at 3,
so that they wrap around.

`wire`: of the four `Lengths` some pairs have blocks of one size, others of
different sizes in either direction, so that buffers fit, overrun and underrun.
`tree`: in `Counts` are the sizes a tree grows to. Up to six leaves it may grow leaf
by leaf with every operation between; six are the fewest whose tree has a full
subtree of four beside an unfinished one, where flushing conflates at two levels
and retracting collapses nodes; nine and ten, inserted at once, add a level. size()
leaves leaves on its stack from 12 waiting leaves on, and 18 is past the next power
of two; beyond `MaxAsked` a tree is only built further, by `insert` and `size`, and
copied, in which the case occurs that a copy lacks leaves; and
the invariants ask it for its root, paths and past paths in every state. `algorithms`:
two objects suffice for what one leaves behind for the next; vectors of 0, 1 and 2
elements show the first, last and between. The calls of 31 and 260 bytes end and
span blocks; 260 exceeds a digit (16), so that two carries happen. With three bytes
of output there is a first, a middle and a last one; the theorem lifts both bounds.
`bringup`: three replicas and two runs are the least
with a file before and behind the one that is open while another run starts;
`StartupProofs` lifts both.

Fairness. `DrgNet!FairSpec` asks that while messages for running replicas are in
the network one of them is handled sooner or later: TCP connections and event loops
that do not all stop. No fairness is asked of starting a deal, of losses or of
kills. It is enough for every message because a deal causes finitely many. It does
not make a given chunk arrive, and that is no property of the code: replicas that
end take their relays with them. Of a deal by 2, say, 0 and 1 relay their chunks; then
0 is killed, 1 and 2 end in the decoder, and their copies for 3 have not left: 3 runs
on without a chunk.
What holds is `DealStopsAReplica`: as long as none has segfaulted, those that are
reliable all run, and nothing between them is lost. `Bringup` asks that
each `pvss-setup` that was started goes on; nothing is asked of what a person
starts. The other specifications state safety only: a process may end with any
chunk, so not even what is queued at it is sure to be taken.

Deadlock is checked for `Bringup`, which never stops. Elsewhere it is not: an
object ends with its process, the cluster when there is nothing left
to deliver, a process waits in its event loop, and the bounds of the others end
them.

## What the properties say

A property that a theorem holds of and no run lists (proved only, marked so here)
was checked by TLC before it was proved.

`DrgCoreObject`: `ClosedDealers` relates the early return (`>`) to the decoder's
condition (`==`) and says that a dealer is closed beyond the threshold;
`MatrixBound` (proved only) that rows are bounded. `SharingsAllAlike` and
`RecoveredFromFullRows` (proved only) say what the decoder's choice of row means:
every sharing that is recorded, under whatever dealer's name, is dealer 0's.
`ShareAfterAllSharings` says that the aggregation waits for all of the first
dealers. `BeaconFromDistinctOrigins` and `NoSurvivor` (proved only) are about
reconstruction. `SharingsAreFinal` and `ChunksAreFinal` (proved only) say that
nothing is rewritten, although decoding may happen again.

`DrgNet`: `Provenance`, `NoChunkStranded`, `RelayedOnce` and the refinement describe
what the dissemination keeps whatever ends in the middle of it. `NoChunkStranded`
speaks of each sender alone: what a replica that still runs has relayed or dealt is
kept at the other end, or its *own* copy is on its way, whatever became of all
others. Of what an ended replica sent nothing is promised. `RunningBelowThreshold` and
`NothingRecovered` say where it leads: because no dealer's chunk at its own
index exists (`OwnChunkAbsent`, proved only), dealer 0's chunk 0 does not, so the row the decoder reads is never
complete, and a replica that reaches the threshold of any dealer ends in the
decoder. No sharing is ever recovered, in no cluster and by no schedule.
`DealStopsAReplica` is the same as a liveness property: a deal does end a
process.

`DrgBase`: `InitBeforeChunks` says that early arrivals wait; `DealTargetsArePeers` that addressing by id and by
address agree; `ChunksFromConfigured` that what reaches the core came from a
peer.

`Erasure`: `RoundTrip` is the purpose; `EvenBlocks`, and `JoinedPrefix` and
`TailInsideBlocks` (proved only), are the reasons.

`ChunkWire`: `DealtChunksAreProven` and `RelaysAreTheDealers` say that a message
proves itself after any number of hops; `RecoveredBytes` says what a decoding
gives, also one over a row of another length; `BuffersFitTheirEncoding` says
between which sharings the coding buffers are not as long as what is written
into them.

`MerkleTree`: `LeafPointersLive` and `CleanHashesHold` are about the heap: no
pointer to a deleted or moved node, no node lost, no subtree with a wrong size, no
clean hash over dirty children. `PathsAreOfTheLog`, `PastIsThePrefix` and
`TreeIsALog` say what this is for.

`TextStreams`: `ReadsBack` says that no newline is read by the wrong class and what
a new object then holds, `StaleParts` what one in use does. `Picosha`:
`BlocksOfThePaddedMessage`, however a message is split. `Lottery`:
`DealsEndInZeros`, which says that the comparison is far from the numeric one. `Bringup`: `OneSetupsKeys`,
`KeysAreWhole` and `ContextsArrive` say what holds although nothing waits or locks,
and under which condition (no overlapping runs). `RestartedHasNewest` is about the
older keys that running replicas keep: once pvss-setup is done they come back to
nobody who has let go of them, however often replicas end and start.

`Pvss`: `AggregatesVerify`, of sharings and of their sum, and `DecryptionsVerify`
are the completeness of the three checks, for every draw of the verifier;
`OneCommitmentOff` is the soundness of the degree test against a single wrong
commitment: at most one draw in `Prime` misses it. `BeaconIsTheSum` says that the
beacon does not depend on who decrypts and in which order.

### Disagreements found

* `FirstSharingsReceived` (comment at `src/DrgCore.cpp:143`): a share is
  broadcast although only dealer 0's sharing was decoded, once per name.
* `EnoughToReconstruct` (assertion at `include/pvss/pvss.hpp:81`): with five
  replicas, the default of `gen_conf.py`, `reconstruct` gets two shares and
  asserts three. `ThresholdGap` proves that it fails for every n but 1, 2 and 4.
* `SetupEnds` (message at `src/pvss_setup.cpp:26`): "n must be >0", and n = 1 is
  the default, but with n = 1 `ensure_degree` computes 1 - 0 - 2 in `size_t` and
  draws a polynomial that does not fit into memory.

The first two need an object that gets a complete row of dealer 0, which its
public interface allows and which, by `NothingRecovered`, the shipped cluster
never produces.

Other disagreements were met while modelling. They are about code that the
models leave out or that this program does not reach, and no run shows them:

* `src/DrgBase.cpp:29` registers "the handlers for msg from replicas", but none for
  `MsgShare`, in which replicas would broadcast their decryption shares.
* `src/client.cpp:17`: the client listens on the port that `scripts/gen_conf.py`
  gives to replica 1, not on the one (`:60`) that every replica has for it.
* `include/merklecpp.h`: `size()` (`:1432`) answers with the size of a subtree while
  leaves are on the insertion stack; a copy (`:891`) lacks those leaves, which the
  assertion at `:912` notices; a moved tree (`:690`) leaves its root to the tree it
  came from, which deletes it; a copied path (`:284`) has no index;
  `serialised_size` of a path (`:420`) is its size in memory. `DrgCore` inserts,
  asks for the root and for paths, and copies, moves and measures nothing.

## Proofs

The theorems hold for every value of the constants (every N > 0, every
`MaxDeals`, every set of starters and unreliable replicas, every set of chunks
an object may be handed, every list of addresses, word size, block count,
stream, base and length, every prime order with its keys, polynomials, nonces
and hash, every message in any calls, and any number of runs of `gen_conf.py`);
nothing is assumed but the named assumptions on constants.

* `DrgCoreProofs`: facts about the helpers (maps, rows, thresholds, the network
  after a step) and `ThresholdGap`.
* `DrgNetProofs`: the inductive invariant `IInv` is type correctness,
  provenance, every chunk in flight verifying, absence of own-index chunks, rows
  of running replicas below the threshold, nothing recovered, and no chunk
  stranded. None of the last three
  is inductive alone: that a decoding cannot succeed needs the absence of chunk
  0 of dealer 0, and that in turn needs provenance of what is in flight;
  that nothing is aggregated needs both. `Refinement` maps each step to `Deal`,
  `Learn`, `Stop` or a stutter of `ChunkGossip`: a chunk may be learnt only
  from a replica that keeps it, which is the relay part of `Provenance`, and a
  replica halts exactly at the threshold, which is `RunningBelowThreshold`
  before the step; a kill inside a handler is a `Learn` that halts, and a loss a
  stutter. That nothing is stranded is kept by losses because they take only copies
  of senders that have ended or to receivers of which nothing is said, and by kills because they take a sender away.
* `DrgCoreProofs`, one object: `OInv` is type correctness, `MatrixBound`,
  `RecoveredFromFullRows` and `SharingsAllAlike`. The last two need each other:
  a recorded sharing implies that row 0 has all its data chunks, and chunks are
  never replaced (`StepRows`), so every later decoding reads the same ones.
  `SharingsAreFinal`, `ShareAfterAllSharings` and `ClosedDealers` follow step by
  step from `OInv`. A second invariant, `SharesInv`, says that the collected
  shares are at most nreconthres and that a running object that has that many
  passed the conditions of reconstruct; it gives `BeaconFromDistinctOrigins`
  and, with `ThresholdGap`, `NoSurvivor`.
* `StartupProofs`, `DrgBase`: that the two ways of addressing agree follows from how far the
  main thread has come, so the invariant says at each phase which replicas are
  added (`Built`), that the peer list is the configured addresses without the
  own one, in order (`PeersInOrder`), and that only added addresses are looked up
  (`PeersAreAdded`); the first chunk is handled only behind all of them.
* `ErasureProofs`: the two roundings agree (both are the quotient, or one more if
  anything is left over). `JoinedLoop` and `JoinedTail` say how much of the stream `out`
  is at each point; `BlockPart` (a block's part inside the stream is the stream's)
  and `Sizes` (k blocks hold the stream) are what a step needs. The integer
  divisions are reduced to quotient and remainder in three lemmas.
* `StartupProofs`, `Bringup`: without an overlap all runs but the last are finished
  (`Sequential`), a context is of the last run up to where that run has come and of
  the one before behind it (`Closed`), and only whole contexts are read
  (`WholeIsWritten`); `KeysAreWhole` holds even with an overlap. `StaleKeysEnd` proves
  `RestartedHasNewest`, a box under a box: from the moment that run r is done and a
  replica has no keys, either another run has begun or r is still done and the
  replica has none or those of r (`NewestOrNone`). The step of reading a context
  needs that contexts are all of run r by then, which is `OneSetupsKeys`.
* `ChunkWireProofs`: the inductive invariant `WireInv` says that the sharings do not
  change, that what is in flight was dealt (`RelaysAreTheDealers`), that a kept chunk
  is its dealer's block at its index (`KeptAreBlocks`), that what was handled is kept,
  that recovered bytes are dealer 0's, and that each coding buffer was as long as a
  block of the chunk's dealer and filled as a block of dealer 0 (`BuffersOfBlocks`).
  The four properties follow from it; alone, only `RelaysAreTheDealers` is inductive.
  A step needs two facts about bytes. One is `DealtMessageReads`: a dealt message,
  framed and read, is itself and proves its chunk. It rests on `ReadFramed` and
  `ReadSerialised` (pieces joined lie one behind the other, and each is taken from
  where it lies; a number below `Limit` is read as written, in both orders of bytes)
  and on `PathVerifies`: by induction over the number of leaves under a node, the
  path of a leaf leads to the node's hash (`Leads`), for a tree of any size. The other
  is `DecodedStream` with `ExtraBytes`: the data blocks, joined and cut at the size in
  front, are the stream, and the bytes behind its length those that were serialized;
  `Blocking` takes the sizes of the blocks from `ErasureProofs`. That the buffers fit
  unless the other sharing is shorter is `BlockSizeMonotonic`. Assumed are
  `LimitAssumption` (what is written fits the bytes of an integer, as it does in
  the code below 2^31) and `BlockAssumption` (a block has the bytes of a hash).
* `PvssProofs`: `IInv` says in `Contexts`, `Dealt`, `Aggregated`, `Accepted`,
  `Decrypted` and `Reconstructed` what each phase leaves behind. Its centre is that
  of every aggregate, however many sharings it sums and in whatever order, there is
  one polynomial of degree at most `num_faults` whose values the parts commit to
  and encrypt and whose value at 0 is the sum of the secrets (`Aggregates`).
  `AggregateOfSharings` is that step; from it the checks accept
  (`AggregatesVerify`, `DecryptionsVerify`) because of `DualCode`, a wrong
  commitment is seen by all duals but those with a zero there
  (`OneCommitmentOff`), and the beacon is the sum (`BeaconIsTheSum`) because of
  `Lagrange`, whichever replicas' decryptions come and in which order. `DualCode`
  and `Lagrange` are both about weighted sums over points; `Exact` collects what is
  common: a weighting that is right for a function is right for `x - a` times it, so
  it is right for all polynomials by Horner's rule. Below are the field (inverses
  by division with remainder, `Prime` being prime), and sums and products over any
  finite set, which do not depend on the order in which a fold takes the elements.
  Assumed are `PointsAssumption` (fewer replicas than field elements, which
  Lagrange needs: the points must differ and not be 0), `ChallengeAssumption` (the
  hash gives a field element) and that the draws are draws. `AggregatesVerify` and
  `OneCommitmentOff` are for `N >= 2`: of one replica the dual's degree wraps, which
  is what the run `setup_of_one` shows; `SetupOfMoreEnds` proves that only a cluster
  of one has that trouble.
* `AlgorithmProofs`, the lottery: while the comparison is open no byte before `i`
  is greater than the difficulty's; that gives `DealsEndInZeros` for every base and
  length. The hash: `Streamed` says that the blocks compressed are the first blocks
  of the message and the buffer is what is behind them (`Split`), less than a block,
  and that the digits are those of its length (`DigitsOf`). `LengthAdded` is the
  carrying of one call, `LengthWritten` the shifting by three places of finish
  against the plain bytes of eight times the length, `ZerosPrescribed` and
  `LastBlocks` the two ways to end a message. That digits wrap at the same number as
  the prescribed length does is part of it, so no bound on a message's length is
  assumed.
* `TextClassProofs`: whatever the parts of an object are, if each is read back as it
  was written (`PartsRead`), then so is the object (`ObjectsRead`), provided that the
  two scripts agree step by step and no member has two steps (`Scripted`). `Result`
  says what is left in an object that is read again. A text is taken from its end:
  what follows each step is the text of the next one and what follows that
  (`JoinedFromTheEnd`), and the reader's state after each step (`Partly`) satisfies
  the equation that defines it, which has one solution. Elements of a vector are
  read in the same way.
* `AlgorithmProofs`, the text: that the scripts of each of the eleven classes agree
  (`OptionalAgrees` to `SetupAgrees`) is shown of lists of steps, without listing
  texts; then `Level2` to `Level4` lift `PartsRead` through the levels. The invariant
  `StreamInv` says that the stream is the text of what is pending, that held objects
  are objects of their classes and that what was read is the `Result`. `ReadsBack`
  follows because nothing of a new object is left, `StaleParts` because only the
  reader of a sharing appends and only that of an optional keeps; both for vectors
  of every length and any number of objects, with and without the secret's line.

Induction over data: the library's theorems take an operator, which the provers
cannot instantiate, so `PvssProofs`, `ChunkWireProofs` and `TextClassProofs` state
induction over a set of naturals (`NatSetInduction`, `BoundedInduction`, from the
least element) and instantiate it with the set of those numbers of which a claim holds. A recursive function of a definition is
taken apart after it is shown, by the same induction, that a function with its
equation exists (`NodesExist`, `HashesExist`, `JoinsExist`, `Iterated` and others).
The hash needs none: the digits are four, and a step of `process` is taken
as a whole, by elements of sequences.

Only model-checked: the liveness properties (the prover has no reasoning about
fairness); and `MerkleTree`, whose heap of nodes is walked by `RECURSIVE` operators,
which the prover does not handle, so that what it computes is compared with the log
on trees up to 18 leaves.

## Not modelled

* The compression function of SHA-256, in `picosha.h` and in `merklecpp.h`, and the
  reading of a digest as hexadecimal digits and field element: words do not fit
  TLC's integers, and no property tells one good hash from another. Hashes are
  injective or any function.
* libff's digits, jerasure's arithmetic, libsodium's VRF and salticidae are not in
  this repository; they are modelled by how they are used. How connections between
  replicas come about is in no source file.
* The client's one `MsgStart`: its handler only logs, and whether it leaves before
  the connection exists is up to salticidae. Framing of `MsgShare`: a replica
  never gets as far as sending one, and nobody has a handler for it.
* `drgerror.hpp` (an exception type), command-line parsing, logging.
* Of `merklecpp.h`, printing, statistics, the moving of a tree, the copying of a
  path and the two `serialised_size`: nothing in this program uses them.
* The header allows chunks with a `round` other than 0; no code makes one, and the
  models do not either.

## Plan

Done: everything in the tables above. Left, in this order:

1. `DrgNet` over the bytes of `ChunkWire`: that the abstract chunk (dealer, run,
   index, proof) stands for a message's bytes is checked for one object, not yet
   stated as a refinement.
2. Connections, reconnection and the client's start, once the code opens any.
3. `MerkleTree` with recursive functions in the place of its `RECURSIVE` walks of the
   heap, and then that the tree is the log for every number of leaves. That a log's
   path leads to its root is proved (`PathVerifies`).
