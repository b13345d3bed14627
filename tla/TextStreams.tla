----------------------------- MODULE TextStreams ------------------------------
(***************************************************************************)
(* Objects of the PVSS written to a text stream and read back: a sharing   *)
(* on its way to the other replicas, a decryption share, the context and   *)
(* the aggregates that pvss_setup stores.  The scripts of their writers    *)
(* and readers (TextClass) are over tokens that are fields or newlines     *)
(* (TextFields).                                                           *)
(***************************************************************************)
EXTENDS TextFields

CONSTANTS
  MaxObjects,   \* bound: objects written in one behaviour
  ObjectSizes,  \* bound: lengths of their vectors
  Debug         \* whether NDEBUG is not defined

ASSUME TextAssumption ==
  MaxObjects \in Nat /\ ObjectSizes \subseteq Nat /\ Debug \in BOOLEAN

VARIABLES
  stream,       \* the tokens written and not read
  pending,      \* the objects written and not read, with their types
  objects,      \* how many were written
  held,         \* of each type, the object that was read last
  inStep,       \* FALSE after an assertion failed or a field was not found
  last          \* history: what was read last, what was written there, and what
                \* the object held before

textVars == <<stream, pending, objects, held, inStep, last>>

-----------------------------------------------------------------------------
\* Scripts.
line              == [does |-> "line", name |-> "", of |-> ""]
part(name, t)     == [does |-> "part", name |-> name, of |-> t]
vector(name, t)   == [does |-> "vector", name |-> name, of |-> t]
appended(name, t) == [does |-> "appended", name |-> name, of |-> t]
cleared(name, t)  == [does |-> "cleared", name |-> name, of |-> t]
resized(name, t)  == [does |-> "resized", name |-> name, of |-> t]
maybe(name, t)    == [does |-> "maybe", name |-> name, of |-> t]

\* Each part, and a newline after it.
Lines(parts) == [k \in 1 .. 2 * Len(parts) |-> IF k % 2 = 1 THEN parts[(k + 1) \div 2] ELSE line]
secretLine   == IF Debug THEN Lines(<<part("secret", "number")>>) ELSE <<>>

WriteOptional == <<maybe("value", "Dleq")>>
ReadOptional  == <<maybe("value", "Dleq")>>

WriteDleqDual == Lines(<<part("gra", "group"), part("grb", "group"), part("pi", "number")>>)
ReadDleqDual  == Lines(<<part("gra", "group"), part("grb", "group"), part("pi", "number")>>)

WriteDleq == Lines(<<part("gr", "group"), part("pi", "number")>>)
\* Mutant: the two in the other order.
ReadDleqTurned == Lines(<<part("pi", "number"), part("gr", "group")>>)
ReadDleq  == Lines(<<part("gr", "group"), part("pi", "number")>>)

WriteDecomposition == Lines(<<part("pi", "Dleq"), part("gs", "group")>>)
ReadDecomposition  == Lines(<<part("pi", "Dleq"), part("gs", "group")>>)

WriteDecryption ==
  Lines(<<part("dec", "group"), part("pi", "Dleq"), part("origin", "number")>>)
ReadDecryption ==
  Lines(<<part("dec", "group"), part("pi", "Dleq"), part("origin", "number")>>)

WriteBeacon == Lines(<<part("recon", "group"), part("beacon", "group")>>)
ReadBeacon  == Lines(<<part("recon", "group"), part("beacon", "group")>>)

WriteConfig == Lines(<<part("num_replicas_", "number"), part("num_faults_", "number")>>)
ReadConfig  == Lines(<<part("num_replicas_", "number"), part("num_faults_", "number")>>)

WriteSharing ==
  <<vector("encryptions", "group"), vector("commitments", "group"),
    vector("dleq_proofs", "DleqDual")>> \o Lines(<<part("decomp_pi", "Decomposition")>>)
\* Only the first of the three vectors is cleared.
ReadSharing ==
  <<cleared("encryptions", "group"), appended("commitments", "group"),
    appended("dleq_proofs", "DleqDual")>> \o Lines(<<part("decomp_pi", "Decomposition")>>)

WriteAggregate ==
  <<vector("encryptions", "group"), vector("commitments", "group"),
    vector("decomposition", "Decomposition"), vector("id_vec", "number")>> \o secretLine
\* Mutant: elements are added to those that are there.
ReadAggregateAppending ==
  <<resized("encryptions", "group"), resized("commitments", "group"),
    resized("decomposition", "Decomposition"), appended("id_vec", "number")>> \o secretLine
ReadAggregate ==
  <<resized("encryptions", "group"), resized("commitments", "group"),
    resized("decomposition", "Decomposition"), resized("id_vec", "number")>> \o secretLine

WriteContext ==
  <<vector("pk_map", "group")>>
  \o Lines(<<part("g1", "group"), part("g2", "group"), part("h1", "group"),
             part("h2", "group"), part("secret_key", "number"), part("my_id", "number")>>)
ReadContext ==
  <<resized("pk_map", "group")>>
  \o Lines(<<part("g1", "group"), part("g2", "group"), part("h1", "group"),
             part("h2", "group"), part("secret_key", "number"), part("my_id", "number")>>)

\* A vector of aggregates, as pvss_setup writes it.
WriteSetup == <<vector("aggregates", "Aggregate")>>
ReadSetup  == <<resized("aggregates", "Aggregate")>>

Writes ==
  [Optional |-> WriteOptional, DleqDual |-> WriteDleqDual, Dleq |-> WriteDleq,
   Decomposition |-> WriteDecomposition, Decryption |-> WriteDecryption,
   Beacon |-> WriteBeacon, Config |-> WriteConfig, Sharing |-> WriteSharing,
   Aggregate |-> WriteAggregate, Context |-> WriteContext, Setup |-> WriteSetup]
Reads ==
  [Optional |-> ReadOptional, DleqDual |-> ReadDleqDual, Dleq |-> ReadDleq,
   Decomposition |-> ReadDecomposition, Decryption |-> ReadDecryption,
   Beacon |-> ReadBeacon, Config |-> ReadConfig, Sharing |-> ReadSharing,
   Aggregate |-> ReadAggregate, Context |-> ReadContext, Setup |-> ReadSetup]

-----------------------------------------------------------------------------
\* A setup has aggregates, an aggregate decompositions, a decomposition a proof and
\* a proof fields: the classes of each level are read with those below.
OfFields == INSTANCE TextClass WITH
  PartFresh <- FieldFresh, PartSample <- FieldSample, PartText <- FieldText,
  PartParse <- Field
OfProofs == INSTANCE TextClass WITH
  PartFresh <- OfFields!Fresh, PartSample <- OfFields!Sample, PartText <- OfFields!Text,
  PartParse <- OfFields!Parse
OfDecompositions == INSTANCE TextClass WITH
  PartFresh <- OfProofs!Fresh, PartSample <- OfProofs!Sample, PartText <- OfProofs!Text,
  PartParse <- OfProofs!Parse
OfAggregates == INSTANCE TextClass WITH
  PartFresh <- OfDecompositions!Fresh, PartSample <- OfDecompositions!Sample,
  PartText <- OfDecompositions!Text, PartParse <- OfDecompositions!Parse

Types             == OfAggregates!Types
Fresh(t)          == OfAggregates!Fresh(t)
Sample(t, n, tag) == OfAggregates!Sample(t, n, tag)
Text(t, v)        == OfAggregates!Text(t, v)
Parse(t, r)       == OfAggregates!Parse(t, r)

-----------------------------------------------------------------------------
TextInit ==
  /\ stream = <<>>
  /\ pending = <<>>
  /\ objects = 0
  /\ held = [t \in Types |-> Fresh(t)]
  /\ inStep = TRUE
  /\ last = {}

Write ==
  /\ objects < MaxObjects
  /\ \E t \in Types, n \in ObjectSizes :
       LET v == Sample(t, n, <<objects + 1>>)
       IN  /\ stream' = stream \o Text(t, v)
           /\ pending' = Append(pending, [type |-> t, object |-> v])
  /\ objects' = objects + 1
  /\ UNCHANGED <<held, inStep, last>>

ReadInto(t, before) ==
  /\ \E r \in {Parse(t, [v |-> before, rest |-> stream, ok |-> TRUE])} :
       /\ stream' = r.rest
       /\ held' = [held EXCEPT ![t] = r.v]
       /\ inStep' = r.ok
       /\ last' = {[type |-> t, before |-> before, wrote |-> Head(pending).object,
                    read |-> r.v]}
  /\ pending' = Tail(pending)
  /\ UNCHANGED objects

ReadNew ==
  /\ inStep
  /\ pending # <<>>
  /\ LET t == Head(pending).type IN ReadInto(t, Fresh(t))

\* Into the object that was read before; parseContext makes a new one.
ReadAgain ==
  /\ inStep
  /\ pending # <<>>
  /\ LET t == Head(pending).type IN t # "Context" /\ ReadInto(t, held[t])

TextNext == Write \/ ReadNew \/ ReadAgain

TextSpec == TextInit /\ [][TextNext]_textVars

-----------------------------------------------------------------------------
\* No reader's assertion on a newline fails, no field is looked for where there is
\* none, and what is left of the stream is just what was not read: every writer
\* ends its lines where its reader does, nested and in vectors of any length.
InStep ==
  /\ inStep
  /\ stream = FlattenSeq([k \in 1 .. Len(pending) |->
                            Text(pending[k].type, pending[k].object)])

\* And what is read into a new object is what was written.
ReadsBack ==
  /\ InStep
  /\ \A r \in last : r.before = Fresh(r.type) => r.read = r.wrote

\* What is left of an object that is read into again: a sharing's commitments and
\* proofs stay in front of the new ones, an optional keeps its value if none was
\* written, and nothing else is left.
StaleParts ==
  \A r \in last :
    r.read =
      CASE r.type = "Sharing" ->
             [r.wrote EXCEPT !.commitments = r.before.commitments \o @,
                             !.dleq_proofs = r.before.dleq_proofs \o @]
        [] r.type = "Optional" -> IF r.wrote.value = <<>> THEN r.before ELSE r.wrote
        [] OTHER -> r.wrote
=============================================================================
