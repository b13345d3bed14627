----------------------------- MODULE ChunkGossip ------------------------------
(***************************************************************************)
(* What the dissemination of chunks promises, without messages: every      *)
(* dealer that has dealt has a chunk for every other replica; a replica    *)
(* learns the chunk of its own index from the dealer and every other chunk *)
(* from a replica that knows it; and it stops the moment it knows          *)
(* Threshold chunks of one dealer, if not earlier.                         *)
(***************************************************************************)
EXTENDS Integers, FiniteSets

CONSTANTS
  Replica,    \* the replicas, which are dealers and chunk indexes as well
  Threshold,  \* how many chunks of a dealer stop a replica
  Mortal      \* the replicas that may stop at any time

VARIABLES
  dealt,      \* the dealers that have dealt
  known,      \* per replica and dealer: the indexes it knows the chunk of
  halted      \* the replicas that have stopped

vars == <<dealt, known, halted>>

Init ==
  /\ dealt  = {}
  /\ known  = [r \in Replica |-> [d \in Replica |-> {}]]
  /\ halted = {}

Deal(d) ==
  /\ d \notin halted
  /\ dealt' = dealt \cup {d}
  /\ UNCHANGED <<known, halted>>

\* There is no chunk of d's to be learnt at d's own index.
Learn(r, d, i) ==
  /\ r \notin halted
  /\ i # d
  /\ i \notin known[r][d]
  /\ i = r \/ \E p \in Replica \ {r} : i \in known[p][d]
  /\ known' = [known EXCEPT ![r][d] = @ \cup {i}]
  /\ \/ halted' = IF Cardinality(known[r][d] \cup {i}) >= Threshold
                    THEN halted \cup {r}
                    ELSE halted
     \/ r \in Mortal /\ halted' = halted \cup {r}
  /\ UNCHANGED dealt

Stop(r) ==
  /\ halted' = halted \cup {r}
  /\ UNCHANGED <<dealt, known>>

Next ==
  \/ \E d \in Replica : Deal(d)
  \/ \E d \in dealt : \E r, i \in Replica : Learn(r, d, i)
  \/ \E r \in Mortal : Stop(r)

Spec == Init /\ [][Next]_vars
=============================================================================
