-------------------------------- MODULE MCPvss --------------------------------
(* Instances of Pvss for TLC. *)
EXTENDS Pvss

\* A hash into the field that depends on every part of the statement.
MCChallenge(statement) ==
  FoldLeft(LAMBDA c, x : (3 * c + x + 1) % Prime, 1, statement)

\* All keys different; and all alike but one.
MCSetups ==
  {[secret_keys |-> [i \in 1 .. N |-> i], h2 |-> 2],
   [secret_keys |-> [i \in 1 .. N |-> IF i = 2 THEN 1 ELSE Prime - 1], h2 |-> 3]}

\* Constant, without a constant, and with all coefficients.
MCPolys ==
  {[c \in 1 .. num_faults + 1 |-> IF c = 1 THEN 4 ELSE 0],
   [c \in 1 .. num_faults + 1 |-> IF c = 1 THEN 0 ELSE 5],
   [c \in 1 .. num_faults + 1 |-> c]}

\* Nonces that differ from proof to proof.
MCNonces == {[i \in 0 .. N |-> (2 * i + 5) % Prime]}
=============================================================================
