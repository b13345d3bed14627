----------------------------- MODULE MCAlgorithms -----------------------------
(***************************************************************************)
(* The sequential algorithms, which share no state and never call one      *)
(* another: the lottery's comparison (Lottery), the hash of a challenge    *)
(* (Picosha) and the text of the PVSS objects (TextStreams).  A behaviour  *)
(* is one of just one of them, the others stay at their beginning.         *)
(***************************************************************************)
EXTENDS Lottery, Picosha, TextStreams

VARIABLE algorithm        \* the one that runs

MCInit ==
  /\ algorithm \in {"lottery", "sha256", "text"}
  /\ Init /\ (algorithm = "lottery" \/ hash = difficulty)
  /\ init
  /\ TextInit

MCNext ==
  \/ algorithm = "lottery" /\ LotteryNext /\ UNCHANGED <<algorithm, shaVars, textVars>>
  \/ algorithm = "sha256"  /\ ShaNext     /\ UNCHANGED <<algorithm, lotteryVars, textVars>>
  \/ algorithm = "text"    /\ TextNext    /\ UNCHANGED <<algorithm, lotteryVars, shaVars>>

MCSpec == MCInit /\ [][MCNext]_<<algorithm, lotteryVars, shaVars, textVars>>
=============================================================================
