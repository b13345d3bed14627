--------------------------------- MODULE Pvss ---------------------------------
(***************************************************************************)
(* The secret sharing behind the beacon (pvss.hpp), driven the way         *)
(* pvss_setup.cpp and DrgCore drive it: contexts are made, num_faults + 1  *)
(* replicas in a row share a secret, the sharings are aggregated, the      *)
(* aggregate is verified, replicas decrypt it in any order, and the beacon *)
(* is reconstructed from what was decrypted.                               *)
(*                                                                         *)
(* Exponents stand for group elements (PolyOps): g1 and h1 have exponent   *)
(* 1, and a pairing multiplies.  The hash of a proof is any function of    *)
(* the statement, Challenge.  Random draws are choices.                    *)
(***************************************************************************)
EXTENDS DrgConfig, FiniteSets, PolyOps

CONSTANTS
  Challenge(_),  \* hashToField of a statement
  Setups,        \* bound: what getContext draws, secret keys and h2
  Firsts,        \* bound: the dealers that a round of pvss_setup begins with
  Polys,         \* bound: the polynomials that dealers draw
  Nonces,        \* bound: the nonces that are drawn, one for each proof of a sharing
  MaxDecs        \* bound: the decryptions that are collected

\* The points 1 .. N are different elements of the field, other than 0;
\* nreplicas is a size_t.
ASSUME PointsAssumption == N < Prime /\ N <= SizeMax
\* Statements have the sizes that DualProve and Prove give them.
ASSUME ChallengeAssumption ==
  \A s \in (Fr \X Fr \X Fr) \cup (Fr \X Fr \X Fr \X Fr \X Fr \X Fr) :
    Challenge(s) \in Fr
ASSUME DrawsAssumption ==
  /\ Setups \subseteq [secret_keys : [1 .. N -> Fr \ {0}], h2 : Fr \ {0}]
  /\ Firsts \subseteq ReplicaID
  /\ Polys \subseteq Polynomials(num_faults)
  /\ Nonces \subseteq [0 .. N -> Fr]
  /\ MaxDecs \in Nat

VARIABLES
  secret_keys,   \* the contexts of getContext: point -> secret key
  h2,            \* the second generator of the contexts
  first,         \* pvss_setup's loop: the replica that shares first
  pvss_vec,      \* the sharings made so far
  id_vec,        \* who made them
  agg,           \* the aggregate, in a sequence that is empty before
  checked,       \* what verify_aggregation said: "not yet", "accepted", ...
  recon,         \* the decryptions collected so far
  beacon         \* the beacon, in a sequence that is empty before

vars == <<secret_keys, h2, first, pvss_vec, id_vec, agg, checked, recon, beacon>>

\* Replica r evaluates at r + 1; sequences are indexed by these points.
Point == 1 .. N

pk_map == [i \in Point |-> secret_keys[i]]

pairing(x, y) == x ** y

-----------------------------------------------------------------------------
(* Proofs that two elements have the same discrete logarithm.              *)

DualProve(g, gx, h, hx, x, r) ==
  LET gra == r ** g
      grb == r ** h
  IN  [gra |-> gra, grb |-> grb,
       pi |-> r ++ (x ** Challenge(<<g, gx, h, hx, gra, grb>>))]

DualVerify(proof, g, gx, h, hx) ==
  LET c == Challenge(<<g, gx, h, hx, proof.gra, proof.grb>>)
  IN  /\ proof.pi ** g = proof.gra ++ (c ** gx)
      /\ proof.pi ** h = proof.grb ++ (c ** hx)

\* Mutant: the challenge leaves out the commitment.
ProveUncommitted(g, gx, x, r) ==
  [gr |-> r ** g, pi |-> r ++ (x ** Challenge(<<g, gx>>))]

Prove(g, gx, x, r) ==
  [gr |-> r ** g, pi |-> r ++ (x ** Challenge(<<g, gx, r ** g>>))]

Verify(proof, g, gx) ==
  proof.pi ** g = proof.gr ++ (Challenge(<<g, gx, proof.gr>>) ** gx)

-----------------------------------------------------------------------------
(* The operations of a context.                                            *)

\* The secret is part of a sharing in builds without NDEBUG.  Each proof draws a
\* nonce of its own, that of the decomposition the one called 0.
create_sharing(poly, r) ==
  LET evals == [i \in Point |-> evaluate(poly, i)]
      encs  == [i \in Point |-> evals[i] ** pk_map[i]]
      s     == get_secret(poly)
  IN  [encryptions |-> encs,
       commitments |-> evals,
       dleq_proofs |-> [i \in Point |->
                          DualProve(pk_map[i], encs[i], 1, evals[i], evals[i], r[i])],
       decomp_pi   |-> [gs |-> s, pi |-> Prove(1, s, s, r[0])],
       secret      |-> s]

verify_sharing(s, dual) ==
  /\ ensure_degree(s.commitments, num_faults, dual)
  /\ \A i \in Point :
       DualVerify(s.dleq_proofs[i], pk_map[i], s.encryptions[i], 1, s.commitments[i])
  /\ s.decomp_pi.gs = lagrange_interpolation(num_faults, s.commitments, AtIndexes(N))
  /\ Verify(s.decomp_pi.pi, 1, s.decomp_pi.gs)

\* Mutant: the last sharing's encryptions are not added.
aggregate_but_last(pvec, ids) ==
  LET Sharings == DOMAIN pvec
  IN  [encryptions   |-> [j \in Point |-> Total([k \in Sharings \ {Len(pvec)} |->
                                                 pvec[k].encryptions[j]])],
       commitments   |-> [j \in Point |->
                            Total([k \in Sharings |-> pvec[k].commitments[j]])],
       decomposition |-> [k \in Sharings |-> pvec[k].decomp_pi],
       id_vec        |-> ids]

aggregate(pvec, ids) ==
  LET Sharings == DOMAIN pvec
  IN  [encryptions   |-> [j \in Point |->
                            Total([k \in Sharings |-> pvec[k].encryptions[j]])],
       commitments   |-> [j \in Point |->
                            Total([k \in Sharings |-> pvec[k].commitments[j]])],
       decomposition |-> [k \in Sharings |-> pvec[k].decomp_pi],
       id_vec        |-> ids]

DecompositionSum(a) == Total([k \in DOMAIN a.decomposition |-> a.decomposition[k].gs])

verify_aggregation(a, dual) ==
  /\ Len(a.decomposition) = Len(a.id_vec)
  /\ Len(a.id_vec) >= num_faults
  /\ ensure_degree(a.commitments, num_faults, dual)
  /\ \A i \in Point : pairing(pk_map[i], a.commitments[i]) = pairing(a.encryptions[i], 1)
  /\ \A k \in DOMAIN a.decomposition :
       Verify(a.decomposition[k].pi, 1, a.decomposition[k].gs)
  /\ DecompositionSum(a) = lagrange_interpolation(num_faults, a.commitments, AtIndexes(N))

decrypt(a, i, r) ==
  LET dec == inverse(secret_keys[i]) ** a.encryptions[i]
  IN  [dec |-> dec, origin |-> i - 1,
       pi |-> Prove(dec, a.encryptions[i], secret_keys[i], r)]

verify_decryption(a, d) == Verify(d.pi, d.dec, a.encryptions[d.origin + 1])

\* Mutant: decryptions are taken to be those of the first replicas, in order.
reconstruct_at_indexes(decs) ==
  LET point == lagrange_interpolation(num_faults,
                                      [k \in DOMAIN decs |-> decs[k].dec],
                                      AtIndexes(Len(decs)))
  IN  [recon |-> point, beacon |-> pairing(point, h2)]

reconstruct(decs) ==
  LET point == lagrange_interpolation(num_faults,
                                      [k \in DOMAIN decs |-> decs[k].dec],
                                      [k \in DOMAIN decs |-> decs[k].origin + 1])
  IN  [recon |-> point, beacon |-> pairing(point, h2)]

verify_beacon(a, b) ==
  /\ pairing(1, DecompositionSum(a)) = pairing(b.recon, 1)
  /\ pairing(b.recon, h2) = b.beacon

-----------------------------------------------------------------------------
\* getContext, and a round of pvss_setup's loop.
Init ==
  /\ \E setup \in Setups : secret_keys = setup.secret_keys /\ h2 = setup.h2
  /\ first \in Firsts
  /\ pvss_vec = <<>>
  /\ id_vec   = <<>>
  /\ agg      = <<>>
  /\ checked  = "not yet"
  /\ recon    = <<>>
  /\ beacon   = <<>>

\* The next dealer of the round draws a polynomial of degree num_faults.
Share ==
  /\ Len(pvss_vec) < num_faults + 1
  /\ \E poly \in Polys, r \in Nonces :
       pvss_vec' = Append(pvss_vec, create_sharing(poly, r))
  /\ id_vec' = Append(id_vec, (first + Len(id_vec)) % N)
  /\ UNCHANGED <<secret_keys, h2, first, agg, checked, recon, beacon>>

Aggregate ==
  /\ Len(pvss_vec) = num_faults + 1
  /\ agg = <<>>
  /\ agg' = <<aggregate(pvss_vec, id_vec)>>
  /\ UNCHANGED <<secret_keys, h2, first, pvss_vec, id_vec, checked, recon, beacon>>

\* A rejected aggregate ends pvss_setup with an exception, and so does a random
\* polynomial that does not fit into memory.
VerifyAggregation ==
  /\ agg # <<>>
  /\ checked = "not yet"
  /\ checked' \in
       IF RandomFits(DualDegree(N, num_faults))
         THEN {IF verify_aggregation(agg[1], dual) THEN "accepted" ELSE "rejected" :
                 dual \in Duals(N, num_faults)}
         ELSE {"out of memory"}
  /\ UNCHANGED <<secret_keys, h2, first, pvss_vec, id_vec, agg, recon, beacon>>

Decrypt(i) ==
  /\ agg # <<>>
  /\ beacon = <<>>
  /\ Len(recon) < MaxDecs
  /\ \A k \in DOMAIN recon : recon[k].origin # i - 1
  /\ \E r \in Nonces : recon' = Append(recon, decrypt(agg[1], i, r[i]))
  /\ UNCHANGED <<secret_keys, h2, first, pvss_vec, id_vec, agg, checked, beacon>>

\* Called with as many decryptions as its assertion asks for; that DrgCore calls it
\* with nreconthres of them, which can be fewer, is in DrgCoreObject.
Reconstruct ==
  /\ Len(recon) > num_faults
  /\ beacon = <<>>
  /\ beacon' = <<reconstruct(recon)>>
  /\ UNCHANGED <<secret_keys, h2, first, pvss_vec, id_vec, agg, checked, recon>>

Next ==
  \/ Share
  \/ Aggregate
  \/ VerifyAggregation
  \/ \E i \in Point : Decrypt(i)
  \/ Reconstruct

Spec == Init /\ [][Next]_vars

-----------------------------------------------------------------------------
Secret == Total([k \in DOMAIN pvss_vec |-> pvss_vec[k].secret])

\* A sharing of an honest dealer is accepted whatever verify_sharing draws.
SharingsVerify ==
  pvss_vec # <<>> /\ agg = <<>> =>
    \A dual \in Duals(N, num_faults) : verify_sharing(Last(pvss_vec), dual)

\* And so is the sum of such sharings: pvss_setup never ends with "aggregation
\* verification failed".
AggregatesVerify == SharingsVerify /\ checked # "rejected"

\* ensure_degree notices that a single commitment is not the polynomial's: of
\* all the polynomials it may draw, it accepts for one in Prime at most.
OneCommitmentOff ==
  agg # <<>> /\ recon = <<>> =>
    \A i \in Point : \A x \in Fr \ {agg[1].commitments[i]} :
      LET Accepting == {dual \in Duals(N, num_faults) :
            ensure_degree([agg[1].commitments EXCEPT ![i] = x], num_faults, dual)}
      IN  Prime * Cardinality(Accepting) <= Cardinality(Duals(N, num_faults))

\* Every decryption verifies against the aggregate it was made from.
DecryptionsVerify ==
  \A k \in DOMAIN recon : verify_decryption(agg[1], recon[k])

\* Whichever replicas decrypt, and in whichever order, the beacon is that of
\* the sum of the dealers' secrets, and verify_beacon accepts it.
BeaconIsTheSum ==
  beacon # <<>> =>
    /\ beacon[1].recon = Secret
    /\ beacon[1].beacon = pairing(Secret, h2)
    /\ verify_beacon(agg[1], beacon[1])

\* pvss_setup.cpp:26, "n must be >0", is all the tool asks of n: for any such n
\* the verification of an aggregate comes to an end.
SetupEnds == checked # "out of memory"
=============================================================================
