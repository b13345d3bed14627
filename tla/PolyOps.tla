------------------------------- MODULE PolyOps --------------------------------
(***************************************************************************)
(* The field of the PVSS scheme and its polynomials (PolyOps.hpp).         *)
(*                                                                         *)
(* The scheme works in groups of prime order.  A group element is modelled *)
(* as its exponent to the generator of the group, so that Fr stands for    *)
(* the scalars and for both groups: adding elements adds exponents, and    *)
(* multiplying an element by a scalar multiplies them.                     *)
(***************************************************************************)
EXTENDS Integers, Sequences, SequencesExt

CONSTANTS
  Prime,      \* the order of the groups
  SizeMax,    \* the largest size_t
  Memory      \* how many coefficients fit into memory

ASSUME PrimeAssumption ==
  Prime \in Nat \ {0, 1} /\ \A d \in 2 .. Prime - 1 : Prime % d # 0
ASSUME SizeAssumption == Memory \in Nat /\ SizeMax \in Nat /\ Memory < SizeMax

Fr == 0 .. Prime - 1

a ++ b == (a + b) % Prime
a -- b == (a - b) % Prime
a ** b == (a * b) % Prime
inverse(a)  == CHOOSE b \in Fr : a ** b = 1

\* The sum and the product of the values of a function with a finite domain.
Total(F)   == FoldFunction(LAMBDA x, y : x ++ y, 0, F)
Product(F) == FoldFunction(LAMBDA x, y : x ** y, 1, F)

-----------------------------------------------------------------------------
\* Coefficients, the constant one first.
Polynomials(degree) == [1 .. degree + 1 -> Fr]

get_secret(poly) == poly[1]

\* Horner's rule.
evaluate(poly, point) ==
  FoldRight(LAMBDA coeff, rest : (rest ** point) ++ coeff, poly, 0)

\* The value at 0 of the polynomial of that degree through the first degree + 1
\* of the evaluations.
lagrange_interpolation(degree, evals, points) ==
  LET Used == 1 .. degree + 1
      weight(j) == Product([m \in Used \ {j} |->
                              points[m] ** inverse(points[m] -- points[j])])
  IN  Total([j \in Used |-> weight(j) ** evals[j]])

\* The overload without points takes the evaluations to be at 1, 2, ...
AtIndexes(n) == [i \in 1 .. n |-> i]

-----------------------------------------------------------------------------
\* The degree of the random polynomial that ensure_degree draws, in size_t.
DualDegree(num, degree) == (num - degree - 2) % (SizeMax + 1)

\* Random(degree) pushes degree + 1 coefficients.
RandomFits(degree) == degree < Memory

Duals(num, degree) == Polynomials(DualDegree(num, degree))

\* Mutant: the last evaluation is left out.
ensure_degree_but_last(evals, degree, dual) ==
  LET num == Len(evals)
      cperp(i) == evaluate(dual, i)
                    ** Product([j \in (1 .. num) \ {i} |-> inverse(i -- j)])
  IN  /\ num >= degree
      /\ Total([i \in 1 .. num - 1 |-> cperp(i) ** evals[i]]) = 0

\* The inner product of the evaluations with a random word of the dual code.
ensure_degree(evals, degree, dual) ==
  LET num == Len(evals)
      cperp(i) == evaluate(dual, i)
                    ** Product([j \in (1 .. num) \ {i} |-> inverse(i -- j)])
  IN  /\ num >= degree
      /\ Total([i \in 1 .. num |-> cperp(i) ** evals[i]]) = 0
=============================================================================
