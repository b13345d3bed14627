------------------------------ MODULE PvssProofs ------------------------------
(***************************************************************************)
(* Proofs about Pvss and PolyOps, for every number of replicas, every      *)
(* prime order, every hash, keys, polynomials and nonces.                  *)
(*                                                                         *)
(* Sums and polynomials have any number of terms, so that most of this is  *)
(* induction; it is done with sets of naturals, the least element of which *)
(* exists.  The way: sums do not depend on the order of their terms; two   *)
(* sums over points, that of the degree test and that of Lagrange's        *)
(* interpolation, behave alike when a function is multiplied with x - a;   *)
(* so both are right for the constant 1, then for x times what they are    *)
(* right for, then by Horner's rule for polynomials, then for sums of      *)
(* polynomials, which aggregates are.                                      *)
(***************************************************************************)
EXTENDS Pvss, WellFoundedInduction, FiniteSetTheorems, TLAPS

-----------------------------------------------------------------------------
(* Induction, from the least element of a set of naturals.                 *)

\* A set of naturals that is not empty has a least element.
LEMMA LeastElement ==
  ASSUME NEW S, S \subseteq Nat, S # {}
  PROVE  \E m \in S : \A n \in S : m <= n
<1> DEFINE R == {ss \in Nat \X Nat : ss[1] < ss[2]}
<1>1. IsWellFoundedOn(R, Nat)
  BY NatLessThanWellFounded DEF OpToRel
<1>2. PICK x \in S : \A y \in S : ~ (<<y, x>> \in R)
  <2> HIDE DEF R
  <2> QED BY <1>1, WFMin
<1>3. ASSUME NEW n \in S PROVE x <= n
  <2>1. <<n, x>> \in Nat \X Nat
    OBVIOUS
  <2>2. ~ (<<n, x>>[1] < <<n, x>>[2])
    BY <1>2, <2>1
  <2>3. QED
    BY <2>2
<1>4. QED
  BY <1>3

\* Induction: a set that contains 0, and with a number the next one, contains
\* all numbers.
LEMMA NatSetInduction ==
  ASSUME NEW S, 0 \in S, \A n \in Nat : n \in S => n + 1 \in S
  PROVE  \A n \in Nat : n \in S
<1> DEFINE T == {n \in Nat : n \notin S}
<1>1. SUFFICES ASSUME T # {} PROVE FALSE
  OBVIOUS
<1>2. PICK m \in T : \A n \in T : m <= n
  BY <1>1, LeastElement
<1>3. m # 0 /\ m - 1 \in Nat /\ m - 1 \in S
  BY <1>2
<1>4. QED
  BY <1>2, <1>3

\* A finite set has one element less when one is taken out.
LEMMA CardinalityRemove ==
  ASSUME NEW T, IsFiniteSet(T), NEW x \in T
  PROVE  /\ IsFiniteSet(T \ {x})
         /\ Cardinality(T \ {x}) \in Nat
         /\ Cardinality(T) \in Nat
         /\ Cardinality(T) = Cardinality(T \ {x}) + 1
<1>1. IsFiniteSet(T \ {x}) /\ Cardinality(T \ {x}) = Cardinality(T) - 1
  BY FS_RemoveElement
<1>2. Cardinality(T) \in Nat /\ Cardinality(T \ {x}) \in Nat
  BY <1>1, FS_CardinalityType
<1>3. QED
  BY <1>1, <1>2

\* Induction over the subsets of a finite set: a set Q of them that contains
\* the empty one, and with each subset those of one element more, contains all
\* of them.
LEMMA FiniteSetInduction ==
  ASSUME NEW S, IsFiniteSet(S), NEW Q, {} \in Q,
         \A T \in SUBSET S : \A x \in S \ T : T \in Q => T \cup {x} \in Q
  PROVE  \A T \in SUBSET S : T \in Q
<1> DEFINE K == {n \in Nat : \A T \in SUBSET S : Cardinality(T) = n => T \in Q}
<1>1. \A T \in SUBSET S : IsFiniteSet(T) /\ Cardinality(T) \in Nat
  BY FS_Subset, FS_CardinalityType
<1>2. 0 \in K
  BY <1>1, FS_EmptySet
<1>3. ASSUME NEW n \in Nat, n \in K PROVE n + 1 \in K
  <2>1. SUFFICES ASSUME NEW T \in SUBSET S, Cardinality(T) = n + 1 PROVE T \in Q
    OBVIOUS
  <2>2. PICK x \in T : TRUE
    BY <2>1, FS_EmptySet
  <2>3. Cardinality(T \ {x}) = n
    BY <1>1, <2>1, <2>2, CardinalityRemove
  <2>4. T \ {x} \in Q
    BY <1>3, <2>3
  <2>5. (T \ {x}) \cup {x} \in Q
    BY <2>4
  <2>6. (T \ {x}) \cup {x} = T
    OBVIOUS
  <2>7. QED
    BY <2>5, <2>6
<1>4. \A n \in Nat : n \in K
  <2> HIDE DEF K
  <2> QED BY <1>2, <1>3, NatSetInduction
<1>5. QED
  BY <1>1, <1>4

\* g folds H over the subsets in U, taking the element that c chooses first.
Obeys(g, U, c, H, e) ==
  \A T \in U : g[T] = IF T = {} THEN e ELSE H[c[T], g[T \ {c[T]}]]

\* c picks an element of each subset of S.
Chooser(c, S) == \A T \in SUBSET S : T # {} => c[T] \in T

\* A fold over a finite set exists, whatever is folded and in whichever order:
\* the recursion that the folds of the community modules define has a
\* solution.
LEMMA FoldExists ==
  ASSUME NEW S, IsFiniteSet(S), NEW V, NEW e \in V, NEW H \in [S \X V -> V],
         NEW c, Chooser(c, S)
  PROVE  \E g \in [SUBSET S -> V] : Obeys(g, SUBSET S, c, H, e)
<1> DEFINE Small(n) == {T \in SUBSET S : Cardinality(T) <= n}
           K == {n \in Nat : \E g \in [Small(n) -> V] : Obeys(g, Small(n), c, H, e)}
<1>1. \A T \in SUBSET S : IsFiniteSet(T) /\ Cardinality(T) \in Nat
                          /\ Cardinality(T) <= Cardinality(S)
  BY FS_Subset, FS_CardinalityType
<1>2. 0 \in K
  <2>1. Small(0) = {{}}
    BY <1>1, FS_EmptySet
  <2>2. [T \in Small(0) |-> e] \in [Small(0) -> V] 
         /\ Obeys([T \in Small(0) |-> e], Small(0), c, H, e)
    BY <2>1 DEF Obeys
  <2>3. QED
    BY <2>2
<1>3. ASSUME NEW n \in Nat, n \in K PROVE n + 1 \in K
  <2>1. PICK g \in [Small(n) -> V] : Obeys(g, Small(n), c, H, e)
    BY <1>3
  <2> DEFINE next == [T \in Small(n + 1) |-> IF T = {} THEN e ELSE H[c[T], g[T \ {c[T]}]]]
  <2>2. \A T \in Small(n + 1) : T # {} => c[T] \in T /\ c[T] \in S /\ T \ {c[T]} \in Small(n)
    <3>1. SUFFICES ASSUME NEW T \in Small(n + 1), T # {}
                   PROVE  c[T] \in T /\ c[T] \in S /\ T \ {c[T]} \in Small(n)
      OBVIOUS
    <3>2. c[T] \in T
      BY <3>1 DEF Chooser
    <3>3. Cardinality(T \ {c[T]}) = Cardinality(T) - 1
      BY <1>1, <3>2, CardinalityRemove
    <3>4. QED
      BY <1>1, <3>2, <3>3
  <2>3. next \in [Small(n + 1) -> V]
    BY <2>2
  <2>4. \A T \in Small(n) : T \in Small(n + 1) /\ next[T] = g[T]
    <3>1. SUFFICES ASSUME NEW T \in Small(n) PROVE T \in Small(n + 1) /\ next[T] = g[T]
      OBVIOUS
    <3>2. T \in Small(n + 1)
      BY <1>1
    <3>3. g[T] = IF T = {} THEN e ELSE H[c[T], g[T \ {c[T]}]]
      BY <2>1 DEF Obeys
    <3>4. QED
      BY <3>2, <3>3
  <2>5. Obeys(next, Small(n + 1), c, H, e)
    BY <2>2, <2>4 DEF Obeys
  <2>6. QED
    <3> HIDE DEF next, Small
    <3> QED BY <2>3, <2>5
<1>4. Cardinality(S) \in K
  <2>1. \A n \in Nat : n \in K
    <3> HIDE DEF K
    <3> QED BY <1>2, <1>3, NatSetInduction
  <2>2. QED
    BY <1>1, <2>1
<1>5. Small(Cardinality(S)) = SUBSET S
  BY <1>1
<1>6. QED
  BY <1>4, <1>5

\* Induction in the order in which a fold takes the elements.
LEMMA ChooserInduction ==
  ASSUME NEW S, IsFiniteSet(S), NEW c, Chooser(c, S), NEW Q, {} \in Q,
         \A T \in SUBSET S : T # {} /\ T \ {c[T]} \in Q => T \in Q
  PROVE  \A T \in SUBSET S : T \in Q
<1> DEFINE K == {n \in Nat : \A T \in SUBSET S : Cardinality(T) = n => T \in Q}
<1>1. \A T \in SUBSET S : IsFiniteSet(T) /\ Cardinality(T) \in Nat
  BY FS_Subset, FS_CardinalityType
<1>2. 0 \in K
  BY <1>1, FS_EmptySet
<1>3. ASSUME NEW n \in Nat, n \in K PROVE n + 1 \in K
  <2>1. SUFFICES ASSUME NEW T \in SUBSET S, Cardinality(T) = n + 1 PROVE T \in Q
    OBVIOUS
  <2>2. T # {} /\ c[T] \in T
    BY <2>1, FS_EmptySet DEF Chooser
  <2>3. Cardinality(T \ {c[T]}) = n
    BY <1>1, <2>1, <2>2, CardinalityRemove
  <2>4. T \ {c[T]} \in Q
    BY <1>3, <2>3
  <2>5. QED
    BY <2>2, <2>4
<1>4. \A n \in Nat : n \in K
  <2> HIDE DEF K
  <2> QED BY <1>2, <1>3, NatSetInduction
<1>5. QED
  BY <1>1, <1>4

\* h is a commutative and associative operation on V.
Monoid(h, e, V) ==
  /\ h \in [V \X V -> V]
  /\ e \in V
  /\ \A x, y \in V : h[x, y] = h[y, x]
  /\ \A x, y, z \in V : h[x, h[y, z]] = h[h[x, y], z]

\* g[T] combines the values of F on T, whichever element is taken first.
Folded(g, S, h, e, F) ==
  /\ g[{}] = e
  /\ \A T \in SUBSET S : \A a \in T : g[T] = h[F[a], g[T \ {a}]]

\* The fold of a commutative and associative operation does not depend on the
\* order: it is the combination of any one element with the fold of the
\* others.
LEMMA MonoidFold ==
  ASSUME NEW S, IsFiniteSet(S), NEW V, NEW h, NEW e, Monoid(h, e, V), NEW F \in [S -> V]
  PROVE  \E g \in [SUBSET S -> V] : Folded(g, S, h, e, F)
<1> DEFINE c == [T \in SUBSET S |-> CHOOSE t \in T : TRUE]
           H == [iv \in S \X V |-> h[F[iv[1]], iv[2]]]
<1>0. Chooser(c, S)
  BY DEF Chooser
<1> HIDE DEF c
<1>1. H \in [S \X V -> V]
  BY DEF Monoid
<1>2. \A i \in S : \A v \in V : H[i, v] = h[F[i], v]
  OBVIOUS
<1>3. PICK g \in [SUBSET S -> V] : Obeys(g, SUBSET S, c, H, e)
  <2> HIDE DEF H
  <2> QED BY <1>0, <1>1, FoldExists DEF Monoid
<1> DEFINE AnyFirst(T) == \A a \in T : g[T] = h[F[a], g[T \ {a}]]
           K == {n \in Nat : \A T \in SUBSET S : Cardinality(T) = n => AnyFirst(T)}
<1>4. \A T \in SUBSET S : IsFiniteSet(T) /\ Cardinality(T) \in Nat
  BY FS_Subset, FS_CardinalityType
<1>5. 0 \in K
  BY <1>4, FS_EmptySet
<1>6. ASSUME NEW n \in Nat, n \in K PROVE n + 1 \in K
  <2> HIDE DEF AnyFirst
  <2>0. SUFFICES ASSUME NEW T \in SUBSET S, Cardinality(T) = n + 1
                 PROVE  AnyFirst(T)
    OBVIOUS
  <2>1. SUFFICES ASSUME NEW a \in T
                 PROVE  g[T] = h[F[a], g[T \ {a}]]
    BY DEF AnyFirst
  <2> DEFINE m == c[T]
  <2>2. m \in T /\ m \in S /\ a \in S /\ T # {}
    BY <1>0, <2>1 DEF Chooser
  <2>3. g[T] = h[F[m], g[T \ {m}]]
    BY <1>2, <1>3, <2>2 DEF Obeys
  <2>4. CASE a = m
    BY <2>3, <2>4
  <2>5. CASE a # m
    <3> HIDE DEF m
    <3>1. Cardinality(T \ {m}) = n /\ Cardinality(T \ {a}) = n
      BY <1>4, <2>0, <2>2, CardinalityRemove
    <3>2. g[T \ {m}] = h[F[a], g[(T \ {m}) \ {a}]]
      BY <1>6, <2>2, <2>5, <3>1 DEF AnyFirst
    <3>3. g[T \ {a}] = h[F[m], g[(T \ {a}) \ {m}]]
      BY <1>6, <2>2, <2>5, <3>1 DEF AnyFirst
    <3>4. (T \ {a}) \ {m} = (T \ {m}) \ {a}
      OBVIOUS
    <3> DEFINE x == F[m]
               y == F[a]
               z == g[(T \ {m}) \ {a}]
    <3>5. x \in V /\ y \in V /\ z \in V
      BY <2>2
    <3>6. h[x, h[y, z]] = h[y, h[x, z]]
      <4> HIDE DEF x, y, z
      <4>1. h[x, h[y, z]] = h[h[x, y], z] /\ h[y, h[x, z]] = h[h[y, x], z]
        BY <3>5 DEF Monoid
      <4>2. h[x, y] = h[y, x]
        BY <3>5 DEF Monoid
      <4>3. QED
        BY <4>1, <4>2
    <3>7. QED
      BY <2>3, <3>2, <3>3, <3>4, <3>6
  <2>6. QED
    BY <2>4, <2>5
<1>7. \A n \in Nat : n \in K
  <2> HIDE DEF K
  <2> QED BY <1>5, <1>6, NatSetInduction
<1>8. \A T \in SUBSET S : \A a \in T : g[T] = h[F[a], g[T \ {a}]]
  BY <1>4, <1>7
<1>9. g[{}] = e
  BY <1>3 DEF Obeys
<1>10. QED
  BY <1>3, <1>8, <1>9 DEF Folded

-----------------------------------------------------------------------------
(* The field of Prime elements.                                            *)

\* An integer has a quotient and a remainder by Prime.
LEMMA DivisionExists ==
  ASSUME NEW a \in Int
  PROVE  /\ a % Prime \in Fr
         /\ a \div Prime \in Int
         /\ a = (a \div Prime) * Prime + (a % Prime)
BY PrimeAssumption DEF Fr

\* A number with a quotient and a remainder has that remainder.
LEMMA DivisionUnique ==
  ASSUME NEW a \in Int, NEW q \in Int, NEW r \in Fr, a = q * Prime + r
  PROVE  a % Prime = r
<1> DEFINE q2 == a \div Prime
           r2 == a % Prime
<1>1. q2 \in Int /\ r2 \in Fr /\ a = q2 * Prime + r2
  BY DivisionExists
<1>2. Prime \in Nat /\ Prime > 0 /\ r \in Int /\ r2 \in Int /\ 0 <= r /\ r < Prime /\ 0 <= r2 /\ r2 < Prime
  BY <1>1, PrimeAssumption DEF Fr
<1>3. (q - q2) * Prime = r2 - r
  <2> HIDE DEF q2, r2
  <2> QED BY <1>1, <1>2
<1>4. q - q2 \in Int
  BY <1>1
<1>5. CASE q - q2 >= 1
  <2>1. (q - q2) * Prime >= Prime
    <3> HIDE DEF q2, r2
    <3> QED BY <1>1, <1>2, <1>5
  <2>2. QED
    BY <2>1, <1>2, <1>3
<1>6. CASE q - q2 <= -1
  <2>1. (q - q2) * Prime <= -Prime
    <3> HIDE DEF q2, r2
    <3> QED BY <1>1, <1>2, <1>6
  <2>2. QED
    BY <2>1, <1>2, <1>3
<1>7. CASE q - q2 = 0
  BY <1>1, <1>2, <1>3, <1>7
<1>8. QED
  BY <1>4, <1>5, <1>6, <1>7

\* Multiples of Prime do not change the remainder.
LEMMA ModShift ==
  ASSUME NEW a \in Int, NEW b \in Int, NEW q \in Int, a = b + q * Prime
  PROVE  a % Prime = b % Prime
<1> DEFINE k == b \div Prime
<1>1. b % Prime \in Fr /\ k \in Int /\ b = k * Prime + (b % Prime)
  BY DivisionExists
<1>2. Prime \in Nat /\ b % Prime \in Int
  BY <1>1, PrimeAssumption DEF Fr
<1>3. a = (k + q) * Prime + (b % Prime)
  <2> HIDE DEF k
  <2> QED BY <1>1, <1>2
<1>4. k + q \in Int
  BY <1>1
<1>5. QED
  BY <1>1, <1>3, <1>4, DivisionUnique

\* The field has Prime elements, naturals, of which 0 and 1 are two.
LEMMA FieldNumbers ==
  /\ Fr \subseteq Nat /\ Prime \in Nat /\ Prime > 1 /\ IsFiniteSet(Fr) /\ 0 \in Fr /\ 1 \in Fr
  /\ Cardinality(Fr) = Prime
BY PrimeAssumption, FS_Interval DEF Fr

\* The remainder of a sum may be taken of a summand first.
LEMMA ModAdd ==
  ASSUME NEW a \in Int, NEW b \in Int
  PROVE  ((a % Prime) + b) % Prime = (a + b) % Prime
<1> DEFINE k == a \div Prime
           r == a % Prime
<1>1. r \in Fr /\ k \in Int /\ a = k * Prime + r
  BY DivisionExists
<1>2. Prime \in Int /\ r \in Int
  BY <1>1, FieldNumbers
<1>3. a + b = (r + b) + k * Prime
  <2> HIDE DEF k, r
  <2> QED BY <1>1, <1>2
<1>4. a + b \in Int /\ r + b \in Int
  BY <1>2
<1> HIDE DEF k, r
<1>5. (a + b) % Prime = (r + b) % Prime
  BY <1>1, <1>3, <1>4, ModShift
<1>6. QED
  BY <1>5 DEF r

\* The remainder of a product may be taken of a factor first.
LEMMA ModMul ==
  ASSUME NEW a \in Int, NEW b \in Int
  PROVE  ((a % Prime) * b) % Prime = (a * b) % Prime
<1> DEFINE k == a \div Prime
           r == a % Prime
<1>1. r \in Fr /\ k \in Int /\ a = k * Prime + r
  BY DivisionExists
<1>2. Prime \in Int /\ r \in Int
  BY <1>1, FieldNumbers
<1>3. a * b = r * b + (k * b) * Prime
  <2> HIDE DEF k, r
  <2>1. a * b = (k * Prime + r) * b
    BY <1>1
  <2>2. (k * Prime + r) * b = r * b + (k * b) * Prime
    BY <1>1, <1>2
  <2> QED BY <2>1, <2>2
<1>4. k * b \in Int /\ r * b \in Int /\ a * b \in Int
  BY <1>1, <1>2
<1> HIDE DEF k, r
<1>5. (a * b) % Prime = (r * b) % Prime
  BY <1>3, <1>4, ModShift
<1>6. QED
  BY <1>5 DEF r

\* Sums, differences and products of elements of the field are in the field.
LEMMA FieldClosed ==
  ASSUME NEW a \in Fr, NEW b \in Fr
  PROVE  a ++ b \in Fr /\ a -- b \in Fr /\ a ** b \in Fr
<1>1. a \in Int /\ b \in Int
  BY FieldNumbers
<1>2. QED
  BY <1>1, DivisionExists DEF ++, --, **

\* Addition in the field (PolyOps.hpp adds and multiplies in it and in its
\* groups).
LEMMA SumLaws ==
  ASSUME NEW a \in Fr, NEW b \in Fr, NEW c \in Fr
  PROVE  /\ a ++ b = b ++ a
         /\ a ++ (b ++ c) = (a ++ b) ++ c
         /\ a ++ 0 = a
         /\ 0 ++ a = a
<1>1. a \in Int /\ b \in Int /\ c \in Int /\ a + b \in Int /\ b + c \in Int
  BY FieldNumbers
<1>2. a ++ b = b ++ a
  BY <1>1 DEF ++
<1>3. a ++ 0 = a /\ 0 ++ a = a
  <2>1. a % Prime = a
    BY <1>1, DivisionUnique, FieldNumbers
  <2>2. a + 0 = a /\ 0 + a = a
    BY <1>1
  <2>3. QED
    BY <2>1, <2>2 DEF ++
<1>4. a ++ (b ++ c) = (a ++ b) ++ c
  <2>1. (((b + c) % Prime) + a) % Prime = ((b + c) + a) % Prime
    BY <1>1, ModAdd
  <2>2. (((a + b) % Prime) + c) % Prime = ((a + b) + c) % Prime
    BY <1>1, ModAdd
  <2>3. (b + c) + a = (a + b) + c
    BY <1>1
  <2>4. (b + c) % Prime \in Int
    BY <1>1, DivisionExists, FieldNumbers
  <2>5. ((b + c) % Prime) + a = a + ((b + c) % Prime)
    BY <1>1, <2>4
  <2>6. QED
    BY <2>1, <2>2, <2>3, <2>5 DEF ++
<1>5. QED
  BY <1>2, <1>3, <1>4

\* Multiplication in the field.
LEMMA ProductLaws ==
  ASSUME NEW a \in Fr, NEW b \in Fr, NEW c \in Fr
  PROVE  /\ a ** b = b ** a
         /\ a ** (b ** c) = (a ** b) ** c
         /\ a ** 1 = a
         /\ 1 ** a = a
         /\ a ** 0 = 0
         /\ 0 ** a = 0
<1>1. a \in Int /\ b \in Int /\ c \in Int /\ a * b \in Int /\ b * c \in Int
  BY FieldNumbers
<1>2. a ** b = b ** a
  BY <1>1 DEF **
<1>3. a ** 1 = a /\ 1 ** a = a
  <2>1. a % Prime = a
    BY <1>1, DivisionUnique, FieldNumbers
  <2>2. a * 1 = a /\ 1 * a = a
    BY <1>1
  <2>3. QED
    BY <2>1, <2>2 DEF **
<1>4. a ** 0 = 0 /\ 0 ** a = 0
  <2>1. 0 % Prime = 0
    BY DivisionUnique, FieldNumbers
  <2>2. a * 0 = 0 /\ 0 * a = 0
    BY <1>1
  <2>3. QED
    BY <2>1, <2>2 DEF **
<1>5. a ** (b ** c) = (a ** b) ** c
  <2>1. (((b * c) % Prime) * a) % Prime = ((b * c) * a) % Prime
    BY <1>1, ModMul
  <2>2. (((a * b) % Prime) * c) % Prime = ((a * b) * c) % Prime
    BY <1>1, ModMul
  <2>3. (b * c) * a = (a * b) * c
    BY <1>1
  <2>4. (b * c) % Prime \in Int
    BY <1>1, DivisionExists, FieldNumbers
  <2>5. ((b * c) % Prime) * a = a * ((b * c) % Prime)
    BY <1>1, <2>4
  <2>6. QED
    BY <2>1, <2>2, <2>3, <2>5 DEF **
<1>6. QED
  BY <1>2, <1>3, <1>4, <1>5

\* The field is distributive: a group element to a sum of exponents is a
\* product.
LEMMA Distributivity ==
  ASSUME NEW a \in Fr, NEW b \in Fr, NEW c \in Fr
  PROVE  /\ a ** (b ++ c) = (a ** b) ++ (a ** c)
         /\ (b ++ c) ** a = (b ** a) ++ (c ** a)
<1>1. a \in Int /\ b \in Int /\ c \in Int /\ a * b \in Int /\ a * c \in Int /\ b + c \in Int
  BY FieldNumbers
<1>2. (b ++ c) ** a = (b * a + c * a) % Prime
  <2>1. (((b + c) % Prime) * a) % Prime = ((b + c) * a) % Prime
    BY <1>1, ModMul
  <2>2. (b + c) * a = b * a + c * a
    BY <1>1
  <2>3. QED
    BY <2>1, <2>2 DEF ++, **
<1>3. (b ** a) ++ (c ** a) = (b * a + c * a) % Prime
  <2> DEFINE x == b * a
             y == c * a
  <2>1. x \in Int /\ y \in Int /\ y % Prime \in Int
    BY <1>1, DivisionExists, FieldNumbers
  <2> HIDE DEF x, y
  <2>2. ((x % Prime) + (y % Prime)) % Prime = (x + (y % Prime)) % Prime
    BY <2>1, ModAdd
  <2>3. x + (y % Prime) = (y % Prime) + x
    BY <2>1
  <2>4. ((y % Prime) + x) % Prime = (y + x) % Prime
    BY <2>1, ModAdd
  <2>5. y + x = x + y
    BY <2>1
  <2>6. ((x % Prime) + (y % Prime)) % Prime = (x + y) % Prime
    BY <2>2, <2>3, <2>4, <2>5
  <2>7. QED
    BY <2>6 DEF ++, **, x, y
<1>4. a ** (b ++ c) = (b ++ c) ** a /\ a ** b = b ** a /\ a ** c = c ** a
  BY ProductLaws, FieldClosed
<1>5. QED
  BY <1>2, <1>3, <1>4

\* Differences undo sums.
LEMMA Differences ==
  ASSUME NEW a \in Fr, NEW b \in Fr
  PROVE  /\ (a -- b) ++ b = a
         /\ (a -- b = 0) <=> (a = b)
         /\ a -- b = a ++ (0 -- b)
         /\ (a ++ b) -- b = a
<1>1. a \in Int /\ b \in Int /\ a - b \in Int /\ 0 - b \in Int /\ (0 - b) % Prime \in Int /\ a + b \in Int
  BY FieldNumbers, DivisionExists
<1>2. a % Prime = a
  BY <1>1, DivisionUnique, FieldNumbers
<1>3. (a -- b) ++ b = a
  <2>1. (((a - b) % Prime) + b) % Prime = ((a - b) + b) % Prime
    BY <1>1, ModAdd
  <2>2. (a - b) + b = a
    BY <1>1
  <2>3. QED
    BY <1>2, <2>1, <2>2 DEF ++, --
<1>4. a -- b = a ++ (0 -- b)
  <2>1. (((0 - b) % Prime) + a) % Prime = ((0 - b) + a) % Prime
    BY <1>1, ModAdd
  <2>2. (0 - b) + a = a - b /\ ((0 - b) % Prime) + a = a + ((0 - b) % Prime)
    BY <1>1
  <2>3. QED
    BY <2>1, <2>2 DEF ++, --
<1>5. (a -- b = 0) <=> (a = b)
  <2>1. ASSUME a -- b = 0 PROVE a = b
    BY <1>3, <2>1, SumLaws
  <2>2. ASSUME a = b PROVE a -- b = 0
    <3>1. a - b = 0 /\ 0 % Prime = 0
      BY <1>1, <2>2, DivisionUnique, FieldNumbers
    <3>2. QED
      BY <3>1 DEF --
  <2>3. QED
    BY <2>1, <2>2
<1>6. (a ++ b) -- b = a
  <2>1. (((a + b) % Prime) + (0 - b)) % Prime = ((a + b) + (0 - b)) % Prime
    BY <1>1, ModAdd
  <2>2. (a + b) % Prime \in Int
    BY <1>1, DivisionExists, FieldNumbers
  <2>3. (a + b) + (0 - b) = a /\ ((a + b) % Prime) + (0 - b) = ((a + b) % Prime) - b
    BY <1>1, <2>2
  <2>4. QED
    BY <1>2, <2>1, <2>3 DEF ++, --
<1>7. QED
  BY <1>3, <1>4, <1>5, <1>6

\* A summand may be cancelled.
LEMMA Cancellation ==
  ASSUME NEW a \in Fr, NEW b \in Fr, NEW c \in Fr, a ++ b = a ++ c
  PROVE  b = c
<1>1. (b ++ a) -- a = b /\ (c ++ a) -- a = c
  BY Differences
<1>2. b ++ a = a ++ b /\ c ++ a = a ++ c
  BY SumLaws
<1>3. QED
  BY <1>1, <1>2

\* A summand is the difference of the sum and the other one.
LEMMA DifferenceUnique ==
  ASSUME NEW a \in Fr, NEW b \in Fr, NEW c \in Fr, a ++ b = c
  PROVE  a = c -- b
BY Differences

\* Because Prime is prime, an element that is not 0 has an inverse: the least
\* positive multiple of it modulo Prime divides Prime.
LEMMA InverseExists ==
  ASSUME NEW a \in Fr, a # 0
  PROVE  \E b \in Fr : a ** b = 1
<1> DEFINE M == {m \in Nat \ {0} : \E b \in Int : m = (a * b) % Prime}
<1>1. a \in Int /\ 0 < a /\ a < Prime /\ Prime \in Int
  BY FieldNumbers DEF Fr
<1>2. a \in M
  <2>1. a * 1 = a /\ a % Prime = a
    BY <1>1, DivisionUnique, FieldNumbers
  <2>2. QED
    BY <1>1, <2>1
<1>3. PICK m \in M : \A n \in M : m <= n
  <2>1. M \subseteq Nat /\ M # {}
    BY <1>2
  <2> HIDE DEF M
  <2>2. QED
    BY <2>1, LeastElement
<1>4. m \in Nat /\ m # 0 /\ m <= a /\ m \in Int /\ m < Prime
  <2>1. m \in Nat /\ m # 0
    OBVIOUS
  <2>2. m <= a
    <3> HIDE DEF M
    <3> QED BY <1>2, <1>3
  <2>3. QED
    BY <1>1, <2>1, <2>2
<1>5. PICK b \in Int : m = (a * b) % Prime
  BY <1>3
<1>6. CASE m = 1
  <2>1. (b * a) % Prime = 1 /\ b % Prime \in Int /\ b % Prime \in Fr
    BY <1>1, <1>5, <1>6, DivisionExists, FieldNumbers
  <2>2. ((b % Prime) * a) % Prime = (b * a) % Prime
    BY <1>1, ModMul
  <2>3. (b % Prime) * a = a * (b % Prime)
    BY <1>1, <2>1
  <2>4. a ** (b % Prime) = 1
    BY <2>1, <2>2, <2>3 DEF **
  <2>5. QED
    BY <2>1, <2>4
<1>7. CASE m > 1
  <2>1. m \in 2 .. Prime - 1
    BY <1>1, <1>4, <1>7
  <2> DEFINE r == Prime % m
             q == Prime \div m
             k == (a * b) \div Prime
  <2>2. r # 0
    BY <2>1, PrimeAssumption
  <2>3. q \in Int /\ r \in Int /\ 0 <= r /\ r < m /\ Prime = q * m + r
    BY <1>1, <1>4, <1>7
  <2>4. a * b \in Int /\ k \in Int /\ a * b = k * Prime + m
    <3>1. a * b \in Int
      BY <1>1
    <3>2. QED
      BY <3>1, <1>5, DivisionExists
  <2> HIDE DEF r, q, k
  <2>6. a * ((0 - q) * b) = (0 - (q * k) - 1) * Prime + r
    <3>1. a * ((0 - q) * b) = (0 - q) * (a * b)
      BY <1>1, <2>3
    <3>2. (0 - q) * (a * b) = (0 - q) * (k * Prime + m)
      BY <2>4
    <3>3. (0 - q) * (k * Prime + m) = (0 - (q * k)) * Prime - q * m
      BY <1>1, <1>4, <2>3, <2>4
    <3>4. q * m = Prime - r
      BY <1>1, <1>4, <2>3
    <3>5. (0 - (q * k)) * Prime - (Prime - r) = (0 - (q * k) - 1) * Prime + r
      BY <1>1, <2>3, <2>4
    <3>6. QED
      BY <3>1, <3>2, <3>3, <3>4, <3>5
  <2>7. (a * ((0 - q) * b)) % Prime = r
    <3>1. r \in Fr
      BY <1>1, <1>4, <2>3 DEF Fr
    <3>2. a * ((0 - q) * b) \in Int /\ 0 - (q * k) - 1 \in Int
      BY <1>1, <2>3, <2>4
    <3>3. QED
      BY <3>1, <3>2, <2>6, DivisionUnique
  <2>8. r \in M
    <3>1. r \in Nat \ {0} /\ (0 - q) * b \in Int
      BY <2>2, <2>3
    <3>2. QED
      BY <3>1, <2>7
  <2>9. QED
    BY <1>3, <1>4, <2>3, <2>8
<1>8. QED
  BY <1>4, <1>6, <1>7

\* What inverse() returns for an element that is not 0.
LEMMA Inverses ==
  ASSUME NEW a \in Fr, a # 0
  PROVE  inverse(a) \in Fr /\ a ** inverse(a) = 1 /\ inverse(a) ** a = 1 /\ inverse(a) # 0
<1>1. inverse(a) \in Fr /\ a ** inverse(a) = 1
  BY InverseExists DEF inverse
<1>2. inverse(a) ** a = 1
  BY <1>1, ProductLaws
<1>3. inverse(a) # 0
  BY <1>1, ProductLaws
<1>4. QED
  BY <1>1, <1>2, <1>3

\* A factor that is not 0 may be cancelled.
LEMMA ProductCancellation ==
  ASSUME NEW c \in Fr, c # 0, NEW a \in Fr, NEW b \in Fr, c ** a = c ** b
  PROVE  a = b
<1>1. inverse(c) \in Fr /\ inverse(c) ** c = 1
  BY Inverses
<1>2. inverse(c) ** (c ** a) = a /\ inverse(c) ** (c ** b) = b
  BY <1>1, ProductLaws
<1>3. QED
  BY <1>2

\* A product is 0 only if a factor is.
LEMMA NoZeroDivisors ==
  ASSUME NEW a \in Fr, NEW b \in Fr, a # 0, b # 0
  PROVE  a ** b # 0
<1>1. a ** 0 = 0
  BY ProductLaws
<1>2. QED
  BY <1>1, ProductCancellation, FieldNumbers

-----------------------------------------------------------------------------
(* Sums and products over finite sets.                                     *)

\* Addition and multiplication as functions, for the folds.
plus == [xy \in Fr \X Fr |-> xy[1] ++ xy[2]]
times == [xy \in Fr \X Fr |-> xy[1] ** xy[2]]

\* The sum and the product of the values of F on a part of its domain.
SumOn(F, T) == Total([x \in T |-> F[x]])
ProductOn(F, T) == Product([x \in T |-> F[x]])

\* g[T] is the sum of F on T, for each part T of its domain; and the product.
Totals(g, S, F) ==
  /\ Folded(g, S, plus, 0, F)
  /\ \A T \in SUBSET S : Total([x \in T |-> F[x]]) = g[T]

Products(g, S, F) ==
  /\ Folded(g, S, times, 1, F)
  /\ \A T \in SUBSET S : Product([x \in T |-> F[x]]) = g[T]

\* Both operations of the field can be folded in any order.
LEMMA FieldMonoids == Monoid(plus, 0, Fr) /\ Monoid(times, 1, Fr)
<1>1. plus \in [Fr \X Fr -> Fr] /\ times \in [Fr \X Fr -> Fr]
  BY FieldClosed DEF plus, times
<1>2. \A x, y \in Fr : plus[x, y] = x ++ y /\ times[x, y] = x ** y
  BY DEF plus, times
<1>3. ASSUME NEW x \in Fr, NEW y \in Fr, NEW z \in Fr
      PROVE  /\ plus[x, plus[y, z]] = plus[plus[x, y], z]
             /\ times[x, times[y, z]] = times[times[x, y], z]
  <2>1. y ++ z \in Fr /\ x ++ y \in Fr /\ y ** z \in Fr /\ x ** y \in Fr
    BY FieldClosed
  <2>2. plus[x, plus[y, z]] = x ++ (y ++ z) /\ plus[plus[x, y], z] = (x ++ y) ++ z
    BY <1>2, <2>1
  <2>3. times[x, times[y, z]] = x ** (y ** z) /\ times[times[x, y], z] = (x ** y) ** z
    BY <1>2, <2>1
  <2>4. x ++ (y ++ z) = (x ++ y) ++ z
    BY SumLaws
  <2>5. x ** (y ** z) = (x ** y) ** z
    BY ProductLaws
  <2>6. QED
    BY <2>2, <2>3, <2>4, <2>5
<1>4. ASSUME NEW x \in Fr, NEW y \in Fr
      PROVE  plus[x, y] = plus[y, x] /\ times[x, y] = times[y, x]
  <2>1. x ++ y = y ++ x
    BY SumLaws
  <2>2. x ** y = y ** x
    BY ProductLaws
  <2>3. QED
    BY <1>2, <2>1, <2>2
<1> HIDE DEF plus, times
<1>5. Monoid(plus, 0, Fr)
  <2>1. 0 \in Fr
    BY FieldNumbers
  <2>2. \A x, y \in Fr : plus[x, y] = plus[y, x]
    BY <1>4
  <2>3. \A x, y, z \in Fr : plus[x, plus[y, z]] = plus[plus[x, y], z]
    BY <1>3
  <2>4. QED
    BY <1>1, <2>1, <2>2, <2>3 DEF Monoid
<1>6. Monoid(times, 1, Fr)
  <2>1. 1 \in Fr
    BY FieldNumbers
  <2>2. \A x, y \in Fr : times[x, y] = times[y, x]
    BY <1>4
  <2>3. \A x, y, z \in Fr : times[x, times[y, z]] = times[times[x, y], z]
    BY <1>3
  <2>4. QED
    BY <1>1, <2>1, <2>2, <2>3 DEF Monoid
<1>7. QED
  BY <1>5, <1>6

\* Total, which is the fold of FoldFunction in the order of its CHOOSE, is the
\* fold in any order.
LEMMA TotalFold ==
  ASSUME NEW S, IsFiniteSet(S), NEW F \in [S -> Fr]
  PROVE  \E g \in [SUBSET S -> Fr] : Totals(g, S, F)
<1> DEFINE c == [T \in SUBSET S |-> CHOOSE t \in T : TRUE]
<1>1. Chooser(c, S)
  BY DEF Chooser
<1>2. PICK g \in [SUBSET S -> Fr] : Folded(g, S, plus, 0, F)
  BY MonoidFold, FieldMonoids
<1>3. ASSUME NEW T \in SUBSET S, T # {}
      PROVE  c[T] \in T /\ g[T] = F[c[T]] ++ g[T \ {c[T]}]
  <2>1. c[T] \in T
    BY <1>1, <1>3 DEF Chooser
  <2> HIDE DEF c
  <2>2. g[T] = plus[F[c[T]], g[T \ {c[T]}]]
    BY <1>2, <1>3, <2>1 DEF Folded
  <2>3. F[c[T]] \in Fr /\ g[T \ {c[T]}] \in Fr
    BY <2>1
  <2>4. QED
    BY <2>1, <2>2, <2>3 DEF plus
<1>4. ASSUME NEW T \in SUBSET S
      PROVE  Total([x \in T |-> F[x]]) = g[T]
  <2> DEFINE G == [x \in T |-> F[x]]
  <2>1. IsFiniteSet(T) /\ DOMAIN G = T
    BY FS_Subset
  <2>2. [s \in SUBSET T |-> g[s]] =
          [s \in SUBSET T |-> IF s = {} THEN 0
             ELSE G[CHOOSE t \in s : TRUE] ++ [r \in SUBSET T |-> g[r]][s \ {CHOOSE t \in s : TRUE}]]
    <3>1. SUFFICES ASSUME NEW s \in SUBSET T
                   PROVE  g[s] = IF s = {} THEN 0
                     ELSE G[CHOOSE t \in s : TRUE] ++ [r \in SUBSET T |-> g[r]][s \ {CHOOSE t \in s : TRUE}]
      OBVIOUS
    <3>2. CASE s = {}
      BY <1>2, <3>2 DEF Folded
    <3>3. CASE s # {}
      <4>1. c[s] = CHOOSE t \in s : TRUE
        OBVIOUS
      <4>2. c[s] \in s /\ g[s] = F[c[s]] ++ g[s \ {c[s]}]
        BY <1>3, <3>3
      <4> HIDE DEF c
      <4>3. G[c[s]] = F[c[s]] /\ [r \in SUBSET T |-> g[r]][s \ {c[s]}] = g[s \ {c[s]}]
        BY <4>2
      <4>4. QED
        BY <3>3, <4>1, <4>2, <4>3
    <3>4. QED
      BY <3>2, <3>3
  <2>3. PICK k :
          /\ k = [s \in SUBSET DOMAIN G |-> IF s = {} THEN 0
                     ELSE G[CHOOSE t \in s : TRUE] ++ k[s \ {CHOOSE t \in s : TRUE}]]
          /\ Total(G) = k[DOMAIN G]
    <3> HIDE DEF G
    <3>1. \E k0 : k0 = [s \in SUBSET DOMAIN G |-> IF s = {} THEN 0
                     ELSE G[CHOOSE t \in s : TRUE] ++ k0[s \ {CHOOSE t \in s : TRUE}]]
      BY <2>1, <2>2
    <3>2. QED
      BY <3>1 DEF Total, FoldFunction, FoldFunctionOnSet, MapThenFoldSet
  <2> DEFINE Q == {s \in SUBSET T : k[s] = g[s]}
  <2>4. {} \in Q
    BY <1>2, <2>1, <2>3 DEF Folded
  <2>5. ASSUME NEW s \in SUBSET T, s # {}, s \ {c[s]} \in Q
        PROVE  s \in Q
    <3>1. c[s] = CHOOSE t \in s : TRUE
      OBVIOUS
    <3>2. c[s] \in s /\ g[s] = F[c[s]] ++ g[s \ {c[s]}]
      BY <1>3, <2>5
    <3> HIDE DEF c
    <3>3. k[s] = G[c[s]] ++ k[s \ {c[s]}]
      BY <2>1, <2>3, <2>5, <3>1
    <3>4. QED
      BY <2>5, <3>2, <3>3
  <2>6. Chooser(c, T)
    BY <1>1 DEF Chooser
  <2>7. \A s \in SUBSET T : s \in Q
    <3> HIDE DEF Q, c
    <3> QED BY <2>1, <2>4, <2>5, <2>6, ChooserInduction
  <2>8. QED
    BY <2>1, <2>3, <2>7
<1>5. QED
  BY <1>2, <1>4 DEF Totals

\* Product is the fold in any order as well.
LEMMA ProductFold ==
  ASSUME NEW S, IsFiniteSet(S), NEW F \in [S -> Fr]
  PROVE  \E g \in [SUBSET S -> Fr] : Products(g, S, F)
<1> DEFINE c == [T \in SUBSET S |-> CHOOSE t \in T : TRUE]
<1>1. Chooser(c, S)
  BY DEF Chooser
<1>2. PICK g \in [SUBSET S -> Fr] : Folded(g, S, times, 1, F)
  BY MonoidFold, FieldMonoids
<1>3. ASSUME NEW T \in SUBSET S, T # {}
      PROVE  c[T] \in T /\ g[T] = F[c[T]] ** g[T \ {c[T]}]
  <2>1. c[T] \in T
    BY <1>1, <1>3 DEF Chooser
  <2> HIDE DEF c
  <2>2. g[T] = times[F[c[T]], g[T \ {c[T]}]]
    BY <1>2, <1>3, <2>1 DEF Folded
  <2>3. F[c[T]] \in Fr /\ g[T \ {c[T]}] \in Fr
    BY <2>1
  <2>4. QED
    BY <2>1, <2>2, <2>3 DEF times
<1>4. ASSUME NEW T \in SUBSET S
      PROVE  Product([x \in T |-> F[x]]) = g[T]
  <2> DEFINE G == [x \in T |-> F[x]]
  <2>1. IsFiniteSet(T) /\ DOMAIN G = T
    BY FS_Subset
  <2>2. [s \in SUBSET T |-> g[s]] =
          [s \in SUBSET T |-> IF s = {} THEN 1
             ELSE G[CHOOSE t \in s : TRUE] ** [r \in SUBSET T |-> g[r]][s \ {CHOOSE t \in s : TRUE}]]
    <3>1. SUFFICES ASSUME NEW s \in SUBSET T
                   PROVE  g[s] = IF s = {} THEN 1
                     ELSE G[CHOOSE t \in s : TRUE] ** [r \in SUBSET T |-> g[r]][s \ {CHOOSE t \in s : TRUE}]
      OBVIOUS
    <3>2. CASE s = {}
      BY <1>2, <3>2 DEF Folded
    <3>3. CASE s # {}
      <4>1. c[s] = CHOOSE t \in s : TRUE
        OBVIOUS
      <4>2. c[s] \in s /\ g[s] = F[c[s]] ** g[s \ {c[s]}]
        BY <1>3, <3>3
      <4> HIDE DEF c
      <4>3. G[c[s]] = F[c[s]] /\ [r \in SUBSET T |-> g[r]][s \ {c[s]}] = g[s \ {c[s]}]
        BY <4>2
      <4>4. QED
        BY <3>3, <4>1, <4>2, <4>3
    <3>4. QED
      BY <3>2, <3>3
  <2>3. PICK k :
          /\ k = [s \in SUBSET DOMAIN G |-> IF s = {} THEN 1
                     ELSE G[CHOOSE t \in s : TRUE] ** k[s \ {CHOOSE t \in s : TRUE}]]
          /\ Product(G) = k[DOMAIN G]
    <3> HIDE DEF G
    <3>1. \E k0 : k0 = [s \in SUBSET DOMAIN G |-> IF s = {} THEN 1
                     ELSE G[CHOOSE t \in s : TRUE] ** k0[s \ {CHOOSE t \in s : TRUE}]]
      BY <2>1, <2>2
    <3>2. QED
      BY <3>1 DEF Product, FoldFunction, FoldFunctionOnSet, MapThenFoldSet
  <2> DEFINE Q == {s \in SUBSET T : k[s] = g[s]}
  <2>4. {} \in Q
    BY <1>2, <2>1, <2>3 DEF Folded
  <2>5. ASSUME NEW s \in SUBSET T, s # {}, s \ {c[s]} \in Q
        PROVE  s \in Q
    <3>1. c[s] = CHOOSE t \in s : TRUE
      OBVIOUS
    <3>2. c[s] \in s /\ g[s] = F[c[s]] ** g[s \ {c[s]}]
      BY <1>3, <2>5
    <3> HIDE DEF c
    <3>3. k[s] = G[c[s]] ** k[s \ {c[s]}]
      BY <2>1, <2>3, <2>5, <3>1
    <3>4. QED
      BY <2>5, <3>2, <3>3
  <2>6. Chooser(c, T)
    BY <1>1 DEF Chooser
  <2>7. \A s \in SUBSET T : s \in Q
    <3> HIDE DEF Q, c
    <3> QED BY <2>1, <2>4, <2>5, <2>6, ChooserInduction
  <2>8. QED
    BY <2>1, <2>3, <2>7
<1>5. QED
  BY <1>2, <1>4 DEF Products

\* A sum on a set is an element of it and the sum on the rest.
LEMMA TotalStep ==
  ASSUME NEW S, IsFiniteSet(S), NEW F \in [S -> Fr], NEW T \in SUBSET S
  PROVE  /\ SumOn(F, T) \in Fr
         /\ T = {} => SumOn(F, T) = 0
         /\ \A a \in S \ T : SumOn(F, T \cup {a}) = F[a] ++ SumOn(F, T)
         /\ \A a \in T : SumOn(F, T) = F[a] ++ SumOn(F, T \ {a})
<1>1. PICK g \in [SUBSET S -> Fr] : Totals(g, S, F)
  BY TotalFold
<1>2. SumOn(F, T) = g[T] /\ g[T] \in Fr
  BY <1>1 DEF Totals, SumOn
<1>3. T = {} => g[T] = 0
  BY <1>1 DEF Totals, SumOn, Folded
<1>4. ASSUME NEW a \in S \ T
      PROVE  SumOn(F, T \cup {a}) = F[a] ++ SumOn(F, T)
  <2> DEFINE U == T \cup {a}
  <2>1. U \in SUBSET S /\ a \in U /\ U \ {a} = T
    OBVIOUS
  <2> HIDE DEF U
  <2>2. g[U] = plus[F[a], g[U \ {a}]] /\ SumOn(F, U) = g[U]
    BY <1>1, <2>1 DEF Totals, SumOn, Folded
  <2>3. plus[F[a], g[T]] = F[a] ++ g[T]
    BY <1>2 DEF plus
  <2>4. QED
    BY <1>2, <2>1, <2>2, <2>3 DEF U
<1>5. ASSUME NEW a \in T
      PROVE  SumOn(F, T) = F[a] ++ SumOn(F, T \ {a})
  <2> DEFINE U == T \ {a}
  <2>1. U \in SUBSET S /\ g[U] \in Fr /\ F[a] \in Fr
    BY <1>1 DEF Totals, SumOn
  <2>2. g[T] = plus[F[a], g[U]]
    BY <1>1 DEF Totals, SumOn, Folded
  <2>3. SumOn(F, U) = g[U]
    <3> HIDE DEF U
    <3> QED BY <1>1, <2>1 DEF Totals, SumOn
  <2>4. plus[F[a], g[U]] = F[a] ++ g[U]
    BY <2>1 DEF plus
  <2>5. QED
    BY <1>2, <2>2, <2>3, <2>4
<1>6. QED
  BY <1>2, <1>3, <1>4, <1>5

\* A product on a set is an element of it times the product on the rest.
LEMMA ProductStep ==
  ASSUME NEW S, IsFiniteSet(S), NEW F \in [S -> Fr], NEW T \in SUBSET S
  PROVE  /\ ProductOn(F, T) \in Fr
         /\ T = {} => ProductOn(F, T) = 1
         /\ \A a \in S \ T : ProductOn(F, T \cup {a}) = F[a] ** ProductOn(F, T)
         /\ \A a \in T : ProductOn(F, T) = F[a] ** ProductOn(F, T \ {a})
<1>1. PICK g \in [SUBSET S -> Fr] : Products(g, S, F)
  BY ProductFold
<1>2. ProductOn(F, T) = g[T] /\ g[T] \in Fr
  BY <1>1 DEF Products, ProductOn
<1>3. T = {} => g[T] = 1
  BY <1>1 DEF Products, ProductOn, Folded
<1>4. ASSUME NEW a \in S \ T
      PROVE  ProductOn(F, T \cup {a}) = F[a] ** ProductOn(F, T)
  <2> DEFINE U == T \cup {a}
  <2>1. U \in SUBSET S /\ a \in U /\ U \ {a} = T
    OBVIOUS
  <2> HIDE DEF U
  <2>2. g[U] = times[F[a], g[U \ {a}]] /\ ProductOn(F, U) = g[U]
    BY <1>1, <2>1 DEF Products, ProductOn, Folded
  <2>3. times[F[a], g[T]] = F[a] ** g[T]
    BY <1>2 DEF times
  <2>4. QED
    BY <1>2, <2>1, <2>2, <2>3 DEF U
<1>5. ASSUME NEW a \in T
      PROVE  ProductOn(F, T) = F[a] ** ProductOn(F, T \ {a})
  <2> DEFINE U == T \ {a}
  <2>1. U \in SUBSET S /\ g[U] \in Fr /\ F[a] \in Fr
    BY <1>1 DEF Products, ProductOn
  <2>2. g[T] = times[F[a], g[U]]
    BY <1>1 DEF Products, ProductOn, Folded
  <2>3. ProductOn(F, U) = g[U]
    <3> HIDE DEF U
    <3> QED BY <1>1, <2>1 DEF Products, ProductOn
  <2>4. times[F[a], g[U]] = F[a] ** g[U]
    BY <2>1 DEF times
  <2>5. QED
    BY <1>2, <2>2, <2>3, <2>4
<1>6. QED
  BY <1>2, <1>3, <1>4, <1>5

\* The sum on the whole domain is Total.
LEMMA Wholes ==
  ASSUME NEW S, NEW F \in [S -> Fr]
  PROVE  SumOn(F, S) = Total(F) /\ ProductOn(F, S) = Product(F)
<1>1. [x \in S |-> F[x]] = F
  OBVIOUS
<1>2. QED
  BY <1>1 DEF SumOn, ProductOn

\* A sum of elements of the field is one.
LEMMA TotalType ==
  ASSUME NEW S, IsFiniteSet(S), NEW F \in [S -> Fr]
  PROVE  Total(F) \in Fr
<1>1. S \in SUBSET S
  OBVIOUS
<1>2. QED
  BY <1>1, TotalStep, Wholes

\* A product of elements of the field is one.
LEMMA ProductType ==
  ASSUME NEW S, IsFiniteSet(S), NEW F \in [S -> Fr]
  PROVE  Product(F) \in Fr
<1>1. S \in SUBSET S
  OBVIOUS
<1>2. QED
  BY <1>1, ProductStep, Wholes

\* One summand may be taken out of a sum.
LEMMA TotalSplit ==
  ASSUME NEW S, IsFiniteSet(S), NEW F \in [S -> Fr], NEW a \in S
  PROVE  /\ Total(F) = F[a] ++ SumOn(F, S \ {a})
         /\ SumOn(F, S \ {a}) \in Fr
<1>1. S \in SUBSET S /\ S \ {a} \in SUBSET S
  OBVIOUS
<1>2. SumOn(F, S) = F[a] ++ SumOn(F, S \ {a})
  BY <1>1, TotalStep
<1>3. SumOn(F, S \ {a}) \in Fr
  BY <1>1, TotalStep
<1>4. QED
  BY <1>2, <1>3, Wholes

\* The sum of nothing is 0, the product is 1.
LEMMA EmptySums ==
  ASSUME NEW S, IsFiniteSet(S), NEW F \in [S -> Fr]
  PROVE  SumOn(F, {}) = 0 /\ ProductOn(F, {}) = 1
<1>1. {} \in SUBSET S
  OBVIOUS
<1>2. QED
  BY <1>1, TotalStep, ProductStep

\* The sum of sums is the sum of the two sums: aggregating commitments adds
\* polynomials.
LEMMA TotalOfSums ==
  ASSUME NEW S, IsFiniteSet(S), NEW F \in [S -> Fr], NEW G \in [S -> Fr]
  PROVE  Total([x \in S |-> F[x] ++ G[x]]) = Total(F) ++ Total(G)
<1> DEFINE FG == [x \in S |-> F[x] ++ G[x]]
           SF(T) == SumOn(F, T)
           SG(T) == SumOn(G, T)
           SFG(T) == SumOn(FG, T)
           Q == {T \in SUBSET S : SFG(T) = SF(T) ++ SG(T)}
<1>1. FG \in [S -> Fr]
  BY FieldClosed
<1>2. {} \in Q
  <2>1. SFG({}) = 0 /\ SF({}) = 0 /\ SG({}) = 0
    <3> HIDE DEF FG
    <3> QED BY <1>1, EmptySums
  <2>2. 0 ++ 0 = 0
    BY SumLaws, FieldNumbers
  <2>3. QED
    BY <2>1, <2>2
<1>3. ASSUME NEW T \in SUBSET S, NEW a \in S \ T, T \in Q
      PROVE  T \cup {a} \in Q
  <2>1. SFG(T) = SF(T) ++ SG(T)
    BY <1>3
  <2>2. FG[a] = F[a] ++ G[a]
    OBVIOUS
  <2> HIDE DEF FG
  <2>3. SFG(T \cup {a}) = FG[a] ++ SFG(T)
    BY <1>1, TotalStep
  <2>4. SF(T \cup {a}) = F[a] ++ SF(T) /\ SF(T) \in Fr
    BY TotalStep
  <2>5. SG(T \cup {a}) = G[a] ++ SG(T) /\ SG(T) \in Fr
    BY TotalStep
  <2>6. F[a] \in Fr /\ G[a] \in Fr
    OBVIOUS
  <2> HIDE DEF SF, SG, SFG
  <2> DEFINE f == F[a]
             g == G[a]
             s == SF(T)
             t == SG(T)
  <2>7. (f ++ g) ++ (s ++ t) = (f ++ s) ++ (g ++ t)
    <3>1. f \in Fr /\ g \in Fr /\ s \in Fr /\ t \in Fr
      BY <2>4, <2>5, <2>6
    <3> HIDE DEF f, g, s, t
    <3>2. s ++ t \in Fr /\ g ++ t \in Fr /\ g ++ s \in Fr
      BY <3>1, FieldClosed
    <3>3. (f ++ g) ++ (s ++ t) = f ++ (g ++ (s ++ t))
      BY <3>1, <3>2, SumLaws
    <3>4. g ++ (s ++ t) = (g ++ s) ++ t
      BY <3>1, SumLaws
    <3>5. (g ++ s) ++ t = (s ++ g) ++ t
      BY <3>1, SumLaws
    <3>6. (s ++ g) ++ t = s ++ (g ++ t)
      BY <3>1, SumLaws
    <3>7. f ++ (s ++ (g ++ t)) = (f ++ s) ++ (g ++ t)
      BY <3>1, <3>2, SumLaws
    <3>8. QED
      BY <3>3, <3>4, <3>5, <3>6, <3>7
  <2>8. SFG(T \cup {a}) = SF(T \cup {a}) ++ SG(T \cup {a})
    BY <2>1, <2>2, <2>3, <2>4, <2>5, <2>7
  <2>9. QED
    BY <2>8
<1>4. \A T \in SUBSET S : T \in Q
  <2> HIDE DEF Q
  <2> QED BY <1>2, <1>3, FiniteSetInduction
<1>5. SFG(S) = SF(S) ++ SG(S)
  BY <1>4
<1>6. SFG(S) = Total(FG) /\ SF(S) = Total(F) /\ SG(S) = Total(G)
  <2> HIDE DEF FG
  <2> QED BY <1>1, Wholes
<1>7. QED
  BY <1>5, <1>6

\* A common factor may be taken out of a sum.
LEMMA TotalOfMultiples ==
  ASSUME NEW S, IsFiniteSet(S), NEW F \in [S -> Fr], NEW c \in Fr
  PROVE  Total([x \in S |-> c ** F[x]]) = c ** Total(F)
<1> DEFINE G == [x \in S |-> c ** F[x]]
           SF(T) == SumOn(F, T)
           SG(T) == SumOn(G, T)
           Q == {T \in SUBSET S : SG(T) = c ** SF(T)}
<1>1. G \in [S -> Fr]
  BY FieldClosed
<1>2. {} \in Q
  <2>1. SF({}) = 0 /\ SG({}) = 0
    <3> HIDE DEF G
    <3> QED BY <1>1, EmptySums
  <2>2. c ** 0 = 0
    BY ProductLaws, FieldNumbers
  <2>3. QED
    BY <2>1, <2>2
<1>3. ASSUME NEW T \in SUBSET S, NEW a \in S \ T, T \in Q
      PROVE  T \cup {a} \in Q
  <2>1. SG(T) = c ** SF(T)
    BY <1>3
  <2>2. G[a] = c ** F[a]
    OBVIOUS
  <2> HIDE DEF G
  <2>3. SG(T \cup {a}) = G[a] ++ SG(T)
    BY <1>1, TotalStep
  <2>4. SF(T \cup {a}) = F[a] ++ SF(T) /\ SF(T) \in Fr
    BY TotalStep
  <2>5. F[a] \in Fr
    OBVIOUS
  <2> HIDE DEF SF, SG
  <2>6. c ** (F[a] ++ SF(T)) = (c ** F[a]) ++ (c ** SF(T))
    BY <2>4, <2>5, Distributivity
  <2>7. SG(T \cup {a}) = c ** SF(T \cup {a})
    BY <2>1, <2>2, <2>3, <2>4, <2>6
  <2>8. QED
    BY <2>7
<1>4. \A T \in SUBSET S : T \in Q
  <2> HIDE DEF Q
  <2> QED BY <1>2, <1>3, FiniteSetInduction
<1>5. SG(S) = c ** SF(S)
  BY <1>4
<1>6. SF(S) = Total(F) /\ SG(S) = Total(G)
  <2> HIDE DEF G
  <2> QED BY <1>1, Wholes
<1>7. QED
  BY <1>5, <1>6

\* A product without a 0 among its factors is not 0.
LEMMA ProductOfNonzeros ==
  ASSUME NEW S, IsFiniteSet(S), NEW F \in [S -> Fr], \A x \in S : F[x] # 0
  PROVE  Product(F) # 0
<1> DEFINE P(T) == ProductOn(F, T)
           Q == {T \in SUBSET S : P(T) # 0}
<1>1. {} \in Q
  <2>1. P({}) = 1
    BY EmptySums
  <2>2. QED
    BY <2>1
<1>2. ASSUME NEW T \in SUBSET S, NEW a \in S \ T, T \in Q
      PROVE  T \cup {a} \in Q
  <2>1. P(T \cup {a}) = F[a] ** P(T) /\ P(T) \in Fr
    BY ProductStep
  <2>2. P(T) # 0 /\ F[a] # 0 /\ F[a] \in Fr
    BY <1>2
  <2>3. P(T \cup {a}) # 0
    <3> HIDE DEF P
    <3> QED BY <2>1, <2>2, NoZeroDivisors
  <2>4. QED
    BY <2>3
<1>3. \A T \in SUBSET S : T \in Q
  <2> HIDE DEF Q
  <2> QED BY <1>1, <1>2, FiniteSetInduction
<1>4. P(S) = Product(F)
  BY Wholes
<1>5. QED
  BY <1>3, <1>4

\* P takes different elements of S to different ones.
Injective(P, S) == \A i, j \in S : P[i] = P[j] => i = j

\* A sum does not depend on how the summands are indexed: which replica sent
\* the k-th decryption does not matter.
LEMMA TotalReindex ==
  ASSUME NEW S, IsFiniteSet(S), NEW X, IsFiniteSet(X), NEW P \in [S -> X], Injective(P, S),
         X = {P[i] : i \in S}, NEW F \in [X -> Fr]
  PROVE  Total([i \in S |-> F[P[i]]]) = Total(F)
<1> DEFINE G == [i \in S |-> F[P[i]]]
           Im(T) == {P[i] : i \in T}
           SG(T) == SumOn(G, T)
           SF(T) == SumOn(F, T)
           Q == {T \in SUBSET S : SG(T) = SF(Im(T))}
<1>1. G \in [S -> Fr]
  OBVIOUS
<1>2. {} \in Q
  <2>1. SG({}) = 0
    <3> HIDE DEF G
    <3> QED BY <1>1, EmptySums
  <2>2. Im({}) = {}
    OBVIOUS
  <2>3. SF({}) = 0
    BY EmptySums
  <2>4. QED
    BY <2>1, <2>2, <2>3
<1>3. ASSUME NEW T \in SUBSET S, NEW a \in S \ T, T \in Q
      PROVE  T \cup {a} \in Q
  <2>1. SG(T) = SF(Im(T))
    BY <1>3
  <2>2. G[a] = F[P[a]]
    OBVIOUS
  <2>3. SG(T \cup {a}) = G[a] ++ SG(T)
    <3> HIDE DEF G
    <3> QED BY <1>1, TotalStep
  <2>4. Im(T) \in SUBSET X /\ P[a] \in X \ Im(T) /\ Im(T \cup {a}) = Im(T) \cup {P[a]}
    BY DEF Injective
  <2>5. SF(Im(T) \cup {P[a]}) = F[P[a]] ++ SF(Im(T))
    <3> HIDE DEF Im
    <3> QED BY <2>4, TotalStep
  <2>6. SG(T \cup {a}) = SF(Im(T \cup {a}))
    <3> HIDE DEF SG, SF, Im, G
    <3> QED BY <2>1, <2>2, <2>3, <2>4, <2>5
  <2>7. QED
    BY <2>6
<1>4. \A T \in SUBSET S : T \in Q
  <2> HIDE DEF Q
  <2> QED BY <1>2, <1>3, FiniteSetInduction
<1>5. SG(S) = SF(X)
  <2>1. SG(S) = SF(Im(S))
    BY <1>4
  <2>2. Im(S) = X
    OBVIOUS
  <2>3. QED
    BY <2>1, <2>2
<1>6. SG(S) = Total(G) /\ SF(X) = Total(F)
  <2> HIDE DEF G
  <2> QED BY <1>1, Wholes
<1>7. QED
  BY <1>5, <1>6

\* A product does not depend on how the factors are indexed.
LEMMA ProductReindex ==
  ASSUME NEW S, IsFiniteSet(S), NEW X, IsFiniteSet(X), NEW P \in [S -> X], Injective(P, S),
         X = {P[i] : i \in S}, NEW F \in [X -> Fr]
  PROVE  Product([i \in S |-> F[P[i]]]) = Product(F)
<1> DEFINE G == [i \in S |-> F[P[i]]]
           Im(T) == {P[i] : i \in T}
           SG(T) == ProductOn(G, T)
           SF(T) == ProductOn(F, T)
           Q == {T \in SUBSET S : SG(T) = SF(Im(T))}
<1>1. G \in [S -> Fr]
  OBVIOUS
<1>2. {} \in Q
  <2>1. SG({}) = 1
    <3> HIDE DEF G
    <3> QED BY <1>1, EmptySums
  <2>2. Im({}) = {}
    OBVIOUS
  <2>3. SF({}) = 1
    BY EmptySums
  <2>4. QED
    BY <2>1, <2>2, <2>3
<1>3. ASSUME NEW T \in SUBSET S, NEW a \in S \ T, T \in Q
      PROVE  T \cup {a} \in Q
  <2>1. SG(T) = SF(Im(T))
    BY <1>3
  <2>2. G[a] = F[P[a]]
    OBVIOUS
  <2>3. SG(T \cup {a}) = G[a] ** SG(T)
    <3> HIDE DEF G
    <3> QED BY <1>1, ProductStep
  <2>4. Im(T) \in SUBSET X /\ P[a] \in X \ Im(T) /\ Im(T \cup {a}) = Im(T) \cup {P[a]}
    BY DEF Injective
  <2>5. SF(Im(T) \cup {P[a]}) = F[P[a]] ** SF(Im(T))
    <3> HIDE DEF Im
    <3> QED BY <2>4, ProductStep
  <2>6. SG(T \cup {a}) = SF(Im(T \cup {a}))
    <3> HIDE DEF SG, SF, Im, G
    <3> QED BY <2>1, <2>2, <2>3, <2>4, <2>5
  <2>7. QED
    BY <2>6
<1>4. \A T \in SUBSET S : T \in Q
  <2> HIDE DEF Q
  <2> QED BY <1>2, <1>3, FiniteSetInduction
<1>5. SG(S) = SF(X)
  <2>1. SG(S) = SF(Im(S))
    BY <1>4
  <2>2. Im(S) = X
    OBVIOUS
  <2>3. QED
    BY <2>1, <2>2
<1>6. SG(S) = Product(G) /\ SF(X) = Product(F)
  <2> HIDE DEF G
  <2> QED BY <1>1, Wholes
<1>7. QED
  BY <1>5, <1>6

-----------------------------------------------------------------------------
(* Weighted sums over sets of points, and what they are exact for.         *)

\* Sums and products on sets of points are in the field.
LEMMA SumOnType ==
  ASSUME NEW F \in [Fr -> Fr], NEW D \in SUBSET Fr
  PROVE  SumOn(F, D) \in Fr /\ ProductOn(F, D) \in Fr
BY TotalStep, ProductStep, FieldNumbers

\* One point may be taken out of a sum or a product.
LEMMA SumOnSplit ==
  ASSUME NEW F \in [Fr -> Fr], NEW D \in SUBSET Fr, NEW a \in D
  PROVE  /\ SumOn(F, D) = F[a] ++ SumOn(F, D \ {a})
         /\ ProductOn(F, D) = F[a] ** ProductOn(F, D \ {a})
<1>1. IsFiniteSet(Fr)
  BY FieldNumbers
<1>2. SumOn(F, D) = F[a] ++ SumOn(F, D \ {a})
  BY <1>1, TotalStep
<1>3. ProductOn(F, D) = F[a] ** ProductOn(F, D \ {a})
  BY <1>1, ProductStep
<1>4. QED
  BY <1>2, <1>3

\* Such sums and products depend on the values at the points only.
LEMMA SumOnSame ==
  ASSUME NEW F \in [Fr -> Fr], NEW G \in [Fr -> Fr], NEW D \in SUBSET Fr,
         \A x \in D : F[x] = G[x]
  PROVE  SumOn(F, D) = SumOn(G, D) /\ ProductOn(F, D) = ProductOn(G, D)
<1>1. [x \in D |-> F[x]] = [x \in D |-> G[x]]
  OBVIOUS
<1>2. QED
  BY <1>1 DEF SumOn, ProductOn

\* Functions on the field: constants, sums, multiples, and products with x and
\* with x - a.
One == [x \in Fr |-> 1]
Plus(F, G) == [x \in Fr |-> F[x] ++ G[x]]
Times(c, F) == [x \in Fr |-> c ** F[x]]
TimesX(F) == [x \in Fr |-> x ** F[x]]
TimesXMinus(a, F) == [x \in Fr |-> (x -- a) ** F[x]]

\* A sum on a set of points is linear in the function.
LEMMA SumOnLinear ==
  ASSUME NEW F \in [Fr -> Fr], NEW G \in [Fr -> Fr], NEW c \in Fr, NEW D \in SUBSET Fr
  PROVE  /\ SumOn(Plus(F, G), D) = SumOn(F, D) ++ SumOn(G, D)
         /\ SumOn(Times(c, F), D) = c ** SumOn(F, D)
<1> DEFINE f == [x \in D |-> F[x]]
           g == [x \in D |-> G[x]]
<1>1. IsFiniteSet(D) /\ f \in [D -> Fr] /\ g \in [D -> Fr]
  BY FS_Subset, FieldNumbers
<1>2. SumOn(F, D) = Total(f) /\ SumOn(G, D) = Total(g)
  BY DEF SumOn
<1>3. SumOn(Plus(F, G), D) = Total([x \in D |-> f[x] ++ g[x]])
  <2>1. [x \in D |-> Plus(F, G)[x]] = [x \in D |-> f[x] ++ g[x]]
    BY DEF Plus
  <2>2. QED
    BY <2>1 DEF SumOn
<1>4. SumOn(Times(c, F), D) = Total([x \in D |-> c ** f[x]])
  <2>1. [x \in D |-> Times(c, F)[x]] = [x \in D |-> c ** f[x]]
    BY DEF Times
  <2>2. QED
    BY <2>1 DEF SumOn
<1> HIDE DEF f, g
<1>5. Total([x \in D |-> f[x] ++ g[x]]) = Total(f) ++ Total(g)
  BY <1>1, TotalOfSums
<1>6. Total([x \in D |-> c ** f[x]]) = c ** Total(f)
  BY <1>1, TotalOfMultiples
<1>7. QED
  BY <1>2, <1>3, <1>4, <1>5, <1>6

\* The weight of x in the set of points D is the product of w[x, y] over the
\* other points y of D; Lin is the sum of the values of F on D with these
\* weights.
Row(w, x) == [y \in Fr |-> w[x, y]]
Weight(w, D, x) == ProductOn(Row(w, x), D \ {x})
Weighted(w, D, F) == [x \in Fr |-> F[x] ** Weight(w, D, x)]
Lin(w, D, F) == SumOn(Weighted(w, D, F), D)

\* What is made of functions on the field by Plus, Times, TimesX and
\* TimesXMinus is one.
LEMMA FunctionTypes ==
  ASSUME NEW F \in [Fr -> Fr], NEW G \in [Fr -> Fr], NEW c \in Fr
  PROVE  /\ One \in [Fr -> Fr]
         /\ Plus(F, G) \in [Fr -> Fr]
         /\ Times(c, F) \in [Fr -> Fr]
         /\ TimesX(F) \in [Fr -> Fr]
         /\ TimesXMinus(c, F) \in [Fr -> Fr]
<1>1. \A x \in Fr : F[x] \in Fr /\ G[x] \in Fr
  OBVIOUS
<1>2. QED
  BY <1>1, FieldClosed, FieldNumbers DEF One, Plus, Times, TimesX, TimesXMinus

\* Weights are in the field.
LEMMA WeightType ==
  ASSUME NEW w \in [Fr \X Fr -> Fr], NEW D \in SUBSET Fr
  PROVE  /\ \A x \in Fr : Row(w, x) \in [Fr -> Fr]
         /\ \A x \in Fr : Weight(w, D, x) \in Fr
<1>1. ASSUME NEW x \in Fr PROVE Row(w, x) \in [Fr -> Fr]
  BY DEF Row
<1>2. ASSUME NEW x \in Fr PROVE Weight(w, D, x) \in Fr
  <2>1. D \ {x} \in SUBSET Fr
    OBVIOUS
  <2>2. QED
    BY <1>1, <2>1, SumOnType DEF Weight
<1>3. QED
  BY <1>1, <1>2

\* The weighted sum of a function is in the field.
LEMMA LinType ==
  ASSUME NEW w \in [Fr \X Fr -> Fr], NEW D \in SUBSET Fr, NEW F \in [Fr -> Fr]
  PROVE  Weighted(w, D, F) \in [Fr -> Fr] /\ Lin(w, D, F) \in Fr
<1>1. ASSUME NEW x \in Fr PROVE F[x] ** Weight(w, D, x) \in Fr
  BY WeightType, FieldClosed
<1>2. Weighted(w, D, F) \in [Fr -> Fr]
  BY <1>1 DEF Weighted
<1>3. QED
  BY <1>2, SumOnType DEF Lin

\* The weighted sum is linear in the function.
LEMMA LinLinear ==
  ASSUME NEW w \in [Fr \X Fr -> Fr], NEW D \in SUBSET Fr,
         NEW F \in [Fr -> Fr], NEW G \in [Fr -> Fr], NEW c \in Fr
  PROVE  /\ Lin(w, D, Plus(F, G)) = Lin(w, D, F) ++ Lin(w, D, G)
         /\ Lin(w, D, Times(c, F)) = c ** Lin(w, D, F)
<1> DEFINE f == Weighted(w, D, F)
           g == Weighted(w, D, G)
<1>1. f \in [Fr -> Fr] /\ g \in [Fr -> Fr]
  BY LinType
<1>2. Weighted(w, D, Plus(F, G)) = Plus(f, g)
  <2>1. ASSUME NEW x \in Fr
        PROVE  (F[x] ++ G[x]) ** Weight(w, D, x)
                 = (F[x] ** Weight(w, D, x)) ++ (G[x] ** Weight(w, D, x))
    <3>1. F[x] \in Fr /\ G[x] \in Fr /\ Weight(w, D, x) \in Fr
      BY WeightType
    <3>2. QED
      BY <3>1, Distributivity
  <2>2. QED
    BY <2>1 DEF Weighted, Plus
<1>3. Weighted(w, D, Times(c, F)) = Times(c, f)
  <2>1. ASSUME NEW x \in Fr
        PROVE  (c ** F[x]) ** Weight(w, D, x) = c ** (F[x] ** Weight(w, D, x))
    <3>1. F[x] \in Fr /\ Weight(w, D, x) \in Fr
      BY WeightType
    <3>2. QED
      BY <3>1, ProductLaws
  <2>2. QED
    BY <2>1 DEF Weighted, Times
<1>4. QED
  <2> HIDE DEF f, g
  <2>1. SumOn(Plus(f, g), D) = SumOn(f, D) ++ SumOn(g, D)
    BY <1>1, SumOnLinear
  <2>2. SumOn(Times(c, f), D) = c ** SumOn(f, D)
    BY <1>1, SumOnLinear
  <2>3. QED
    BY <1>2, <1>3, <2>1, <2>2 DEF Lin, f, g

\* The weighted sum of a sum of functions is that of theirs.
LEMMA LinSum ==
  ASSUME NEW w \in [Fr \X Fr -> Fr], NEW D \in SUBSET Fr,
         NEW F \in [Fr -> Fr], NEW G \in [Fr -> Fr]
  PROVE  Lin(w, D, Plus(F, G)) = Lin(w, D, F) ++ Lin(w, D, G)
BY LinLinear, FieldNumbers

\* The weighted sum of a multiple is the multiple.
LEMMA LinMultiple ==
  ASSUME NEW w \in [Fr \X Fr -> Fr], NEW D \in SUBSET Fr,
         NEW F \in [Fr -> Fr], NEW c \in Fr
  PROVE  Lin(w, D, Times(c, F)) = c ** Lin(w, D, F)
BY LinLinear

\* What makes weights useful: of a point x, multiplying with x - a cancels the
\* factor that a contributes, whatever x is.
Weights(w, u, E, e) ==
  /\ w \in [Fr \X Fr -> Fr]
  /\ u \in [Fr -> Fr]
  /\ E \in SUBSET Fr
  /\ e \in Fr
  /\ \A x, a \in E : x # a => (x -- a) ** w[x, a] = u[a]
  /\ \A a \in E : u[a] ** e = (0 -- a) ** e

\* So the sum of (x - a) F(x) is that of F without the point a.
LEMMA LinRemove ==
  ASSUME NEW w, NEW u, NEW E, NEW e, Weights(w, u, E, e),
         NEW D \in SUBSET E, NEW a \in D, NEW F \in [Fr -> Fr]
  PROVE  Lin(w, D, TimesXMinus(a, F)) = u[a] ** Lin(w, D \ {a}, F)
<1> DEFINE G == TimesXMinus(a, F)
           A == Weighted(w, D, G)
           B == Weighted(w, D \ {a}, F)
           B2 == Times(u[a], B)
<1>1. /\ w \in [Fr \X Fr -> Fr] /\ D \in SUBSET Fr /\ a \in Fr /\ u[a] \in Fr
      /\ D \ {a} \in SUBSET Fr
  BY DEF Weights
<1>2. G \in [Fr -> Fr]
  BY <1>1, FunctionTypes
<1>3. A \in [Fr -> Fr] /\ B \in [Fr -> Fr]
  BY <1>1, <1>2, LinType
<1>4. B2 \in [Fr -> Fr]
  BY <1>1, <1>3, FunctionTypes
<1>5. A[a] = 0
  <2>1. a -- a = 0
    BY <1>1, Differences
  <2>2. G[a] = 0
    BY <1>1, <2>1, ProductLaws DEF TimesXMinus
  <2>3. QED
    BY <1>1, <2>2, WeightType, ProductLaws DEF Weighted
<1>6. ASSUME NEW x \in D \ {a}
      PROVE  A[x] = B2[x]
  <2> DEFINE W == ProductOn(Row(w, x), (D \ {a}) \ {x})
             d == x -- a
             f == F[x]
             v == w[x, a]
  <2>1. x \in Fr /\ a \in D \ {x} /\ D \ {x} \in SUBSET Fr /\ (D \ {x}) \ {a} = (D \ {a}) \ {x}
    BY <1>1
  <2>2. Row(w, x) \in [Fr -> Fr] /\ Row(w, x)[a] = v
    BY <1>1, <2>1, WeightType DEF Row
  <2>3. Weight(w, D, x) = v ** W
    <3>1. ProductOn(Row(w, x), D \ {x}) = Row(w, x)[a] ** ProductOn(Row(w, x), (D \ {x}) \ {a})
      BY <2>1, <2>2, SumOnSplit
    <3>2. QED
      BY <2>1, <2>2, <3>1 DEF Weight
  <2>4. W \in Fr
    BY <1>1, <2>2, SumOnType
  <2>5. d ** v = u[a]
    BY DEF Weights
  <2>6. v \in Fr /\ d \in Fr /\ f \in Fr
    BY <1>1, <2>1, FieldClosed
  <2>7. A[x] = (d ** f) ** (v ** W)
    BY <2>1, <2>3 DEF Weighted, TimesXMinus
  <2>8. B2[x] = u[a] ** (f ** W)
    BY <2>1 DEF Weighted, Weight, Times
  <2> HIDE DEF W, d, f, v
  <2>9. (d ** f) ** (v ** W) = (d ** v) ** (f ** W)
    <3>1. v ** W \in Fr /\ f ** W \in Fr /\ f ** v \in Fr /\ v ** f \in Fr
      BY <2>4, <2>6, FieldClosed
    <3>2. (d ** f) ** (v ** W) = d ** (f ** (v ** W))
      BY <2>4, <2>6, <3>1, ProductLaws
    <3>3. f ** (v ** W) = (f ** v) ** W
      BY <2>4, <2>6, ProductLaws
    <3>4. (f ** v) ** W = (v ** f) ** W
      BY <2>4, <2>6, ProductLaws
    <3>5. (v ** f) ** W = v ** (f ** W)
      BY <2>4, <2>6, ProductLaws
    <3>6. d ** (v ** (f ** W)) = (d ** v) ** (f ** W)
      BY <2>6, <3>1, ProductLaws
    <3>7. QED
      BY <3>2, <3>3, <3>4, <3>5, <3>6
  <2>10. QED
    BY <2>5, <2>7, <2>8, <2>9
<1> HIDE DEF A, B, B2, G
<1>7. SumOn(A, D) = A[a] ++ SumOn(A, D \ {a})
  BY <1>1, <1>3, SumOnSplit
<1>8. SumOn(A, D \ {a}) = SumOn(B2, D \ {a})
  BY <1>1, <1>3, <1>4, <1>6, SumOnSame
<1>9. SumOn(B2, D \ {a}) = u[a] ** SumOn(B, D \ {a})
  <2> DEFINE c == u[a]
             U == D \ {a}
  <2>1. c \in Fr /\ U \in SUBSET Fr
    BY <1>1
  <2> HIDE DEF c, U
  <2>2. SumOn(Times(c, B), U) = c ** SumOn(B, U)
    BY <1>3, <2>1, SumOnLinear
  <2>3. QED
    BY <2>2 DEF B2, c, U
<1>10. 0 ++ SumOn(A, D \ {a}) = SumOn(A, D \ {a})
  BY <1>1, <1>3, SumOnType, SumLaws
<1>11. QED
  BY <1>5, <1>7, <1>8, <1>9, <1>10 DEF Lin, A, B, G

\* The functions whose sum, on any n points or more of E, is their value at 0
\* times e.
Exact(w, E, e, n) ==
  {F \in [Fr -> Fr] : \A D \in SUBSET E : Cardinality(D) >= n => Lin(w, D, F) = e ** F[0]}

\* If the constant 1 is exact on n points it is on more: for two points a and
\* b of a larger set, LinRemove gives the sum of x and that of 1 by two
\* equations.
LEMMA OneExact ==
  ASSUME NEW w, NEW u, NEW E, NEW e, Weights(w, u, E, e), NEW n \in Nat \ {0},
         \A D \in SUBSET E : Cardinality(D) = n => Lin(w, D, One) = e
  PROVE  One \in Exact(w, E, e, n)
<1> DEFINE K == {k \in Nat : \A D \in SUBSET E : Cardinality(D) = n + k => Lin(w, D, One) = e}
<1>1. /\ w \in [Fr \X Fr -> Fr] /\ u \in [Fr -> Fr] /\ E \in SUBSET Fr /\ e \in Fr
      /\ \A a \in E : u[a] ** e = (0 -- a) ** e
  BY DEF Weights
<1>2. \A D \in SUBSET E : D \in SUBSET Fr /\ IsFiniteSet(D) /\ Cardinality(D) \in Nat
  BY <1>1, FieldNumbers, FS_Subset, FS_CardinalityType
<1>3. 0 \in K
  OBVIOUS
<1>4. ASSUME NEW k \in Nat, k \in K PROVE k + 1 \in K
  <2>1. SUFFICES ASSUME NEW D \in SUBSET E, Cardinality(D) = n + (k + 1)
                 PROVE  Lin(w, D, One) = e
    OBVIOUS
  <2>2. D \in SUBSET Fr /\ IsFiniteSet(D)
    BY <1>2
  <2>3. PICK a \in D : TRUE
    BY <2>1, FS_EmptySet
  <2>4. Cardinality(D \ {a}) = n + k
    BY <2>1, <2>2, CardinalityRemove
  <2>5. PICK b \in D \ {a} : TRUE
    BY <2>4, FS_EmptySet
  <2> DEFINE L == Lin(w, D, One)
             I == Lin(w, D, TimesX(One))
  <2>6. L \in Fr /\ I \in Fr
    <3>1. One \in [Fr -> Fr] /\ TimesX(One) \in [Fr -> Fr]
      BY FunctionTypes, FieldNumbers DEF One
    <3>2. QED
      BY <1>1, <2>2, <3>1, LinType
  <2>7. ASSUME NEW y \in D
        PROVE  I ++ ((0 -- y) ** L) = (0 -- y) ** e
    <3>1. Cardinality(D \ {y}) = n + k
      BY <2>1, <2>2, CardinalityRemove
    <3>2. Lin(w, D \ {y}, One) = e
      BY <1>4, <3>1
    <3>3. y \in Fr /\ y \in E /\ 0 -- y \in Fr
      BY <2>2, FieldClosed, FieldNumbers
    <3>4. One \in [Fr -> Fr]
      BY FieldNumbers DEF One
    <3>5. Lin(w, D, TimesXMinus(y, One)) = (0 -- y) ** e
      BY <1>1, <3>2, <3>3, <3>4, LinRemove
    <3>6. TimesXMinus(y, One) = Plus(TimesX(One), Times(0 -- y, One))
      <4>1. ASSUME NEW x \in Fr PROVE (x -- y) ** 1 = (x ** 1) ++ ((0 -- y) ** 1)
        <5>1. x -- y = x ++ (0 -- y) /\ x -- y \in Fr
          BY <3>3, Differences, FieldClosed
        <5>2. QED
          BY <3>3, <5>1, ProductLaws
      <4>2. QED
        BY <4>1 DEF TimesXMinus, Plus, TimesX, Times, One
    <3>7. TimesX(One) \in [Fr -> Fr] /\ Times(0 -- y, One) \in [Fr -> Fr]
      BY <3>3, <3>4, FunctionTypes
    <3>8. Lin(w, D, Plus(TimesX(One), Times(0 -- y, One))) = I ++ Lin(w, D, Times(0 -- y, One))
      BY <1>1, <2>2, <3>7, LinSum
    <3>9. Lin(w, D, Times(0 -- y, One)) = (0 -- y) ** L
      BY <1>1, <2>2, <3>3, <3>4, LinMultiple
    <3>10. QED
      BY <3>5, <3>6, <3>8, <3>9
  <2> DEFINE al == 0 -- a
             be == 0 -- b
             de == al -- be
  <2>8. al \in Fr /\ be \in Fr /\ de \in Fr /\ de # 0 /\ al = de ++ be
    <3>1. a \in Fr /\ b \in Fr
      BY <2>2
    <3>2. al \in Fr /\ be \in Fr /\ de \in Fr
      BY <3>1, FieldClosed, FieldNumbers
    <3>3. al ++ a = 0 /\ be ++ b = 0
      BY <3>1, Differences, FieldNumbers
    <3>4. al # be
      <4> HIDE DEF al, be
      <4>1. ASSUME al = be PROVE a = b
        BY <3>1, <3>2, <3>3, <4>1, Cancellation
      <4>2. QED
        BY <4>1
    <3>5. QED
      <4> HIDE DEF al, be
      <4> QED BY <3>2, <3>4, Differences
  <2>9. I ++ (al ** L) = al ** e /\ I ++ (be ** L) = be ** e
    BY <2>7
  <2> HIDE DEF al, be, de, L, I
  <2>10. al ** L = (de ** L) ++ (be ** L) /\ al ** e = (de ** e) ++ (be ** e)
    BY <1>1, <2>6, <2>8, Distributivity
  <2>11. de ** L \in Fr /\ be ** L \in Fr /\ de ** e \in Fr /\ be ** e \in Fr
    BY <1>1, <2>6, <2>8, FieldClosed
  <2>12. I ++ ((de ** L) ++ (be ** L)) = (be ** e) ++ (de ** L)
    <3>1. I ++ ((de ** L) ++ (be ** L)) = I ++ ((be ** L) ++ (de ** L))
      BY <2>6, <2>11, SumLaws
    <3>2. I ++ ((be ** L) ++ (de ** L)) = (I ++ (be ** L)) ++ (de ** L)
      BY <2>6, <2>11, SumLaws
    <3>3. QED
      BY <2>9, <3>1, <3>2
  <2>13. (de ** e) ++ (be ** e) = (be ** e) ++ (de ** e)
    BY <2>11, SumLaws
  <2>14. de ** L = de ** e
    BY <2>9, <2>10, <2>11, <2>12, <2>13, Cancellation
  <2>15. L = e
    BY <1>1, <2>6, <2>8, <2>14, ProductCancellation
  <2>16. QED
    BY <2>15 DEF L
<1>5. \A k \in Nat : k \in K
  <2> HIDE DEF K
  <2> QED BY <1>3, <1>4, NatSetInduction
<1>6. ASSUME NEW D \in SUBSET E, Cardinality(D) >= n
      PROVE  Lin(w, D, One) = e ** One[0]
  <2>1. Cardinality(D) - n \in Nat /\ Cardinality(D) = n + (Cardinality(D) - n)
    BY <1>2, <1>6
  <2>2. Lin(w, D, One) = e
    BY <1>5, <2>1
  <2>3. e ** One[0] = e
    BY <1>1, ProductLaws, FieldNumbers DEF One
  <2>4. QED
    BY <2>2, <2>3
<1>7. One \in [Fr -> Fr]
  BY FieldNumbers DEF One
<1>8. QED
  BY <1>6, <1>7 DEF Exact

\* What is exact on n points is exact on more.
LEMMA ExactUp ==
  ASSUME NEW w, NEW E \in SUBSET Fr, NEW e, NEW n \in Nat, NEW m \in Nat, n <= m,
         NEW F \in Exact(w, E, e, n)
  PROVE  F \in Exact(w, E, e, m)
<1>1. ASSUME NEW D \in SUBSET E, Cardinality(D) >= m
      PROVE  Lin(w, D, F) = e ** F[0]
  <2>1. Cardinality(D) \in Nat
    BY FieldNumbers, FS_Subset, FS_CardinalityType
  <2>2. Cardinality(D) >= n
    BY <1>1, <2>1
  <2>3. QED
    BY <2>2 DEF Exact
<1>2. QED
  BY <1>1 DEF Exact

\* Sums and multiples of exact functions are exact.
LEMMA ExactLinear ==
  ASSUME NEW w, NEW u, NEW E, NEW e, Weights(w, u, E, e), NEW n \in Nat,
         NEW F \in Exact(w, E, e, n), NEW G \in Exact(w, E, e, n), NEW c \in Fr
  PROVE  Plus(F, G) \in Exact(w, E, e, n) /\ Times(c, F) \in Exact(w, E, e, n)
<1>1. w \in [Fr \X Fr -> Fr] /\ E \in SUBSET Fr /\ e \in Fr
  BY DEF Weights
<1>2. F \in [Fr -> Fr] /\ G \in [Fr -> Fr] /\ F[0] \in Fr /\ G[0] \in Fr /\ 0 \in Fr
  BY FieldNumbers DEF Exact
<1>3. ASSUME NEW D \in SUBSET E, Cardinality(D) >= n
      PROVE  /\ Lin(w, D, Plus(F, G)) = e ** Plus(F, G)[0]
             /\ Lin(w, D, Times(c, F)) = e ** Times(c, F)[0]
  <2>1. Lin(w, D, F) = e ** F[0] /\ Lin(w, D, G) = e ** G[0]
    BY <1>3 DEF Exact
  <2>2. D \in SUBSET Fr
    BY <1>1
  <2>3. Lin(w, D, Plus(F, G)) = (e ** F[0]) ++ (e ** G[0])
    BY <1>1, <1>2, <2>1, <2>2, LinSum
  <2>4. Lin(w, D, Times(c, F)) = c ** (e ** F[0])
    <3>1. Lin(w, D, Times(c, F)) = c ** Lin(w, D, F)
      BY <1>1, <1>2, <2>2, LinMultiple
    <3>2. QED
      BY <2>1, <3>1
  <2>5. (e ** F[0]) ++ (e ** G[0]) = e ** (F[0] ++ G[0])
    BY <1>1, <1>2, Distributivity
  <2>6. c ** (e ** F[0]) = e ** (c ** F[0])
    <3>1. c ** (e ** F[0]) = (c ** e) ** F[0]
      BY <1>1, <1>2, ProductLaws
    <3>2. e ** (c ** F[0]) = (e ** c) ** F[0]
      BY <1>1, <1>2, ProductLaws
    <3>3. c ** e = e ** c
      BY <1>1, ProductLaws
    <3>4. QED
      BY <3>1, <3>2, <3>3
  <2>7. Plus(F, G)[0] = F[0] ++ G[0] /\ Times(c, F)[0] = c ** F[0]
    BY <1>2 DEF Plus, Times
  <2>8. QED
    BY <2>3, <2>4, <2>5, <2>6, <2>7
<1>4. Plus(F, G) \in [Fr -> Fr] /\ Times(c, F) \in [Fr -> Fr]
  BY <1>2, FunctionTypes
<1>5. QED
  BY <1>3, <1>4 DEF Exact

\* Multiplying with x costs one point: x F(x) is (x - a) F(x) and a F(x), for
\* a point a.
LEMMA TimesXExact ==
  ASSUME NEW w, NEW u, NEW E, NEW e, Weights(w, u, E, e), NEW n \in Nat,
         NEW F \in Exact(w, E, e, n)
  PROVE  TimesX(F) \in Exact(w, E, e, n + 1)
<1>1. /\ w \in [Fr \X Fr -> Fr] /\ E \in SUBSET Fr /\ e \in Fr /\ u \in [Fr -> Fr]
      /\ \A a \in E : u[a] ** e = (0 -- a) ** e
  BY DEF Weights
<1>2. F \in [Fr -> Fr] /\ F[0] \in Fr /\ 0 \in Fr
  BY FieldNumbers DEF Exact
<1>3. TimesX(F) \in [Fr -> Fr]
  BY <1>2, FunctionTypes
<1>4. ASSUME NEW D \in SUBSET E, Cardinality(D) >= n + 1
      PROVE  Lin(w, D, TimesX(F)) = e ** TimesX(F)[0]
  <2>1. D \in SUBSET Fr /\ IsFiniteSet(D) /\ Cardinality(D) \in Nat
    BY <1>1, FieldNumbers, FS_Subset, FS_CardinalityType
  <2>2. PICK a \in D : TRUE
    BY <1>4, FS_EmptySet
  <2>3. Cardinality(D \ {a}) >= n /\ Cardinality(D) >= n /\ D \ {a} \in SUBSET E
    BY <1>4, <2>1, CardinalityRemove
  <2>4. Lin(w, D, F) = e ** F[0] /\ Lin(w, D \ {a}, F) = e ** F[0]
    BY <2>3 DEF Exact
  <2>5. a \in Fr /\ a \in E /\ 0 -- a \in Fr /\ u[a] \in Fr
    BY <1>1, <1>2, <2>1, FieldClosed
  <2>6. Lin(w, D, TimesXMinus(a, F)) = u[a] ** (e ** F[0])
    BY <1>2, <2>4, LinRemove
  <2>7. TimesX(F) = Plus(TimesXMinus(a, F), Times(a, F))
    <3>1. ASSUME NEW x \in Fr PROVE x ** F[x] = ((x -- a) ** F[x]) ++ (a ** F[x])
      <4>1. (x -- a) ++ a = x /\ x -- a \in Fr /\ F[x] \in Fr
        BY <1>2, <2>5, Differences, FieldClosed
      <4>2. ((x -- a) ++ a) ** F[x] = ((x -- a) ** F[x]) ++ (a ** F[x])
        BY <2>5, <4>1, Distributivity
      <4>3. QED
        BY <4>1, <4>2
    <3>2. QED
      BY <3>1 DEF TimesX, Plus, TimesXMinus, Times
  <2>8. TimesXMinus(a, F) \in [Fr -> Fr] /\ Times(a, F) \in [Fr -> Fr]
    BY <1>2, <2>5, FunctionTypes
  <2>9. Lin(w, D, TimesX(F)) = Lin(w, D, TimesXMinus(a, F)) ++ Lin(w, D, Times(a, F))
    <3> DEFINE G == TimesXMinus(a, F)
               H == Times(a, F)
    <3>1. w \in [Fr \X Fr -> Fr] /\ D \in SUBSET Fr /\ G \in [Fr -> Fr] /\ H \in [Fr -> Fr]
      BY <1>1, <2>1, <2>8
    <3>2. TimesX(F) = Plus(G, H)
      BY <2>7
    <3> HIDE DEF G, H
    <3>3. Lin(w, D, Plus(G, H)) = Lin(w, D, G) ++ Lin(w, D, H)
      BY <3>1, LinSum
    <3>4. QED
      BY <3>2, <3>3 DEF G, H
  <2>10. Lin(w, D, Times(a, F)) = a ** (e ** F[0])
    BY <1>1, <1>2, <2>1, <2>4, <2>5, LinMultiple
  <2> DEFINE z == F[0]
             na == 0 -- a
  <2>11. u[a] ** (e ** z) = na ** (e ** z)
    <3>1. u[a] ** (e ** z) = (u[a] ** e) ** z
      BY <1>1, <1>2, <2>5, ProductLaws
    <3>2. na ** (e ** z) = (na ** e) ** z
      BY <1>1, <1>2, <2>5, ProductLaws
    <3>3. QED
      BY <1>1, <2>5, <3>1, <3>2
  <2>12. (na ** (e ** z)) ++ (a ** (e ** z)) = 0
    <3>1. e ** z \in Fr
      BY <1>1, <1>2, FieldClosed
    <3>2. na ++ a = 0
      BY <1>2, <2>5, Differences
    <3>3. (na ++ a) ** (e ** z) = (na ** (e ** z)) ++ (a ** (e ** z))
      BY <2>5, <3>1, Distributivity
    <3>4. 0 ** (e ** z) = 0
      BY <3>1, ProductLaws
    <3>5. QED
      BY <3>2, <3>3, <3>4
  <2>13. e ** TimesX(F)[0] = 0
    <3>1. TimesX(F)[0] = 0
      BY <1>2, ProductLaws DEF TimesX
    <3>2. QED
      BY <1>1, <3>1, ProductLaws
  <2>14. QED
    BY <2>6, <2>9, <2>10, <2>11, <2>12, <2>13
<1>5. QED
  BY <1>3, <1>4 DEF Exact

-----------------------------------------------------------------------------
(* Horner's rule.                                                          *)

\* h holds what evaluate (PolyOps.hpp) has computed, from the last coefficient
\* to the first.
HornerOf(h, poly, n, x) ==
  /\ h[n + 1] = 0
  /\ \A m \in 1 .. n : h[m] = (h[m + 1] ** x) ++ poly[m]
  /\ evaluate(poly, x) = h[1]

\* evaluate is Horner's rule: FoldRight takes the coefficients from the last
\* to the first.
LEMMA Horner ==
  ASSUME NEW n \in Nat, NEW poly \in [1 .. n -> Fr], NEW x \in Fr
  PROVE  \E h \in [1 .. n + 1 -> Fr] : HornerOf(h, poly, n, x)
<1> DEFINE S == 1 .. n
           c == [T \in SUBSET S |-> Min(T)]
           H == [iv \in S \X Fr |-> (iv[2] ** x) ++ poly[iv[1]]]
<1>1. IsFiniteSet(S) /\ 0 \in Fr
  BY FS_Interval, FieldNumbers
<1>2. Chooser(c, S)
  <2>1. SUFFICES ASSUME NEW T \in SUBSET S, T # {} PROVE Min(T) \in T
    BY DEF Chooser
  <2>2. T \subseteq Nat
    OBVIOUS
  <2>3. \E m \in T : \A y \in T : m <= y
    BY <2>1, <2>2, LeastElement
  <2>4. QED
    BY <2>3 DEF Min
<1>3. H \in [S \X Fr -> Fr] /\ \A i \in S : \A v \in Fr : H[i, v] = (v ** x) ++ poly[i]
  <2>1. \A i \in S : \A v \in Fr : v ** x \in Fr /\ (v ** x) ++ poly[i] \in Fr
    BY FieldClosed
  <2>2. QED
    BY <2>1
<1>4. PICK g \in [SUBSET S -> Fr] : Obeys(g, SUBSET S, c, H, 0)
  <2> HIDE DEF c, H, S
  <2> QED BY <1>1, <1>2, <1>3, FoldExists
<1>5. ASSUME NEW s \in SUBSET S, s # {}
      PROVE  Min(s) \in s /\ g[s] = (g[s \ {Min(s)}] ** x) ++ poly[Min(s)]
  <2>1. c[s] = Min(s) /\ Min(s) \in s
    BY <1>2, <1>5 DEF Chooser
  <2> HIDE DEF c, H
  <2>2. g[s] = H[c[s], g[s \ {c[s]}]]
    BY <1>4, <1>5 DEF Obeys
  <2>3. QED
    BY <1>3, <2>1, <2>2
<1>6. g[{}] = 0
  BY <1>4 DEF Obeys
<1>7. g = [s \in SUBSET S |-> IF s = {} THEN 0 ELSE (g[s \ {Min(s)}] ** x) ++ poly[Min(s)]]
  <2> HIDE DEF S
  <2>1. \A s \in SUBSET S : g[s] = IF s = {} THEN 0 ELSE (g[s \ {Min(s)}] ** x) ++ poly[Min(s)]
    BY <1>5, <1>6
  <2>2. QED
    BY <2>1
<1>8. PICK k :
        /\ k = [s \in SUBSET S |-> IF s = {} THEN 0 ELSE (k[s \ {Min(s)}] ** x) ++ poly[Min(s)]]
        /\ evaluate(poly, x) = k[S]
  <2>1. DOMAIN poly = S
    OBVIOUS
  <2> HIDE DEF S
  <2>2. \E k0 : k0 = [s \in SUBSET DOMAIN poly |->
                        IF s = {} THEN 0 ELSE (k0[s \ {Min(s)}] ** x) ++ poly[Min(s)]]
    BY <1>7, <2>1
  <2>3. \E k0 : /\ k0 = [s \in SUBSET DOMAIN poly |->
                           IF s = {} THEN 0 ELSE (k0[s \ {Min(s)}] ** x) ++ poly[Min(s)]]
                /\ evaluate(poly, x) = k0[DOMAIN poly]
    BY <2>2 DEF evaluate, FoldRight, MapThenFoldSet
  <2>4. QED
    BY <2>1, <2>3
<1> DEFINE Q == {s \in SUBSET S : k[s] = g[s]}
<1>9. \A s \in SUBSET S : s \in Q
  <2>1. {} \in Q
    BY <1>6, <1>8
  <2>2. ASSUME NEW s \in SUBSET S, s # {}, s \ {c[s]} \in Q
        PROVE  s \in Q
    <3>1. c[s] = Min(s)
      OBVIOUS
    <3>2. Min(s) \in s /\ g[s] = (g[s \ {Min(s)}] ** x) ++ poly[Min(s)]
      BY <1>5, <2>2
    <3> HIDE DEF c, S
    <3>3. k[s] = (k[s \ {Min(s)}] ** x) ++ poly[Min(s)]
      BY <1>8, <2>2
    <3>4. QED
      BY <2>2, <3>1, <3>2, <3>3
  <2> HIDE DEF Q, c, S
  <2>3. QED
    BY <1>1, <1>2, <2>1, <2>2, ChooserInduction
<1> DEFINE h == [m \in 1 .. n + 1 |-> g[m .. n]]
<1>10. h \in [1 .. n + 1 -> Fr]
  <2>1. \A m \in 1 .. n + 1 : m .. n \in SUBSET S
    OBVIOUS
  <2>2. QED
    BY <2>1
<1>11. h[n + 1] = 0
  <2>1. n + 1 \in 1 .. n + 1 /\ (n + 1) .. n = {}
    OBVIOUS
  <2>2. QED
    BY <1>6, <2>1
<1>12. ASSUME NEW m \in 1 .. n PROVE h[m] = (h[m + 1] ** x) ++ poly[m]
  <2> DEFINE s == m .. n
  <2>1. s \in SUBSET S /\ s # {} /\ s \ {m} = (m + 1) .. n /\ m \in 1 .. n + 1 /\ m + 1 \in 1 .. n + 1
    OBVIOUS
  <2>2. Min(s) = m
    <3>1. m \in s /\ \A y \in s : m <= y
      OBVIOUS
    <3>2. \A z \in s : (\A y \in s : z <= y) => z = m
      BY <3>1
    <3> HIDE DEF s
    <3>3. QED
      BY <3>1, <3>2 DEF Min
  <2>3. g[s] = (g[s \ {m}] ** x) ++ poly[m]
    <3> HIDE DEF s, S
    <3> QED BY <1>5, <2>1, <2>2
  <2>4. QED
    BY <2>1, <2>3
<1>13. evaluate(poly, x) = h[1]
  <2>1. S \in SUBSET S /\ h[1] = g[S]
    OBVIOUS
  <2>2. QED
    BY <1>8, <1>9, <2>1
<1>14. QED
  <2> HIDE DEF h
  <2> QED BY <1>10, <1>11, <1>12, <1>13 DEF HornerOf

\* The value of a polynomial is in the field.
LEMMA EvaluateType ==
  ASSUME NEW n \in Nat, NEW poly \in [1 .. n -> Fr], NEW x \in Fr
  PROVE  evaluate(poly, x) \in Fr
<1>1. PICK h \in [1 .. n + 1 -> Fr] : HornerOf(h, poly, n, x)
  BY Horner
<1>2. QED
  BY <1>1 DEF HornerOf

\* The value at 0, which is shared, is the first coefficient, which get_secret
\* returns.
LEMMA EvaluateAtZero ==
  ASSUME NEW n \in Nat \ {0}, NEW poly \in [1 .. n -> Fr]
  PROVE  evaluate(poly, 0) = poly[1]
<1>1. PICK h \in [1 .. n + 1 -> Fr] : HornerOf(h, poly, n, 0)
  BY Horner, FieldNumbers
<1>2. 1 \in 1 .. n /\ h[2] \in Fr /\ poly[1] \in Fr
  OBVIOUS
<1>3. h[1] = (h[2] ** 0) ++ poly[1]
  BY <1>1, <1>2 DEF HornerOf
<1>4. h[2] ** 0 = 0 /\ 0 ++ poly[1] = poly[1]
  BY <1>2, ProductLaws, SumLaws
<1>5. QED
  BY <1>1, <1>3, <1>4 DEF HornerOf

\* Adding to the first coefficient adds to every value.
LEMMA EvaluateAddConstant ==
  ASSUME NEW n \in Nat \ {0}, NEW poly \in [1 .. n -> Fr], NEW c \in Fr, NEW x \in Fr
  PROVE  evaluate([poly EXCEPT ![1] = poly[1] ++ c], x) = evaluate(poly, x) ++ c
<1> DEFINE poly2 == [poly EXCEPT ![1] = poly[1] ++ c]
<1>0. poly[1] \in Fr /\ poly[1] ++ c \in Fr
  BY FieldClosed
<1>1. poly2 \in [1 .. n -> Fr] /\ poly2[1] = poly[1] ++ c /\ \A m \in 2 .. n : poly2[m] = poly[m]
  BY <1>0
<1> HIDE DEF poly2
<1>2. PICK h \in [1 .. n + 1 -> Fr] : HornerOf(h, poly, n, x)
  BY Horner
<1>3. PICK k \in [1 .. n + 1 -> Fr] : HornerOf(k, poly2, n, x)
  BY <1>1, Horner
<1> DEFINE K == {j \in Nat : j <= n - 1 => k[n + 1 - j] = h[n + 1 - j]}
<1>4. 0 \in K
  BY <1>2, <1>3 DEF HornerOf
<1>5. ASSUME NEW j \in Nat, j \in K PROVE j + 1 \in K
  <2>1. SUFFICES ASSUME j + 1 <= n - 1 PROVE k[n + 1 - (j + 1)] = h[n + 1 - (j + 1)]
    OBVIOUS
  <2> DEFINE m == n + 1 - (j + 1)
  <2>2. m \in 2 .. n /\ m + 1 = n + 1 - j /\ m \in 1 .. n
    BY <2>1
  <2>3. k[n + 1 - j] = h[n + 1 - j]
    BY <1>5, <2>1
  <2> HIDE DEF m
  <2>4. k[m] = (k[m + 1] ** x) ++ poly2[m] /\ h[m] = (h[m + 1] ** x) ++ poly[m]
    BY <1>2, <1>3, <2>2 DEF HornerOf
  <2>5. k[m] = h[m]
    BY <1>1, <2>2, <2>3, <2>4
  <2>6. QED
    BY <2>5 DEF m
<1>6. \A j \in Nat : j \in K
  <2> HIDE DEF K
  <2> QED BY <1>4, <1>5, NatSetInduction
<1>7. k[2] = h[2]
  <2>1. n - 1 \in Nat /\ n - 1 <= n - 1 /\ n + 1 - (n - 1) = 2
    OBVIOUS
  <2>2. QED
    BY <1>6, <2>1
<1>8. k[1] = (k[2] ** x) ++ (poly[1] ++ c) /\ h[1] = (h[2] ** x) ++ poly[1]
  <2>1. 1 \in 1 .. n
    OBVIOUS
  <2>2. k[1] = (k[1 + 1] ** x) ++ poly2[1] /\ h[1] = (h[1 + 1] ** x) ++ poly[1]
    BY <1>2, <1>3, <2>1 DEF HornerOf
  <2>3. QED
    BY <1>1, <2>2
<1>9. (h[2] ** x) ++ (poly[1] ++ c) = ((h[2] ** x) ++ poly[1]) ++ c
  <2>1. h[2] \in Fr
    OBVIOUS
  <2>2. h[2] ** x \in Fr
    BY <2>1, FieldClosed
  <2>3. QED
    BY <1>0, <2>2, SumLaws
<1>10. QED
  BY <1>2, <1>3, <1>7, <1>8, <1>9 DEF HornerOf, poly2

\* The values of a polynomial times those of G.
PolyTimes(poly, G) == [x \in Fr |-> evaluate(poly, x) ** G[x]]

\* Multiplying with a polynomial of degree d costs d points: evaluate is d
\* multiplications with x and d + 1 additions.
LEMMA PolyTimesExact ==
  ASSUME NEW w, NEW u, NEW E, NEW e, Weights(w, u, E, e), NEW k \in Nat,
         NEW G \in Exact(w, E, e, k), NEW d \in Nat, NEW poly \in [1 .. d + 1 -> Fr]
  PROVE  PolyTimes(poly, G) \in Exact(w, E, e, k + d)
<1> DEFINE n == d + 1
           P(h, x) == h \in [1 .. n + 1 -> Fr] /\ HornerOf(h, poly, n, x)
           Hs == [x \in Fr |-> CHOOSE h : P(h, x)]
           Rest(m) == [x \in Fr |-> Hs[x][m] ** G[x]]
           K == {j \in Nat : j <= d => Rest(n - j) \in Exact(w, E, e, k + j)}
<1>1. n \in Nat /\ G \in [Fr -> Fr] /\ E \in SUBSET Fr
  <2>1. G \in [Fr -> Fr]
    BY DEF Exact
  <2>2. E \in SUBSET Fr
    BY DEF Weights
  <2>3. QED
    BY <2>1, <2>2
<1>2. ASSUME NEW x \in Fr PROVE P(Hs[x], x)
  <2>1. \E h : P(h, x)
    <3> HIDE DEF n
    <3> QED BY <1>1, Horner DEF n
  <2> HIDE DEF P
  <2>2. QED
    BY <2>1
<1> HIDE DEF Hs
<1>3. \A x \in Fr : \A m \in 1 .. n + 1 : Hs[x][m] \in Fr
  BY <1>2
<1>4. \A x \in Fr : \A m \in 1 .. n : Hs[x][m] = (Hs[x][m + 1] ** x) ++ poly[m]
  BY <1>2 DEF HornerOf
<1>5. \A x \in Fr : Hs[x][n + 1] = 0 /\ evaluate(poly, x) = Hs[x][1]
  BY <1>2 DEF HornerOf
<1>6. ASSUME NEW m \in 1 .. n + 1 PROVE Rest(m) \in [Fr -> Fr]
  BY <1>1, <1>3, FieldClosed
<1>7. 0 \in K
  <2>1. ASSUME NEW x \in Fr PROVE Hs[x][n] ** G[x] = poly[n] ** G[x]
    <3>1. n \in 1 .. n /\ poly[n] \in Fr
      OBVIOUS
    <3>2. Hs[x][n] = (0 ** x) ++ poly[n]
      BY <1>4, <1>5, <3>1
    <3>3. 0 ** x = 0 /\ 0 ++ poly[n] = poly[n]
      BY <3>1, ProductLaws, SumLaws
    <3>4. QED
      BY <3>2, <3>3
  <2>2. Rest(n) = Times(poly[n], G)
    BY <2>1 DEF Times
  <2>3. poly[n] \in Fr
    OBVIOUS
  <2>4. Times(poly[n], G) \in Exact(w, E, e, k)
    <3> HIDE DEF n
    <3> QED BY <2>3, ExactLinear
  <2>5. n - 0 = n /\ k + 0 = k
    OBVIOUS
  <2>6. QED
    BY <2>2, <2>4, <2>5
<1>8. ASSUME NEW j \in Nat, j \in K PROVE j + 1 \in K
  <2>1. SUFFICES ASSUME j + 1 <= d PROVE Rest(n - (j + 1)) \in Exact(w, E, e, k + (j + 1))
    OBVIOUS
  <2> DEFINE m == n - (j + 1)
  <2>2. m \in 1 .. n /\ m \in 1 .. n + 1 /\ m + 1 = n - j /\ m + 1 \in 1 .. n + 1
    BY <2>1
  <2>3. poly[m] \in Fr
    BY <2>2
  <2>4. Rest(m + 1) \in Exact(w, E, e, k + j)
    BY <1>8, <2>1, <2>2
  <2>5. TimesX(Rest(m + 1)) \in Exact(w, E, e, (k + j) + 1)
    <3>1. k + j \in Nat
      OBVIOUS
    <3> HIDE DEF Rest, m
    <3>2. QED
      BY <2>4, <3>1, TimesXExact
  <2>6. Times(poly[m], G) \in Exact(w, E, e, (k + j) + 1)
    <3>1. Times(poly[m], G) \in Exact(w, E, e, k)
      <4> HIDE DEF m, n
      <4> QED BY <2>3, ExactLinear
    <3>2. k <= (k + j) + 1 /\ (k + j) + 1 \in Nat
      OBVIOUS
    <3> HIDE DEF m, n
    <3>3. QED
      BY <1>1, <3>1, <3>2, ExactUp
  <2> DEFINE A == TimesX(Rest(m + 1))
             B == Times(poly[m], G)
  <2>7. Plus(A, B) \in Exact(w, E, e, (k + j) + 1)
    <3>1. (k + j) + 1 \in Nat
      OBVIOUS
    <3> HIDE DEF A, B
    <3>2. QED
      BY <2>5, <2>6, <3>1, ExactLinear, FieldNumbers DEF A, B
  <2>8. Rest(m) = Plus(A, B)
    <3>1. ASSUME NEW x \in Fr
          PROVE  Hs[x][m] ** G[x] = (x ** (Hs[x][m + 1] ** G[x])) ++ (poly[m] ** G[x])
      <4> DEFINE r == Hs[x][m + 1]
                 y == G[x]
                 p == poly[m]
      <4>1. Hs[x][m] = (r ** x) ++ p
        BY <1>4, <2>2
      <4>2. r \in Fr /\ y \in Fr /\ p \in Fr
        BY <1>1, <1>3, <2>2, <2>3
      <4> HIDE DEF r, y, p, m
      <4>3. r ** x \in Fr
        BY <4>2, FieldClosed
      <4>4. ((r ** x) ++ p) ** y = ((r ** x) ** y) ++ (p ** y)
        BY <4>2, <4>3, Distributivity
      <4>5. (r ** x) ** y = (x ** r) ** y
        BY <4>2, ProductLaws
      <4>6. (x ** r) ** y = x ** (r ** y)
        BY <4>2, ProductLaws
      <4>7. QED
        BY <4>1, <4>4, <4>5, <4>6 DEF r, y, p
    <3>2. QED
      BY <3>1 DEF Plus, TimesX, Times
  <2>9. (k + j) + 1 = k + (j + 1)
    OBVIOUS
  <2>10. QED
    <3> HIDE DEF A, B, Rest
    <3> QED BY <2>7, <2>8, <2>9
<1>9. \A j \in Nat : j \in K
  <2> HIDE DEF K
  <2> QED BY <1>7, <1>8, NatSetInduction
<1>10. Rest(1) \in Exact(w, E, e, k + d)
  <2>1. d <= d /\ n - d = 1
    OBVIOUS
  <2> HIDE DEF Rest, n
  <2>2. QED
    BY <1>9, <2>1
<1>11. Rest(1) = PolyTimes(poly, G)
  BY <1>5 DEF PolyTimes
<1>12. QED
  BY <1>10, <1>11

-----------------------------------------------------------------------------
(* The weights of the degree test and of the interpolation.                *)

\* Negatives.
LEMMA Negation ==
  ASSUME NEW a \in Fr, NEW b \in Fr
  PROVE  /\ 0 -- a \in Fr
         /\ (0 -- a) ** b = 0 -- (a ** b)
         /\ a -- b = 0 -- (b -- a)
<1>1. 0 -- a \in Fr /\ a ** b \in Fr /\ b -- a \in Fr /\ a -- b \in Fr /\ 0 \in Fr
  BY FieldClosed, FieldNumbers
<1>2. (0 -- a) ** b = 0 -- (a ** b)
  <2>1. (0 -- a) ++ a = 0
    BY <1>1, Differences
  <2>2. ((0 -- a) ++ a) ** b = ((0 -- a) ** b) ++ (a ** b)
    BY <1>1, Distributivity
  <2>3. 0 ** b = 0
    BY ProductLaws
  <2>4. (0 -- a) ** b \in Fr
    BY <1>1, FieldClosed
  <2>5. ((0 -- a) ** b) ++ (a ** b) = 0
    BY <2>1, <2>2, <2>3
  <2>6. QED
    BY <1>1, <2>4, <2>5, DifferenceUnique
<1>3. a -- b = 0 -- (b -- a)
  <2>1. (a -- b) ++ (b -- a) = 0
    <3>1. (b -- a) ++ a = b
      BY Differences
    <3>2. b ++ (0 -- b) = 0
      <4>1. 0 -- b \in Fr /\ (0 -- b) ++ b = 0
        BY <1>1, Differences, FieldClosed
      <4>2. QED
        BY <4>1, SumLaws
    <3>3. a -- b = a ++ (0 -- b) /\ 0 -- b \in Fr
      BY <1>1, Differences, FieldClosed
    <3>4. (a ++ (0 -- b)) ++ (b -- a) = (b -- a) ++ (a ++ (0 -- b))
      BY <1>1, <3>3, SumLaws
    <3>5. (b -- a) ++ (a ++ (0 -- b)) = ((b -- a) ++ a) ++ (0 -- b)
      BY <1>1, <3>3, SumLaws
    <3>6. QED
      BY <3>1, <3>2, <3>3, <3>4, <3>5
  <2>2. QED
    BY <1>1, <2>1, DifferenceUnique
<1>4. QED
  BY <1>1, <1>2, <1>3

\* The difference of two points has an inverse.
LEMMA Distinct ==
  ASSUME NEW a \in Fr, NEW b \in Fr, a # b
  PROVE  /\ a -- b \in Fr
         /\ a -- b # 0
         /\ inverse(a -- b) \in Fr
         /\ inverse(a -- b) # 0
         /\ (a -- b) ** inverse(a -- b) = 1
<1>1. a -- b \in Fr /\ a -- b # 0
  BY Differences, FieldClosed
<1>2. QED
  BY <1>1, Inverses

\* The weights of ensure_degree and of lagrange_interpolation (PolyOps.hpp),
\* and what multiplying with x - a leaves of the second ones.
DualWeight == [xy \in Fr \X Fr |-> IF xy[1] = xy[2] THEN 0 ELSE inverse(xy[1] -- xy[2])]

LagrangeWeight ==
  [xy \in Fr \X Fr |-> IF xy[1] = xy[2] THEN 0 ELSE xy[2] ** inverse(xy[2] -- xy[1])]
Negative == [x \in Fr |-> 0 -- x]

\* The weights of ensure_degree cancel as Weights requires, with the value 0
\* at 0.
LEMMA DualWeights == Weights(DualWeight, One, Fr, 0)
<1>1. \A x, y \in Fr : DualWeight[x, y] = IF x = y THEN 0 ELSE inverse(x -- y)
  BY DEF DualWeight
<1>2. DualWeight \in [Fr \X Fr -> Fr]
  BY Distinct, FieldNumbers DEF DualWeight
<1>3. One \in [Fr -> Fr]
  BY FieldNumbers DEF One
<1>4. ASSUME NEW x \in Fr, NEW a \in Fr, x # a
      PROVE  (x -- a) ** DualWeight[x, a] = One[a]
  <2>1. DualWeight[x, a] = inverse(x -- a)
    BY <1>1, <1>4
  <2>2. (x -- a) ** inverse(x -- a) = 1
    BY <1>4, Distinct
  <2>3. QED
    BY <2>1, <2>2 DEF One
<1>5. ASSUME NEW a \in Fr PROVE One[a] ** 0 = (0 -- a) ** 0
  BY <1>3, ProductLaws, FieldClosed, FieldNumbers
<1>6. QED
  BY <1>2, <1>3, <1>4, <1>5, FieldNumbers DEF Weights

\* Those of lagrange_interpolation do so at points other than 0, with the
\* value 1.
LEMMA LagrangeWeights == Weights(LagrangeWeight, Negative, Fr \ {0}, 1)
<1>1. \A x, y \in Fr : LagrangeWeight[x, y] = IF x = y THEN 0 ELSE y ** inverse(y -- x)
  BY DEF LagrangeWeight
<1>2. LagrangeWeight \in [Fr \X Fr -> Fr]
  <2>1. ASSUME NEW x \in Fr, NEW y \in Fr, x # y PROVE y ** inverse(y -- x) \in Fr
    <3>1. inverse(y -- x) \in Fr
      BY <2>1, Distinct
    <3>2. QED
      BY <3>1, FieldClosed
  <2>2. QED
    BY <2>1, FieldNumbers DEF LagrangeWeight
<1>3. Negative \in [Fr -> Fr]
  BY FieldClosed, FieldNumbers DEF Negative
<1>4. ASSUME NEW x \in Fr, NEW a \in Fr, x # a
      PROVE  (x -- a) ** LagrangeWeight[x, a] = Negative[a]
  <2> DEFINE v == inverse(a -- x)
             d == a -- x
             nd == x -- a
  <2>1. LagrangeWeight[x, a] = a ** v
    BY <1>1, <1>4
  <2>2. v \in Fr /\ d \in Fr /\ nd \in Fr /\ d ** v = 1
    BY <1>4, Distinct
  <2>3. nd = 0 -- d
    BY Negation
  <2> HIDE DEF v, d, nd
  <2>4. nd ** v = 0 -- 1
    BY <2>2, <2>3, Negation
  <2>5. nd ** (a ** v) = (nd ** a) ** v
    BY <2>2, ProductLaws
  <2>6. (nd ** a) ** v = (a ** nd) ** v
    BY <2>2, ProductLaws
  <2>7. (a ** nd) ** v = a ** (nd ** v)
    BY <2>2, ProductLaws
  <2>8. a ** (0 -- 1) = 0 -- a
    <3>1. 0 -- 1 \in Fr
      BY FieldClosed, FieldNumbers
    <3>2. (0 -- 1) ** a = 0 -- (1 ** a)
      BY Negation, FieldNumbers
    <3>3. 1 ** a = a
      BY ProductLaws
    <3>4. QED
      BY <3>1, <3>2, <3>3, ProductLaws
  <2>9. QED
    BY <2>1, <2>4, <2>5, <2>6, <2>7, <2>8 DEF Negative, nd
<1>5. ASSUME NEW a \in Fr PROVE Negative[a] ** 1 = (0 -- a) ** 1
  BY DEF Negative
<1>6. QED
  BY <1>2, <1>3, <1>4, <1>5, FieldNumbers DEF Weights

\* On two points the weights of ensure_degree cancel.
LEMMA OneDual == One \in Exact(DualWeight, Fr, 0, 2)
<1> DEFINE w == DualWeight
<1>1. /\ w \in [Fr \X Fr -> Fr]
      /\ \A x, a \in Fr : x # a => (x -- a) ** w[x, a] = One[a]
  BY DualWeights DEF Weights
<1>2. One \in [Fr -> Fr] /\ \A x \in Fr : One[x] = 1
  BY FieldNumbers DEF One
<1>3. ASSUME NEW D \in SUBSET Fr, Cardinality(D) = 2
      PROVE  Lin(w, D, One) = 0
  <2>1. IsFiniteSet(D)
    BY FieldNumbers, FS_Subset
  <2>2. PICK a \in D : TRUE
    BY <1>3, FS_EmptySet
  <2>3. IsFiniteSet(D \ {a}) /\ Cardinality(D \ {a}) = 1
    BY <1>3, <2>1, CardinalityRemove
  <2>4. PICK b : D \ {a} = {b}
    BY <2>3, FS_Singleton
  <2>5. a \in Fr /\ b \in Fr /\ a # b /\ D = {a, b} /\ D \ {b} = {a} /\ b \in D
    BY <2>4
  <2> DEFINE A == Weighted(w, D, One)
             v(x, y) == w[x, y]
  <2>6. ASSUME NEW x \in D, NEW y \in D, D \ {x} = {y}
        PROVE  A[x] = w[x, y]
    <3>1. Row(w, x) \in [Fr -> Fr] /\ Row(w, x)[y] = w[x, y]
      BY <1>1, WeightType DEF Row
    <3>2. {y} \in SUBSET Fr /\ y \in {y} /\ {y} \ {y} = {}
      OBVIOUS
    <3>3. ProductOn(Row(w, x), {y}) = Row(w, x)[y] ** ProductOn(Row(w, x), {y} \ {y})
      BY <3>1, <3>2, SumOnSplit
    <3>4. ProductOn(Row(w, x), {}) = 1
      BY <3>1, EmptySums, FieldNumbers
    <3>5. w[x, y] \in Fr
      BY <1>1
    <3>6. Weight(w, D, x) = w[x, y]
      BY <2>6, <3>1, <3>2, <3>3, <3>4, <3>5, ProductLaws DEF Weight
    <3>7. A[x] = 1 ** w[x, y]
      BY <1>2, <3>6 DEF Weighted
    <3>8. QED
      BY <3>5, <3>7, ProductLaws
  <2>7. A \in [Fr -> Fr]
    BY <1>1, <1>2, LinType
  <2>8. Lin(w, D, One) = w[a, b] ++ w[b, a]
    <3>1. A[a] = w[a, b] /\ A[b] = w[b, a]
      BY <2>4, <2>5, <2>6
    <3> HIDE DEF A
    <3>2. SumOn(A, D) = A[a] ++ SumOn(A, D \ {a})
      BY <2>7, SumOnSplit
    <3>3. SumOn(A, {b}) = A[b] ++ SumOn(A, {b} \ {b})
      BY <2>5, <2>7, SumOnSplit
    <3>4. SumOn(A, {}) = 0 /\ {b} \ {b} = {}
      BY <2>7, EmptySums, FieldNumbers
    <3>5. A[b] ++ 0 = A[b]
      BY <2>5, <2>7, SumLaws
    <3>6. QED
      BY <2>4, <3>1, <3>2, <3>3, <3>4, <3>5 DEF Lin, A
  <2> DEFINE p == w[a, b]
             q == w[b, a]
             d == a -- b
             nd == b -- a
  <2>9. p \in Fr /\ q \in Fr /\ d \in Fr /\ nd \in Fr /\ d # 0 /\ d ** p = 1 /\ nd ** q = 1
    <3>1. p \in Fr /\ q \in Fr
      BY <1>1, <2>5
    <3>2. d \in Fr /\ nd \in Fr /\ d # 0
      BY <2>5, Distinct
    <3>3. d ** p = One[b] /\ nd ** q = One[a]
      BY <1>1, <2>5
    <3>4. QED
      BY <1>2, <2>5, <3>1, <3>2, <3>3
  <2>10. d = 0 -- nd
    BY <2>5, Negation
  <2> HIDE DEF p, q, d, nd
  <2>11. d ** q = 0 -- 1
    BY <2>9, <2>10, Negation
  <2>12. d ** (p ++ q) = 1 ++ (0 -- 1)
    BY <2>9, <2>11, Distributivity
  <2>13. 1 ++ (0 -- 1) = 0
    <3>1. 0 -- 1 \in Fr /\ (0 -- 1) ++ 1 = 0
      BY FieldNumbers, FieldClosed, Differences
    <3>2. QED
      BY <3>1, SumLaws, FieldNumbers
  <2>14. p ++ q = 0
    <3>1. d ** 0 = 0 /\ p ++ q \in Fr /\ 0 \in Fr
      BY <2>9, ProductLaws, FieldClosed, FieldNumbers
    <3>2. QED
      BY <2>9, <2>12, <2>13, <3>1, ProductCancellation
  <2>15. QED
    BY <2>8, <2>14 DEF p, q
<1>4. QED
  <2> HIDE DEF w
  <2>1. Weights(w, One, Fr, 0)
    BY DualWeights DEF w
  <2>2. One \in Exact(w, Fr, 0, 2)
    BY <1>3, <2>1, OneExact
  <2>3. QED
    BY <2>2 DEF w

\* On one point the weight of lagrange_interpolation is 1.
LEMMA OneLagrange == One \in Exact(LagrangeWeight, Fr \ {0}, 1, 1)
<1> DEFINE w == LagrangeWeight
           E == Fr \ {0}
<1>1. w \in [Fr \X Fr -> Fr]
  BY LagrangeWeights DEF Weights
<1>2. One \in [Fr -> Fr] /\ \A x \in Fr : One[x] = 1
  BY FieldNumbers DEF One
<1>3. ASSUME NEW D \in SUBSET E, Cardinality(D) = 1
      PROVE  Lin(w, D, One) = 1
  <2>1. IsFiniteSet(D) /\ D \in SUBSET Fr
    BY FieldNumbers, FS_Subset
  <2>2. PICK a : D = {a}
    BY <1>3, <2>1, FS_Singleton
  <2>3. a \in Fr /\ D \ {a} = {} /\ a \in D
    BY <2>1, <2>2
  <2> DEFINE A == Weighted(w, D, One)
  <2>4. A \in [Fr -> Fr]
    BY <1>1, <1>2, <2>1, LinType
  <2>5. A[a] = 1
    <3>1. Row(w, a) \in [Fr -> Fr]
      BY <1>1, <2>3, WeightType
    <3>2. ProductOn(Row(w, a), {}) = 1
      BY <3>1, EmptySums, FieldNumbers
    <3>3. 1 ** 1 = 1
      BY ProductLaws, FieldNumbers
    <3>4. QED
      BY <1>2, <2>3, <3>2, <3>3 DEF Weighted, Weight
  <2> HIDE DEF A
  <2>6. SumOn(A, D) = A[a] ++ SumOn(A, D \ {a})
    BY <2>1, <2>3, <2>4, SumOnSplit
  <2>7. SumOn(A, {}) = 0
    BY <2>4, EmptySums, FieldNumbers
  <2>8. 1 ++ 0 = 1
    BY SumLaws, FieldNumbers
  <2>9. QED
    BY <2>3, <2>5, <2>6, <2>7, <2>8 DEF Lin, A
<1>4. QED
  <2> HIDE DEF w, E
  <2>1. Weights(w, Negative, E, 1)
    BY LagrangeWeights DEF w, E
  <2>2. One \in Exact(w, E, 1, 1)
    BY <1>3, <2>1, OneExact
  <2>3. QED
    BY <2>2 DEF w, E

-----------------------------------------------------------------------------
(* Polynomials.                                                            *)

\* The functions that behave like the polynomials of a degree.
OfDegree(t) == Exact(DualWeight, Fr, 0, t + 2) \cap Exact(LagrangeWeight, Fr \ {0}, 1, t + 1)

\* The values of a polynomial.
Values(poly) == [x \in Fr |-> evaluate(poly, x)]

\* A polynomial is one of its degree.
LEMMA PolynomialsOfDegree ==
  ASSUME NEW t \in Nat, NEW poly \in Polynomials(t)
  PROVE  Values(poly) \in OfDegree(t)
<1>1. poly \in [1 .. t + 1 -> Fr] /\ t + 1 \in Nat
  BY DEF Polynomials
<1>2. PolyTimes(poly, One) \in Exact(DualWeight, Fr, 0, 2 + t)
  BY <1>1, DualWeights, OneDual, PolyTimesExact
<1>3. PolyTimes(poly, One) \in Exact(LagrangeWeight, Fr \ {0}, 1, 1 + t)
  BY <1>1, LagrangeWeights, OneLagrange, PolyTimesExact
<1>4. PolyTimes(poly, One) = Values(poly)
  <2>1. ASSUME NEW x \in Fr PROVE evaluate(poly, x) ** One[x] = evaluate(poly, x)
    <3>1. evaluate(poly, x) \in Fr
      BY <1>1, EvaluateType
    <3>2. QED
      BY <3>1, ProductLaws DEF One
  <2>2. QED
    BY <2>1 DEF PolyTimes, Values
<1>5. 2 + t = t + 2 /\ 1 + t = t + 1
  OBVIOUS
<1>6. QED
  BY <1>2, <1>3, <1>4, <1>5 DEF OfDegree

\* The pointwise sum of the functions FF[k] for k in T.
PointwiseSum(FF, T) == [x \in Fr |-> SumOn([k \in DOMAIN FF |-> FF[k][x]], T)]

\* A sum of any number of exact functions is exact.
LEMMA SumExact ==
  ASSUME NEW w, NEW u, NEW E, NEW e, Weights(w, u, E, e), NEW n \in Nat,
         NEW Z \in Exact(w, E, e, n), NEW S, IsFiniteSet(S),
         NEW FF \in [S -> Exact(w, E, e, n)]
  PROVE  PointwiseSum(FF, S) \in Exact(w, E, e, n)
<1> DEFINE At(x) == [k \in DOMAIN FF |-> FF[k][x]]
           Q == {T \in SUBSET S : PointwiseSum(FF, T) \in Exact(w, E, e, n)}
<1>1. Z \in [Fr -> Fr] /\ \A k \in S : FF[k] \in [Fr -> Fr]
  BY DEF Exact
<1>2. ASSUME NEW x \in Fr PROVE At(x) \in [S -> Fr]
  BY <1>1
<1>3. {} \in Q
  <2>1. PointwiseSum(FF, {}) = Times(0, Z)
    <3>1. ASSUME NEW x \in Fr PROVE SumOn(At(x), {}) = 0 ** Z[x]
      <4>1. SumOn(At(x), {}) = 0
        <5> HIDE DEF At
        <5> QED BY <1>2, EmptySums
      <4>2. 0 ** Z[x] = 0
        BY <1>1, ProductLaws
      <4>3. QED
        BY <4>1, <4>2
    <3>2. QED
      BY <3>1 DEF PointwiseSum, Times
  <2>2. Times(0, Z) \in Exact(w, E, e, n)
    BY ExactLinear, FieldNumbers
  <2>3. QED
    BY <2>1, <2>2
<1>4. ASSUME NEW T \in SUBSET S, NEW a \in S \ T, T \in Q
      PROVE  T \cup {a} \in Q
  <2>1. PointwiseSum(FF, T \cup {a}) = Plus(FF[a], PointwiseSum(FF, T))
    <3>1. ASSUME NEW x \in Fr
          PROVE  SumOn(At(x), T \cup {a}) = FF[a][x] ++ SumOn(At(x), T)
      <4>1. At(x)[a] = FF[a][x]
        OBVIOUS
      <4> HIDE DEF At
      <4>2. SumOn(At(x), T \cup {a}) = At(x)[a] ++ SumOn(At(x), T)
        BY <1>2, TotalStep
      <4>3. QED
        BY <4>1, <4>2
    <3>2. QED
      BY <3>1 DEF PointwiseSum, Plus
  <2>2. PointwiseSum(FF, T) \in Exact(w, E, e, n) /\ FF[a] \in Exact(w, E, e, n)
    BY <1>4
  <2>3. Plus(FF[a], PointwiseSum(FF, T)) \in Exact(w, E, e, n)
    BY <2>2, ExactLinear, FieldNumbers
  <2>4. QED
    BY <2>1, <2>3
<1>5. \A T \in SUBSET S : T \in Q
  <2> HIDE DEF Q
  <2> QED BY <1>3, <1>4, FiniteSetInduction
<1>6. QED
  BY <1>5

\* So the sum of any number of polynomials, the aggregate, is one of their
\* degree.
LEMMA SumsOfDegree ==
  ASSUME NEW t \in Nat, NEW S, IsFiniteSet(S), NEW FF \in [S -> OfDegree(t)]
  PROVE  PointwiseSum(FF, S) \in OfDegree(t)
<1> DEFINE Zero == Values([i \in 1 .. t + 1 |-> 0])
           X1 == Exact(DualWeight, Fr, 0, t + 2)
           X2 == Exact(LagrangeWeight, Fr \ {0}, 1, t + 1)
<1>1. Zero \in OfDegree(t)
  <2>1. [i \in 1 .. t + 1 |-> 0] \in Polynomials(t)
    BY FieldNumbers DEF Polynomials
  <2>2. QED
    BY <2>1, PolynomialsOfDegree
<1> HIDE DEF Zero
<1>2. Zero \in X1 /\ Zero \in X2 /\ FF \in [S -> X1] /\ FF \in [S -> X2]
  BY <1>1 DEF OfDegree
<1>3. PointwiseSum(FF, S) \in X1
  BY <1>2, SumExact, DualWeights
<1>4. PointwiseSum(FF, S) \in X2
  BY <1>2, SumExact, LagrangeWeights
<1>5. QED
  BY <1>3, <1>4 DEF OfDegree

\* The words that ensure_degree draws are dual to the values of polynomials:
\* for any number of points, degree and polynomial, the inner product is 0
\* (PolyOps.hpp:119).
THEOREM DualCode ==
  ASSUME NEW t \in Nat, NEW d \in Nat, NEW num \in Nat, num < Prime, t + d + 2 <= num,
         NEW F \in OfDegree(t), NEW dual \in Polynomials(d)
  PROVE  Total([i \in 1 .. num |->
                  (evaluate(dual, i) ** Product([j \in (1 .. num) \ {i} |-> inverse(i -- j)]))
                    ** F[i]]) = 0
<1> DEFINE D == 1 .. num
           A == Weighted(DualWeight, D, PolyTimes(dual, F))
<1>1. D \in SUBSET Fr /\ Cardinality(D) = num
  <2>1. D \subseteq Fr
    BY FieldNumbers DEF Fr
  <2>2. Cardinality(D) = IF 1 > num THEN 0 ELSE num - 1 + 1
    BY FS_Interval
  <2>3. QED
    BY <2>1, <2>2
<1>2. dual \in [1 .. d + 1 -> Fr] /\ F \in [Fr -> Fr] /\ d + 1 \in Nat
  BY DEF Polynomials, OfDegree, Exact
<1>3. DualWeight \in [Fr \X Fr -> Fr]
  BY DualWeights DEF Weights
<1>4. PolyTimes(dual, F) \in Exact(DualWeight, Fr, 0, (t + 2) + d)
  <2>1. F \in Exact(DualWeight, Fr, 0, t + 2) /\ t + 2 \in Nat
    BY DEF OfDegree
  <2>2. QED
    BY <1>2, <2>1, DualWeights, PolyTimesExact
<1>5. Lin(DualWeight, D, PolyTimes(dual, F)) = 0
  <2>1. Cardinality(D) >= (t + 2) + d
    BY <1>1
  <2>2. Lin(DualWeight, D, PolyTimes(dual, F)) = 0 ** PolyTimes(dual, F)[0]
    BY <1>1, <1>4, <2>1 DEF Exact
  <2>3. PolyTimes(dual, F)[0] \in Fr
    <3>1. PolyTimes(dual, F) \in [Fr -> Fr]
      BY <1>4 DEF Exact
    <3>2. QED
      BY <3>1, FieldNumbers
  <2>4. QED
    BY <2>2, <2>3, ProductLaws
<1>6. ASSUME NEW i \in D
      PROVE  A[i] = (evaluate(dual, i) ** Product([j \in D \ {i} |-> inverse(i -- j)])) ** F[i]
  <2>1. i \in Fr /\ D \ {i} \in SUBSET Fr
    BY <1>1
  <2>2. [j \in D \ {i} |-> Row(DualWeight, i)[j]] = [j \in D \ {i} |-> inverse(i -- j)]
    BY <1>1, <2>1 DEF Row, DualWeight
  <2> DEFINE v == Product([j \in D \ {i} |-> inverse(i -- j)])
             r == evaluate(dual, i)
             f == F[i]
  <2>3. Weight(DualWeight, D, i) = v
    BY <2>2 DEF Weight, ProductOn
  <2>4. v \in Fr
    <3> HIDE DEF v
    <3> QED BY <1>1, <1>3, <2>1, <2>3, WeightType
  <2>5. r \in Fr /\ f \in Fr
    BY <1>2, <2>1, EvaluateType
  <2>6. A[i] = (r ** f) ** v
    BY <2>1, <2>3 DEF Weighted, PolyTimes
  <2> HIDE DEF v, r, f
  <2>7. (r ** f) ** v = r ** (f ** v)
    BY <2>4, <2>5, ProductLaws
  <2>8. f ** v = v ** f
    BY <2>4, <2>5, ProductLaws
  <2>9. r ** (v ** f) = (r ** v) ** f
    BY <2>4, <2>5, ProductLaws
  <2>10. QED
    BY <2>6, <2>7, <2>8, <2>9 DEF v, r, f
<1>7. [i \in D |-> A[i]] =
        [i \in D |-> (evaluate(dual, i) ** Product([j \in D \ {i} |-> inverse(i -- j)])) ** F[i]]
  <2> HIDE DEF A, D
  <2> QED BY <1>6
<1>8. QED
  BY <1>5, <1>7 DEF Lin, SumOn

\* lagrange_interpolation returns the value at 0, from any degree + 1
\* different points in any order, for any degree (PolyOps.hpp:73).
THEOREM Lagrange ==
  ASSUME NEW t \in Nat, NEW F \in OfDegree(t), NEW evals, NEW points,
         \A j \in 1 .. t + 1 : points[j] \in Fr \ {0} /\ evals[j] = F[points[j]],
         \A i, j \in 1 .. t + 1 : points[i] = points[j] => i = j
  PROVE  lagrange_interpolation(t, evals, points) = F[0]
<1> DEFINE U == 1 .. t + 1
           P == [j \in U |-> points[j]]
           X == {P[j] : j \in U}
           w == LagrangeWeight
           A == Weighted(w, X, F)
<1>1. /\ F \in [Fr -> Fr] /\ w \in [Fr \X Fr -> Fr]
      /\ IsFiniteSet(U) /\ Cardinality(U) = t + 1
  <2>1. F \in [Fr -> Fr]
    BY DEF OfDegree, Exact
  <2>2. w \in [Fr \X Fr -> Fr]
    BY LagrangeWeights DEF Weights
  <2>3. IsFiniteSet(U) /\ Cardinality(U) = t + 1
    BY FS_Interval
  <2>4. QED
    BY <2>1, <2>2, <2>3
<1>2. /\ P \in [U -> X] /\ Injective(P, U) /\ X \in SUBSET (Fr \ {0}) /\ X \in SUBSET Fr
  BY DEF Injective
<1>3. IsFiniteSet(X) /\ Cardinality(X) = t + 1
  <2>1. P \in Surjection(U, X)
    BY DEF Surjection
  <2>2. P \in Injection(U, X)
    BY <1>2 DEF Injection, IsInjective, Injective
  <2> HIDE DEF P, X, U
  <2>3. QED
    BY <1>1, <2>1, <2>2, FS_Surjection
<1>4. Lin(w, X, F) = F[0]
  <2>1. F \in Exact(w, Fr \ {0}, 1, t + 1)
    BY DEF OfDegree
  <2>2. Cardinality(X) >= t + 1
    BY <1>3
  <2> HIDE DEF X, w
  <2>3. Lin(w, X, F) = 1 ** F[0]
    BY <1>2, <2>1, <2>2 DEF Exact
  <2>4. QED
    BY <1>1, <2>3, FieldNumbers, ProductLaws
<1>5. A \in [Fr -> Fr]
  BY <1>1, <1>2, LinType
<1>6. ASSUME NEW j \in U
      PROVE  Product([m \in U \ {j} |-> points[m] ** inverse(points[m] -- points[j])]) ** evals[j]
               = A[P[j]]
  <2> DEFINE V == U \ {j}
             Y == X \ {P[j]}
             PV == [m \in V |-> P[m]]
             R == [y \in Y |-> Row(w, P[j])[y]]
  <2>1. P[j] \in Fr /\ evals[j] = F[P[j]] /\ P[j] = points[j]
    OBVIOUS
  <2>2. IsFiniteSet(V) /\ IsFiniteSet(Y) /\ Y \in SUBSET Fr
    BY <1>1, <1>2, <1>3, FS_Subset
  <2>3. PV \in [V -> Y] /\ Injective(PV, V) /\ Y = {PV[m] : m \in V}
    BY <1>2 DEF Injective
  <2>4. R \in [Y -> Fr]
    <3>1. Row(w, P[j]) \in [Fr -> Fr]
      <4> HIDE DEF P, w
      <4> QED BY <1>1, <2>1, WeightType
    <3> HIDE DEF P, w, Y
    <3>2. QED
      BY <2>2, <3>1
  <2>5. Product([m \in V |-> R[PV[m]]]) = Product(R)
    <3> HIDE DEF V, Y, PV, R
    <3> QED BY <2>2, <2>3, <2>4, ProductReindex
  <2>6. ASSUME NEW m \in V
        PROVE  R[PV[m]] = points[m] ** inverse(points[m] -- points[j])
    <3>1. PV[m] = points[m] /\ PV[m] \in Y /\ PV[m] \in Fr /\ P[j] = points[j] /\ P[j] \in Fr /\ PV[m] # P[j]
      BY <2>3
    <3>2. R[PV[m]] = w[P[j], PV[m]]
      BY <3>1 DEF Row
    <3>3. w[P[j], PV[m]] = PV[m] ** inverse(PV[m] -- P[j])
      <4> HIDE DEF P, PV
      <4> QED BY <3>1 DEF LagrangeWeight
    <3>4. QED
      BY <3>1, <3>2, <3>3
  <2>7. [m \in V |-> R[PV[m]]] = [m \in V |-> points[m] ** inverse(points[m] -- points[j])]
    <3> HIDE DEF V, R, PV
    <3> QED BY <2>6
  <2>8. Product(R) = Weight(w, X, P[j])
    BY DEF Weight, ProductOn
  <2> DEFINE v == Weight(w, X, P[j])
  <2>9. v \in Fr /\ F[P[j]] \in Fr
    BY <1>1, <1>2, <2>1, WeightType
  <2>10. A[P[j]] = F[P[j]] ** v
    BY <2>1 DEF Weighted
  <2>11. F[P[j]] ** v = v ** F[P[j]]
    <3> HIDE DEF v, P
    <3> QED BY <2>9, ProductLaws
  <2>12. QED
    <3> HIDE DEF A, P, PV, R, X, Y, w
    <3> QED BY <2>1, <2>5, <2>7, <2>8, <2>10, <2>11
<1> DEFINE AX == [x \in X |-> A[x]]
<1>7. AX \in [X -> Fr]
  BY <1>2, <1>5
<1>8. [j \in U |-> Product([m \in U \ {j} |-> points[m] ** inverse(points[m] -- points[j])]) ** evals[j]]
        = [j \in U |-> AX[P[j]]]
  <2>1. \A j \in U : AX[P[j]] = A[P[j]]
    BY <1>2
  <2> HIDE DEF A, AX, P, U
  <2> QED BY <1>6, <2>1
<1>9. Total([j \in U |-> AX[P[j]]]) = Total(AX)
  <2>1. /\ X = {P[j] : j \in U} /\ IsFiniteSet(U) /\ IsFiniteSet(X) /\ P \in [U -> X]
        /\ Injective(P, U) /\ AX \in [X -> Fr]
    BY <1>1, <1>2, <1>3, <1>7
  <2> HIDE DEF AX, P, X, U
  <2> QED BY <2>1, TotalReindex
<1>10. Total(AX) = Lin(w, X, F)
  BY DEF Lin, SumOn
<1>11. lagrange_interpolation(t, evals, points) = Total([j \in U |-> AX[P[j]]])
  <2> HIDE DEF AX, P, w
  <2> QED BY <1>8 DEF lagrange_interpolation
<1>12. QED
  BY <1>4, <1>9, <1>10, <1>11

-----------------------------------------------------------------------------
(* Sharings.                                                               *)

\* What Verify and DualVerify compare.
LEMMA ProofIdentity ==
  ASSUME NEW g \in Fr, NEW x \in Fr, NEW r \in Fr, NEW c \in Fr
  PROVE  (r ++ (x ** c)) ** g = (r ** g) ++ (c ** (x ** g))
<1>1. x ** c \in Fr
  BY FieldClosed
<1>2. (r ++ (x ** c)) ** g = (r ** g) ++ ((x ** c) ** g)
  BY <1>1, Distributivity
<1>3. (x ** c) ** g = (c ** x) ** g
  BY ProductLaws
<1>4. (c ** x) ** g = c ** (x ** g)
  BY ProductLaws
<1>5. QED
  BY <1>2, <1>3, <1>4

\* A proof of a logarithm is accepted, whatever the hash and the nonce
\* (Dleq.hpp).
LEMMA ProofsVerify ==
  ASSUME NEW g \in Fr, NEW x \in Fr, NEW r \in Fr
  PROVE  Verify(Prove(g, x ** g, x, r), g, x ** g)
<1> DEFINE gx == x ** g
           gr == r ** g
           c == Challenge(<<g, gx, gr>>)
<1>1. gx \in Fr /\ gr \in Fr
  BY FieldClosed
<1>2. c \in Fr
  <2>1. <<g, gx, gr>> \in Fr \X Fr \X Fr
    BY <1>1
  <2> HIDE DEF gx, gr
  <2>2. QED
    BY <2>1, ChallengeAssumption
<1>3. (r ++ (x ** c)) ** g = gr ++ (c ** gx)
  <2> HIDE DEF c
  <2> QED BY <1>2, ProofIdentity
<1>4. Prove(g, gx, x, r) = [gr |-> gr, pi |-> r ++ (x ** c)]
  BY DEF Prove
<1>5. QED
  BY <1>3, <1>4 DEF Verify

\* A proof that two logarithms are the same is accepted, whatever the hash and
\* the nonce.
LEMMA DualProofsVerify ==
  ASSUME NEW g \in Fr, NEW h \in Fr, NEW x \in Fr, NEW r \in Fr
  PROVE  DualVerify(DualProve(g, x ** g, h, x ** h, x, r), g, x ** g, h, x ** h)
<1> DEFINE gx == x ** g
           hx == x ** h
           gra == r ** g
           grb == r ** h
           c == Challenge(<<g, gx, h, hx, gra, grb>>)
<1>1. gx \in Fr /\ hx \in Fr /\ gra \in Fr /\ grb \in Fr
  BY FieldClosed
<1>2. c \in Fr
  <2>1. <<g, gx, h, hx, gra, grb>> \in Fr \X Fr \X Fr \X Fr \X Fr \X Fr
    BY <1>1
  <2> HIDE DEF gx, hx, gra, grb
  <2>2. QED
    BY <2>1, ChallengeAssumption
<1>3. (r ++ (x ** c)) ** g = gra ++ (c ** gx) /\ (r ++ (x ** c)) ** h = grb ++ (c ** hx)
  <2> HIDE DEF c
  <2> QED BY <1>2, ProofIdentity
<1>4. DualProve(g, gx, h, hx, x, r) = [gra |-> gra, grb |-> grb, pi |-> r ++ (x ** c)]
  BY DEF DualProve
<1>5. QED
  BY <1>3, <1>4 DEF DualVerify

\* The thresholds: what num_faults and the degree drawn by ensure_degree are.
\* With one replica N - num_faults - 2 is negative and wraps.
LEMMA Sizes ==
  /\ num_faults \in Nat
  /\ num_faults + 1 <= N
  /\ Point \subseteq Fr \ {0}
  /\ N \in Nat
  /\ N < Prime
  /\ N >= 2 => /\ N - num_faults - 2 \in Nat
               /\ DualDegree(N, num_faults) = N - num_faults - 2
<1>1. /\ N \in Nat \ {0} /\ N < Prime /\ N <= SizeMax /\ SizeMax \in Nat /\ Prime \in Nat
      /\ num_faults = (N - 1) \div 2
  BY NAssumption, PointsAssumption, SizeAssumption, FieldNumbers DEF num_faults
<1> DEFINE t == (N - 1) \div 2
<1>2. t \in Nat /\ 2 * t <= N - 1 /\ N - 1 < 2 * t + 2
  BY <1>1
<1>3. Point \subseteq Fr \ {0}
  BY <1>1 DEF Point, Fr
<1>4. ASSUME N >= 2
      PROVE  N - t - 2 \in Nat /\ (N - t - 2) % (SizeMax + 1) = N - t - 2
  <2> HIDE DEF t
  <2>1. N - t - 2 \in Nat /\ N - t - 2 < SizeMax + 1 /\ SizeMax + 1 \in Nat
    BY <1>1, <1>2, <1>4
  <2>2. QED
    BY <2>1
<1>5. QED
  <2>1. N >= 2 => /\ N - num_faults - 2 \in Nat
               /\ DualDegree(N, num_faults) = N - num_faults - 2
    BY <1>1, <1>4 DEF DualDegree
  <2> HIDE DEF t
  <2>2. t + 1 <= N
    BY <1>1, <1>2
  <2>3. QED
    BY <1>1, <1>2, <1>3, <2>1, <2>2 DEF t

\* The keys of a context.
Keys == [Point -> Fr \ {0}]

\* F holds what a sharing, or an aggregate, was made of.
Commits(s, F) ==
  /\ s.commitments = [i \in Point |-> F[i]]
  /\ s.encryptions = [i \in Point |-> F[i] ** pk_map[i]]

Deals(s, F) ==
  /\ Commits(s, F)
  /\ s.decomp_pi.gs = F[0]
  /\ s.secret = F[0]
  /\ Verify(s.decomp_pi.pi, 1, s.decomp_pi.gs)
  /\ \A i \in Point :
       DualVerify(s.dleq_proofs[i], pk_map[i], s.encryptions[i], 1, s.commitments[i])

\* The sharings that create_sharing makes.
HonestSharings ==
  {create_sharing(poly, r) : poly \in Polynomials(num_faults), r \in [0 .. N -> Fr]}

\* What create_sharing makes holds the values of a polynomial, and all its
\* proofs verify (pvss.hpp).
LEMMA SharingOfPolynomial ==
  ASSUME secret_keys \in Keys, NEW s \in HonestSharings
  PROVE  \E F \in OfDegree(num_faults) : Deals(s, F)
<1>1. PICK poly \in Polynomials(num_faults), r \in [0 .. N -> Fr] : s = create_sharing(poly, r)
  BY DEF HonestSharings
<1>0. r[0] \in Fr /\ \A i \in Point : r[i] \in Fr
  BY Sizes DEF Point
<1> DEFINE F == Values(poly)
           t == num_faults
<1>2. F \in OfDegree(t) /\ t \in Nat /\ Point \subseteq Fr \ {0}
  BY Sizes, PolynomialsOfDegree
<1>3. poly \in [1 .. t + 1 -> Fr] /\ poly[1] \in Fr /\ F[0] = poly[1]
  <2>1. poly \in [1 .. t + 1 -> Fr] /\ t + 1 \in Nat \ {0}
    BY <1>2 DEF Polynomials
  <2> HIDE DEF t
  <2>2. evaluate(poly, 0) = poly[1]
    BY <2>1, EvaluateAtZero
  <2>3. QED
    BY <1>2, <2>1, <2>2, FieldNumbers DEF Values
<1>4. \A i \in Point : F[i] = evaluate(poly, i) /\ F[i] \in Fr
  <2>1. F \in [Fr -> Fr]
    BY <1>2 DEF OfDegree, Exact
  <2>2. \A i \in Point : i \in Fr /\ F[i] = evaluate(poly, i)
    BY <1>2 DEF Values
  <2> HIDE DEF F
  <2>3. QED
    BY <2>1, <2>2
<1>5. \A i \in Point : pk_map[i] \in Fr
  BY DEF pk_map, Keys
<1> DEFINE p == poly[1]
           evals == [i \in Point |-> evaluate(poly, i)]
           encs == [i \in Point |-> evals[i] ** pk_map[i]]
<1>6. /\ s.commitments = evals
      /\ s.encryptions = encs
      /\ s.dleq_proofs = [i \in Point |-> DualProve(pk_map[i], encs[i], 1, evals[i], evals[i], r[i])]
      /\ s.decomp_pi.gs = p
      /\ s.decomp_pi.pi = Prove(1, p, p, r[0])
      /\ s.secret = p
  BY <1>1 DEF create_sharing, get_secret
<1>7. Commits(s, F)
  <2>1. evals = [i \in Point |-> F[i]] /\ encs = [i \in Point |-> F[i] ** pk_map[i]]
    BY <1>4
  <2>2. QED
    BY <1>6, <2>1 DEF Commits
<1>8. Verify(s.decomp_pi.pi, 1, s.decomp_pi.gs)
  <2>1. p ** 1 = p
    BY <1>3, ProductLaws
  <2>2. Verify(Prove(1, p ** 1, p, r[0]), 1, p ** 1)
    BY <1>0, <1>3, ProofsVerify, FieldNumbers
  <2>3. QED
    BY <1>6, <2>1, <2>2
<1>9. ASSUME NEW i \in Point
      PROVE  DualVerify(s.dleq_proofs[i], pk_map[i], s.encryptions[i], 1, s.commitments[i])
  <2> DEFINE x == F[i]
             g == pk_map[i]
  <2>1. x \in Fr /\ g \in Fr /\ x ** 1 = x
    BY <1>4, <1>5, ProductLaws
  <2>2. s.commitments[i] = x /\ s.encryptions[i] = x ** g
    BY <1>4, <1>6
  <2>3. s.dleq_proofs[i] = DualProve(g, x ** g, 1, x, x, r[i])
    BY <1>4, <1>6
  <2> HIDE DEF x, g
  <2>4. DualVerify(DualProve(g, x ** g, 1, x ** 1, x, r[i]), g, x ** g, 1, x ** 1)
    BY <1>0, <2>1, DualProofsVerify, FieldNumbers
  <2>5. QED
    BY <2>1, <2>2, <2>3, <2>4 DEF g
<1>10. QED
  <2> HIDE DEF F, p
  <2> QED BY <1>2, <1>3, <1>6, <1>7, <1>8, <1>9 DEF p, Deals

\* ensure_degree accepts the values of a polynomial of degree num_faults,
\* whatever it draws.
LEMMA DegreeAccepted ==
  ASSUME N >= 2, NEW F \in OfDegree(num_faults), NEW dual \in Duals(N, num_faults)
  PROVE  ensure_degree([i \in Point |-> F[i]], num_faults, dual)
<1> DEFINE evals == [i \in Point |-> F[i]]
           d == N - num_faults - 2
           cperp(i) == evaluate(dual, i) ** Product([j \in Point \ {i} |-> inverse(i -- j)])
<1>1. /\ num_faults \in Nat /\ N \in Nat /\ N < Prime /\ d \in Nat /\ num_faults + d + 2 <= N
      /\ num_faults <= N
  BY Sizes
<1>2. dual \in Polynomials(d)
  BY Sizes DEF Duals
<1>3. Len(evals) = N
  BY <1>1 DEF Point
<1>4. Total([i \in 1 .. N |->
                  (evaluate(dual, i) ** Product([j \in (1 .. N) \ {i} |-> inverse(i -- j)]))
                    ** F[i]]) = 0
  <2> HIDE DEF d
  <2> QED BY <1>1, <1>2, DualCode
<1>5. [i \in Point |-> cperp(i) ** evals[i]] = [i \in Point |-> cperp(i) ** F[i]]
  OBVIOUS
<1>6. Total([i \in Point |-> cperp(i) ** evals[i]]) = 0
  BY <1>4, <1>5 DEF Point
<1>7. Total([i \in 1 .. N |->
                  (evaluate(dual, i) ** Product([j \in (1 .. N) \ {i} |-> inverse(i -- j)]))
                    ** evals[i]]) = 0
  BY <1>6 DEF Point
<1>8. N >= num_faults
  BY <1>1
<1> HIDE DEF evals
<1>9. ensure_degree(evals, num_faults, dual)
  BY <1>3, <1>7, <1>8 DEF ensure_degree
<1>10. QED
  BY <1>9 DEF evals

\* The overload of lagrange_interpolation without points returns the value at
\* 0.
LEMMA InterpolationAtIndexes ==
  ASSUME NEW F \in OfDegree(num_faults)
  PROVE  lagrange_interpolation(num_faults, [i \in Point |-> F[i]], AtIndexes(N)) = F[0]
<1> DEFINE evals == [i \in Point |-> F[i]]
           points == AtIndexes(N)
           t == num_faults
<1>1. t \in Nat /\ 1 .. t + 1 \subseteq Point
  BY Sizes DEF Point
<1>2. \A j \in 1 .. t + 1 : points[j] = j /\ evals[j] = F[j] /\ j \in Fr \ {0}
  BY <1>1, Sizes DEF AtIndexes, Point
<1>3. \A i, j \in 1 .. t + 1 : points[i] = points[j] => i = j
  BY <1>2
<1> HIDE DEF evals, points, t
<1>4. lagrange_interpolation(t, evals, points) = F[0]
  BY <1>1, <1>2, <1>3, Lagrange DEF t
<1>5. QED
  BY <1>4 DEF evals, points, t

-----------------------------------------------------------------------------
(* Aggregates, decryptions and the beacon.                                 *)

\* Polynomials take values in the field.
LEMMA OfDegreeType ==
  ASSUME NEW t, NEW F \in OfDegree(t)
  PROVE  F \in [Fr -> Fr] /\ F[0] \in Fr
BY FieldNumbers DEF OfDegree, Exact

\* What an aggregate of honest sharings is.
Aggregates(a, F) ==
  /\ Commits(a, F)
  /\ DecompositionSum(a) = F[0]
  /\ \A k \in DOMAIN a.decomposition : Verify(a.decomposition[k].pi, 1, a.decomposition[k].gs)

\* The sum of the secrets of sharings.
SecretOf(vec) == Total([k \in DOMAIN vec |-> vec[k].secret])

\* aggregate (pvss.hpp) of any number of sharings is a sharing of the sum of
\* their polynomials.
THEOREM AggregateOfSharings ==
  ASSUME secret_keys \in Keys, NEW vec \in Seq(HonestSharings), NEW ids
  PROVE  \E F \in OfDegree(num_faults) :
           Aggregates(aggregate(vec, ids), F) /\ SecretOf(vec) = F[0]
<1> DEFINE S == DOMAIN vec
           t == num_faults
           FF == [k \in S |-> CHOOSE F \in OfDegree(t) : Deals(vec[k], F)]
           F == PointwiseSum(FF, S)
           a == aggregate(vec, ids)
<1>1. IsFiniteSet(S) /\ t \in Nat /\ Point \subseteq Fr /\ 0 \in Fr
  <2>1. S = 1 .. Len(vec) /\ Len(vec) \in Nat
    OBVIOUS
  <2>2. IsFiniteSet(1 .. Len(vec))
    BY <2>1, FS_Interval
  <2>3. QED
    BY <2>1, <2>2, Sizes, FieldNumbers
<1>2. \A k \in S : FF[k] \in OfDegree(t) /\ Deals(vec[k], FF[k])
  <2>1. SUFFICES ASSUME NEW k \in S PROVE FF[k] \in OfDegree(t) /\ Deals(vec[k], FF[k])
    OBVIOUS
  <2>2. vec[k] \in HonestSharings
    OBVIOUS
  <2>3. \E G \in OfDegree(t) : Deals(vec[k], G)
    BY <2>2, SharingOfPolynomial
  <2>4. QED
    BY <2>3
<1>3. FF \in [S -> OfDegree(t)]
  BY <1>2
<1> HIDE DEF FF
<1>4. F \in OfDegree(t)
  <2> HIDE DEF S, t
  <2> QED BY <1>1, <1>3, SumsOfDegree
<1>5. \A k \in S : FF[k] \in [Fr -> Fr]
  BY <1>2, OfDegreeType
<1> DEFINE At(x) == [k \in S |-> FF[k][x]]
<1>6. \A x \in Fr : At(x) \in [S -> Fr] /\ F[x] = Total(At(x))
  <2>1. SUFFICES ASSUME NEW x \in Fr PROVE At(x) \in [S -> Fr] /\ F[x] = Total(At(x))
    OBVIOUS
  <2>2. At(x) \in [S -> Fr]
    BY <1>5
  <2>3. DOMAIN FF = S
    BY <1>3
  <2> HIDE DEF S
  <2>4. F[x] = SumOn(At(x), S)
    BY <2>3 DEF PointwiseSum
  <2> HIDE DEF At
  <2>5. QED
    BY <2>2, <2>4, Wholes
<1>7. a.commitments = [j \in Point |-> F[j]]
  <2>1. ASSUME NEW j \in Point
        PROVE  Total([k \in S |-> vec[k].commitments[j]]) = F[j]
    <3>1. \A k \in S : vec[k].commitments[j] = FF[k][j]
      BY <1>2 DEF Deals, Commits
    <3>2. [k \in S |-> vec[k].commitments[j]] = At(j)
      BY <3>1
    <3>3. j \in Fr
      BY <1>1
    <3> HIDE DEF S, F, At
    <3>4. QED
      BY <1>6, <3>2, <3>3
  <2>2. a.commitments = [j \in Point |-> Total([k \in S |-> vec[k].commitments[j]])]
    BY DEF aggregate
  <2> HIDE DEF F, S, a
  <2>3. QED
    BY <2>1, <2>2
<1>8. a.encryptions = [j \in Point |-> F[j] ** pk_map[j]]
  <2>1. ASSUME NEW j \in Point
        PROVE  Total([k \in S |-> vec[k].encryptions[j]]) = F[j] ** pk_map[j]
    <3> DEFINE c == pk_map[j]
    <3>1. j \in Fr /\ c \in Fr
      BY <1>1 DEF pk_map, Keys
    <3>2. \A k \in S : vec[k].encryptions[j] = c ** At(j)[k]
      <4>1. SUFFICES ASSUME NEW k \in S PROVE vec[k].encryptions[j] = c ** At(j)[k]
        OBVIOUS
      <4>2. vec[k].encryptions[j] = FF[k][j] ** c
        BY <1>2 DEF Deals, Commits
      <4>3. At(j)[k] = FF[k][j] /\ FF[k][j] \in Fr
        BY <1>5, <3>1
      <4> HIDE DEF At, c, S
      <4>4. FF[k][j] ** c = c ** FF[k][j]
        BY <3>1, <4>3, ProductLaws
      <4>5. QED
        BY <4>2, <4>3, <4>4
    <3>3. [k \in S |-> vec[k].encryptions[j]] = [k \in S |-> c ** At(j)[k]]
      <4> HIDE DEF At, c, S
      <4> QED BY <3>2
    <3> HIDE DEF S, F, At, c
    <3>4. Total([k \in S |-> c ** At(j)[k]]) = c ** Total(At(j))
      BY <1>1, <1>6, <3>1, TotalOfMultiples
    <3>5. Total(At(j)) = F[j] /\ F[j] \in Fr
      BY <1>1, <1>6, <3>1, TotalType
    <3>6. c ** F[j] = F[j] ** c
      BY <3>1, <3>5, ProductLaws
    <3>7. QED
      BY <3>3, <3>4, <3>5, <3>6 DEF c
  <2>2. a.encryptions = [j \in Point |-> Total([k \in S |-> vec[k].encryptions[j]])]
    BY DEF aggregate
  <2> HIDE DEF F, S, a
  <2>3. QED
    BY <2>1, <2>2
<1>9. a.decomposition = [k \in S |-> vec[k].decomp_pi]
  BY DEF aggregate
<1>10. DecompositionSum(a) = F[0]
  <2>1. \A k \in S : a.decomposition[k].gs = At(0)[k]
    BY <1>2, <1>9 DEF Deals
  <2>2. DOMAIN a.decomposition = S
    BY <1>9
  <2>3. [k \in DOMAIN a.decomposition |-> a.decomposition[k].gs] = At(0)
    BY <2>1, <2>2
  <2> HIDE DEF F, At, a
  <2>4. QED
    BY <1>1, <1>6, <2>3 DEF DecompositionSum
<1>11. SecretOf(vec) = F[0]
  <2>1. [k \in DOMAIN vec |-> vec[k].secret] = At(0)
    BY <1>2 DEF Deals
  <2> HIDE DEF F, At
  <2>2. QED
    BY <1>1, <1>6, <2>1 DEF SecretOf
<1>12. \A k \in DOMAIN a.decomposition :
         Verify(a.decomposition[k].pi, 1, a.decomposition[k].gs)
  BY <1>2, <1>9 DEF Deals
<1>13. QED
  <2> HIDE DEF F, a
  <2> QED BY <1>4, <1>7, <1>8, <1>10, <1>11, <1>12 DEF Aggregates, Commits, a

\* verify_aggregation accepts the aggregate of sharings, whatever it draws.
LEMMA AggregateVerifies ==
  ASSUME N >= 2, secret_keys \in Keys, NEW vec \in Seq(HonestSharings), NEW ids,
         Len(vec) = num_faults + 1, Len(ids) = Len(vec), NEW dual \in Duals(N, num_faults)
  PROVE  verify_aggregation(aggregate(vec, ids), dual)
<1> DEFINE a == aggregate(vec, ids)
<1>1. PICK F \in OfDegree(num_faults) : Aggregates(a, F)
  BY AggregateOfSharings
<1>2. F \in [Fr -> Fr] /\ Point \subseteq Fr /\ num_faults \in Nat
  BY OfDegreeType, Sizes
<1>3. a.commitments = [i \in Point |-> F[i]] /\ a.encryptions = [i \in Point |-> F[i] ** pk_map[i]]
  BY <1>1 DEF Aggregates, Commits
<1>4. ensure_degree(a.commitments, num_faults, dual)
  BY <1>3, DegreeAccepted
<1>5. ASSUME NEW i \in Point
      PROVE  pairing(pk_map[i], a.commitments[i]) = pairing(a.encryptions[i], 1)
  <2> DEFINE f == F[i]
             g == pk_map[i]
  <2>1. f \in Fr /\ g \in Fr
    BY <1>2 DEF pk_map, Keys
  <2>2. a.commitments[i] = f /\ a.encryptions[i] = f ** g
    BY <1>3
  <2> HIDE DEF f, g
  <2>3. f ** g \in Fr /\ (f ** g) ** 1 = f ** g /\ g ** f = f ** g
    BY <2>1, FieldClosed, ProductLaws
  <2>4. QED
    BY <2>2, <2>3 DEF pairing, g
<1>6. DecompositionSum(a) = lagrange_interpolation(num_faults, a.commitments, AtIndexes(N))
  BY <1>1, <1>3, InterpolationAtIndexes DEF Aggregates
<1>7. Len(a.decomposition) = Len(a.id_vec) /\ Len(a.id_vec) >= num_faults
  <2>1. a.decomposition = [k \in 1 .. Len(vec) |-> vec[k].decomp_pi] /\ a.id_vec = ids
    BY DEF aggregate
  <2> HIDE DEF a
  <2>2. Len(a.decomposition) = Len(vec)
    BY <2>1
  <2>3. QED
    BY <1>2, <2>1, <2>2
<1>8. QED
  <2> HIDE DEF a
  <2>1. verify_aggregation(a, dual)
    BY <1>1, <1>4, <1>5, <1>6, <1>7 DEF verify_aggregation, Aggregates
  <2>2. QED
    BY <2>1 DEF a

\* verify_sharing accepts what create_sharing makes, whatever it draws.
LEMMA SharingVerifies ==
  ASSUME N >= 2, secret_keys \in Keys, NEW s \in HonestSharings, NEW dual \in Duals(N, num_faults)
  PROVE  verify_sharing(s, dual)
<1>1. PICK F \in OfDegree(num_faults) : Deals(s, F)
  BY SharingOfPolynomial
<1>2. s.commitments = [i \in Point |-> F[i]]
  BY <1>1 DEF Deals, Commits
<1>3. ensure_degree(s.commitments, num_faults, dual)
  BY <1>2, DegreeAccepted
<1>4. s.decomp_pi.gs = lagrange_interpolation(num_faults, s.commitments, AtIndexes(N))
  BY <1>1, <1>2, InterpolationAtIndexes DEF Deals
<1>5. QED
  BY <1>1, <1>3, <1>4 DEF verify_sharing, Deals

\* decrypt returns the replica's value of the polynomial with a proof that
\* verify_decryption accepts.
LEMMA DecryptionOfAggregate ==
  ASSUME secret_keys \in Keys, NEW F \in OfDegree(num_faults), NEW a, Commits(a, F),
         NEW i \in Point, NEW r \in Fr
  PROVE  /\ decrypt(a, i, r).dec = F[i]
         /\ decrypt(a, i, r).origin = i - 1
         /\ verify_decryption(a, decrypt(a, i, r))
<1> DEFINE f == F[i]
           k == secret_keys[i]
           enc == a.encryptions[i]
           d == decrypt(a, i, r)
<1>1. f \in Fr /\ k \in Fr /\ k # 0 /\ i \in Fr /\ i \in Nat
  BY OfDegreeType, Sizes, FieldNumbers DEF Keys
<1>2. enc = f ** k
  BY DEF Commits, pk_map
<1>3. inverse(k) ** enc = f
  <2> DEFINE v == inverse(k)
  <2> HIDE DEF f, k
  <2>1. v \in Fr /\ v ** k = 1
    BY <1>1, Inverses
  <2>2. f ** k = k ** f /\ 1 ** f = f
    BY <1>1, ProductLaws
  <2>3. v ** enc = f
    <3> HIDE DEF v
    <3>1. v ** (k ** f) = (v ** k) ** f
      BY <1>1, <2>1, ProductLaws
    <3>2. QED
      BY <1>2, <2>1, <2>2, <3>1
  <2>4. QED
    BY <2>3
<1>4. d = [dec |-> f, origin |-> i - 1, pi |-> Prove(f, enc, k, r)]
  BY <1>3 DEF decrypt
<1>5. d.origin + 1 = i
  BY <1>1, <1>4
<1>6. Verify(Prove(f, enc, k, r), f, enc)
  <2> HIDE DEF f, k
  <2>1. f ** k = k ** f
    BY <1>1, ProductLaws
  <2>2. Verify(Prove(f, k ** f, k, r), f, k ** f)
    BY <1>1, ProofsVerify
  <2>3. QED
    BY <1>2, <2>1, <2>2
<1>7. verify_decryption(a, d)
  <2> HIDE DEF d
  <2> QED BY <1>4, <1>5, <1>6 DEF verify_decryption
<1>8. QED
  BY <1>4, <1>7

\* reconstruct of more than num_faults values at different points, in any
\* order, is the value at 0.
LEMMA BeaconOfDecryptions ==
  ASSUME NEW F \in OfDegree(num_faults), NEW decs, Len(decs) \in Nat, Len(decs) > num_faults,
         DOMAIN decs = 1 .. Len(decs),
         \A k \in DOMAIN decs : decs[k].origin + 1 \in Point /\ decs[k].dec = F[decs[k].origin + 1],
         \A k, l \in DOMAIN decs : decs[k].origin = decs[l].origin => k = l,
         \A k \in DOMAIN decs : decs[k].origin \in Int
  PROVE  reconstruct(decs).recon = F[0] /\ reconstruct(decs).beacon = pairing(F[0], h2)
<1> DEFINE evals == [k \in DOMAIN decs |-> decs[k].dec]
           points == [k \in DOMAIN decs |-> decs[k].origin + 1]
           t == num_faults
<1>1. t \in Nat /\ 1 .. t + 1 \subseteq DOMAIN decs
  BY Sizes
<1>2. \A j \in 1 .. t + 1 : points[j] \in Fr \ {0} /\ evals[j] = F[points[j]]
  BY <1>1, Sizes
<1>3. \A i, j \in 1 .. t + 1 : points[i] = points[j] => i = j
  BY <1>1
<1>4. lagrange_interpolation(t, evals, points) = F[0]
  <2> HIDE DEF evals, points, t
  <2> QED BY <1>1, <1>2, <1>3, Lagrange DEF t
<1>5. QED
  BY <1>4 DEF reconstruct

-----------------------------------------------------------------------------
(* One wrong commitment.                                                   *)

\* The length of a function on 1 .. n.
LEMMA LengthOf ==
  ASSUME NEW n \in Nat, NEW S, NEW s \in [1 .. n -> S]
  PROVE  Len(s) = n
OBVIOUS

\* There are finitely many polynomials of a degree.
LEMMA PolynomialsFinite ==
  ASSUME NEW n \in Nat
  PROVE  IsFiniteSet([1 .. n -> Fr])
<1> DEFINE K == {m \in Nat : IsFiniteSet([1 .. m -> Fr])}
<1>1. 0 \in K
  <2> DEFINE z == [i \in {} |-> 0]
  <2>1. 1 .. 0 = {}
    OBVIOUS
  <2>2. \A p \in [{} -> Fr] : p = z
    OBVIOUS
  <2>3. z \in [{} -> Fr]
    OBVIOUS
  <2> HIDE DEF z
  <2>4. [1 .. 0 -> Fr] = {z}
    BY <2>1, <2>2, <2>3
  <2>5. QED
    BY <2>4, FS_Singleton
<1>2. ASSUME NEW m \in Nat, m \in K
      PROVE  m + 1 \in K
  <2> DEFINE S == [1 .. m + 1 -> Fr]
             T == [1 .. m -> Fr] \X Fr
             f == [p \in S |-> <<[i \in 1 .. m |-> p[i]], p[m + 1]>>]
  <2>1. IsFiniteSet(T)
    <3>1. IsFiniteSet([1 .. m -> Fr])
      BY <1>2
    <3>2. QED
      BY <3>1, FieldNumbers, FS_Product
  <2>2. f \in [S -> T]
    <3>1. ASSUME NEW p \in S
          PROVE  <<[i \in 1 .. m |-> p[i]], p[m + 1]>> \in T
      <4>1. [i \in 1 .. m |-> p[i]] \in [1 .. m -> Fr]
        OBVIOUS
      <4>2. p[m + 1] \in Fr
        OBVIOUS
      <4>3. QED
        BY <4>1, <4>2
    <3> HIDE DEF S, T
    <3>2. QED
      BY <3>1
  <2>3. ASSUME NEW p \in S, NEW q \in S, f[p] = f[q]
        PROVE  p = q
    <3>1. p[m + 1] = q[m + 1]
      BY <2>3
    <3>2. [i \in 1 .. m |-> p[i]] = [i \in 1 .. m |-> q[i]]
      BY <2>3
    <3>3. \A i \in 1 .. m : p[i] = q[i]
      <4> DEFINE pp == [i \in 1 .. m |-> p[i]]
                 qq == [i \in 1 .. m |-> q[i]]
      <4>1. \A i \in 1 .. m : pp[i] = p[i] /\ qq[i] = q[i]
        OBVIOUS
      <4>2. pp = qq
        BY <3>2
      <4> HIDE DEF pp, qq
      <4>3. QED
        BY <4>1, <4>2
    <3>4. \A i \in 1 .. m + 1 : p[i] = q[i]
      BY <3>1, <3>3
    <3>5. QED
      BY <3>4
  <2>4. f \in Injection(S, T)
    <3> HIDE DEF f, S, T
    <3> QED BY <2>2, <2>3 DEF Injection, IsInjective
  <2>5. IsFiniteSet(S)
    <3> HIDE DEF f, S, T
    <3> QED BY <2>1, <2>4, FS_Injection
  <2>6. QED
    BY <2>5
<1>3. \A m \in Nat : m \in K
  <2> HIDE DEF K
  <2> QED BY <1>1, <1>2, NatSetInduction
<1>4. QED
  BY <1>3

\* The weight of point i in the inner product of ensure_degree.
PointWeight(i) == Product([j \in Point \ {i} |-> inverse(i -- j)])

\* It is in the field and not 0.
LEMMA PointWeights ==
  ASSUME NEW i \in Point
  PROVE  PointWeight(i) \in Fr /\ PointWeight(i) # 0
<1> DEFINE S == Point \ {i}
           G == [j \in S |-> inverse(i -- j)]
<1>1. Point \subseteq Fr /\ IsFiniteSet(S)
  BY Sizes, FieldNumbers, FS_Subset
<1>2. ASSUME NEW j \in S PROVE inverse(i -- j) \in Fr /\ inverse(i -- j) # 0
  BY <1>1, Distinct
<1>3. G \in [S -> Fr] /\ \A j \in S : G[j] # 0
  BY <1>2
<1> HIDE DEF S, G
<1>4. Product(G) \in Fr /\ Product(G) # 0
  BY <1>1, <1>3, ProductType, ProductOfNonzeros
<1>5. QED
  BY <1>4 DEF PointWeight, G, S

\* A polynomial drawn by ensure_degree that accepts although the value at i is
\* wrong has its zero at i: the inner product changes by its value there times
\* the point's weight times the error.
LEMMA AcceptedWithOneOff ==
  ASSUME N >= 2, NEW F \in OfDegree(num_faults), NEW i \in Point, NEW x \in Fr \ {F[i]},
         NEW dual \in Duals(N, num_faults),
         ensure_degree([[j \in Point |-> F[j]] EXCEPT ![i] = x], num_faults, dual)
  PROVE  evaluate(dual, i) = 0
<1> DEFINE c == [j \in Point |-> F[j]]
           o == [c EXCEPT ![i] = x]
           cperp(j) == evaluate(dual, j) ** PointWeight(j)
           A == [j \in Point |-> cperp(j) ** c[j]]
           B == [j \in Point |-> cperp(j) ** o[j]]
<1>1. /\ F \in [Fr -> Fr] /\ Point \subseteq Fr /\ Point = 1 .. N /\ N \in Nat
      /\ IsFiniteSet(Point)
  <2>1. IsFiniteSet(Point)
    BY Sizes, FieldNumbers, FS_Subset
  <2>2. QED
    BY <2>1, OfDegreeType, Sizes DEF Point
<1>2. \A j \in Point : evaluate(dual, j) \in Fr
  <2>1. dual \in [1 .. (N - num_faults - 2) + 1 -> Fr] /\ (N - num_faults - 2) + 1 \in Nat
    BY Sizes DEF Duals, Polynomials
  <2>2. QED
    BY <1>1, <2>1, EvaluateType
<1>3. \A j \in Point : cperp(j) \in Fr
  BY <1>2, PointWeights, FieldClosed
<1>4. \A j \in Point : c[j] \in Fr /\ o[j] \in Fr
  BY <1>1
<1>5. A \in [Point -> Fr] /\ B \in [Point -> Fr]
  <2> HIDE DEF cperp, c, o
  <2> QED BY <1>3, <1>4, FieldClosed
<1>6. Len(c) = N /\ Len(o) = N
  <2>1. c \in [1 .. N -> Fr] /\ o \in [1 .. N -> Fr]
    BY <1>1
  <2> HIDE DEF c, o
  <2>2. QED
    BY <1>1, <2>1, LengthOf
<1>7. Total(A) = 0
  <2>1. ensure_degree(c, num_faults, dual)
    BY DegreeAccepted
  <2> HIDE DEF c
  <2>2. QED
    BY <1>1, <1>6, <2>1 DEF ensure_degree, PointWeight
<1>8. Total(B) = 0
  <2>1. ensure_degree(o, num_faults, dual)
    OBVIOUS
  <2> HIDE DEF o
  <2>2. QED
    BY <1>1, <1>6, <2>1 DEF ensure_degree, PointWeight
<1> DEFINE R == SumOn(A, Point \ {i})
<1>9. Total(A) = A[i] ++ R /\ R \in Fr
  <2>1. IsFiniteSet(Point) /\ A \in [Point -> Fr] /\ i \in Point
    BY <1>1, <1>5
  <2> HIDE DEF A, B, R
  <2>2. Total(A) = A[i] ++ SumOn(A, Point \ {i}) /\ SumOn(A, Point \ {i}) \in Fr
    BY <2>1, TotalSplit
  <2>3. QED
    BY <2>2 DEF R
<1>10. Total(B) = B[i] ++ SumOn(B, Point \ {i})
  <2>1. IsFiniteSet(Point) /\ B \in [Point -> Fr] /\ i \in Point
    BY <1>1, <1>5
  <2> HIDE DEF A, B, R
  <2>2. QED
    BY <2>1, TotalSplit
<1>11. SumOn(B, Point \ {i}) = R
  <2>1. \A j \in Point \ {i} : A[j] = B[j]
    OBVIOUS
  <2> HIDE DEF A, B
  <2>2. [j \in Point \ {i} |-> A[j]] = [j \in Point \ {i} |-> B[j]]
    BY <2>1
  <2>3. QED
    BY <2>2 DEF SumOn
<1>12. A[i] = B[i]
  <2>1. R ++ A[i] = R ++ B[i] /\ A[i] \in Fr /\ B[i] \in Fr
    <3>1. A[i] \in Fr /\ B[i] \in Fr
      BY <1>5
    <3> DEFINE p == A[i]
               q == B[i]
    <3>2. p ++ R = q ++ R
      BY <1>7, <1>8, <1>9, <1>10, <1>11
    <3> HIDE DEF p, q, R
    <3>3. R ++ p = p ++ R /\ R ++ q = q ++ R
      BY <1>9, <3>1, SumLaws DEF p, q
    <3>4. QED
      BY <3>1, <3>2, <3>3 DEF p, q
  <2> HIDE DEF A, B, R
  <2>2. QED
    BY <1>9, <2>1, Cancellation
<1> DEFINE v == cperp(i)
<1>13. v ** F[i] = v ** x /\ v \in Fr /\ F[i] \in Fr
  BY <1>1, <1>3, <1>12
<1>14. v = 0
  <2> HIDE DEF v
  <2> QED BY <1>13, ProductCancellation
<1>15. QED
  <2> DEFINE h == evaluate(dual, i)
  <2>1. h ** PointWeight(i) = 0 /\ h \in Fr
    BY <1>2, <1>14
  <2> HIDE DEF h
  <2>2. h = 0
    BY <2>1, PointWeights, NoZeroDivisors
  <2>3. QED
    BY <2>2 DEF h

\* Of all polynomials of a degree one in Prime at most has a zero at x: adding
\* the constants to those that have it gives Prime times as many.
LEMMA FewRoots ==
  ASSUME NEW n \in Nat \ {0}, NEW x \in Fr, NEW Roots \in SUBSET [1 .. n -> Fr],
         \A poly \in Roots : evaluate(poly, x) = 0
  PROVE  Prime * Cardinality(Roots) <= Cardinality([1 .. n -> Fr])
<1> DEFINE P == [1 .. n -> Fr]
           S == Fr \X Roots
           moved(c, poly) == [poly EXCEPT ![1] = poly[1] ++ c]
           f == [p \in S |-> moved(p[1], p[2])]
<1>1. IsFiniteSet(P) /\ IsFiniteSet(Roots) /\ 1 \in 1 .. n
  BY PolynomialsFinite, FS_Subset
<1>2. f \in [S -> P]
  <2>1. ASSUME NEW c \in Fr, NEW poly \in P PROVE moved(c, poly) \in P
    <3>1. poly[1] ++ c \in Fr
      BY <1>1, FieldClosed
    <3>2. QED
      BY <3>1
  <2> HIDE DEF moved, P
  <2>2. \A p \in S : moved(p[1], p[2]) \in P
    <3>1. \A p \in S : p[1] \in Fr /\ p[2] \in Roots
      OBVIOUS
    <3>2. QED
      BY <2>1, <3>1 DEF P
  <2>3. QED
    BY <2>2
<1>3. ASSUME NEW p \in S, NEW q \in S, f[p] = f[q]
      PROVE  p = q
  <2> DEFINE c == p[1]
             d == q[1]
             g == p[2]
             h == q[2]
  <2>1. c \in Fr /\ d \in Fr /\ g \in P /\ h \in P /\ p = <<c, g>> /\ q = <<d, h>>
    OBVIOUS
  <2>2. evaluate(g, x) = 0 /\ evaluate(h, x) = 0
    OBVIOUS
  <2>3. moved(c, g) = moved(d, h)
    BY <1>3
  <2> HIDE DEF c, d, g, h
  <2>4. c = d
    <3>1. evaluate(moved(c, g), x) = evaluate(g, x) ++ c
      BY <2>1, EvaluateAddConstant
    <3>2. evaluate(moved(d, h), x) = evaluate(h, x) ++ d
      BY <2>1, EvaluateAddConstant
    <3>3. 0 ++ c = c /\ 0 ++ d = d
      BY <2>1, SumLaws
    <3> HIDE DEF moved
    <3>4. QED
      BY <2>2, <2>3, <3>1, <3>2, <3>3
  <2>5. g = h
    <3>1. \A k \in 1 .. n : k # 1 => g[k] = h[k]
      <4>1. \A k \in 1 .. n : k # 1 => moved(c, g)[k] = g[k] /\ moved(d, h)[k] = h[k]
        BY <2>1
      <4> HIDE DEF moved
      <4>2. QED
        BY <2>3, <4>1
    <3>2. g[1] = h[1]
      <4>1. moved(c, g)[1] = g[1] ++ c /\ moved(d, h)[1] = h[1] ++ d
        BY <1>1, <2>1
      <4>2. g[1] \in Fr /\ h[1] \in Fr
        BY <1>1, <2>1
      <4> DEFINE a == g[1]
                 b == h[1]
      <4>3. a ++ c = b ++ c
        BY <2>3, <2>4, <4>1
      <4> HIDE DEF a, b
      <4>4. c ++ a = a ++ c /\ c ++ b = b ++ c
        BY <2>1, <4>2, SumLaws DEF a, b
      <4>5. a = b
        BY <2>1, <4>2, <4>3, <4>4, Cancellation DEF a, b
      <4>6. QED
        BY <4>5 DEF a, b
    <3>3. \A k \in 1 .. n : g[k] = h[k]
      BY <3>1, <3>2
    <3>4. QED
      BY <2>1, <3>3
  <2>6. QED
    BY <2>1, <2>4, <2>5
<1>4. f \in Injection(S, P)
  <2> HIDE DEF f, S, P
  <2> QED BY <1>2, <1>3 DEF Injection, IsInjective
<1>5. Cardinality(S) <= Cardinality(P)
  <2> HIDE DEF f, S, P
  <2> QED BY <1>1, <1>4, FS_Injection
<1>6. Cardinality(S) = Prime * Cardinality(Roots)
  BY <1>1, FieldNumbers, FS_Product
<1>7. QED
  BY <1>5, <1>6

\* So ensure_degree accepts commitments of which one is wrong for at most one
\* draw in Prime.
LEMMA FewAccept ==
  ASSUME N >= 2, NEW F \in OfDegree(num_faults), NEW i \in Point, NEW x \in Fr \ {F[i]},
         NEW Accepting,
         Accepting = {dual \in Duals(N, num_faults) :
           ensure_degree([[j \in Point |-> F[j]] EXCEPT ![i] = x], num_faults, dual)}
  PROVE  Prime * Cardinality(Accepting) <= Cardinality(Duals(N, num_faults))
<1> DEFINE d == N - num_faults - 2
<1>1. Duals(N, num_faults) = [1 .. d + 1 -> Fr] /\ d + 1 \in Nat \ {0} /\ i \in Fr
  BY Sizes DEF Duals, Polynomials
<1>2. \A dual \in Accepting : evaluate(dual, i) = 0
  BY AcceptedWithOneOff
<1>3. Accepting \in SUBSET [1 .. d + 1 -> Fr]
  BY <1>1
<1> HIDE DEF d
<1>4. Prime * Cardinality(Accepting) <= Cardinality([1 .. d + 1 -> Fr])
  BY <1>1, <1>2, <1>3, FewRoots
<1>5. QED
  BY <1>1, <1>4

-----------------------------------------------------------------------------
(* The invariant, and the theorems.                                        *)

\* What decrypt may return of an aggregate.
DecryptionsOf(a) == {decrypt(a, i, r) : i \in Point, r \in Fr}

\* The parts of the invariant. The contexts are of one setup.
Contexts == secret_keys \in Keys /\ h2 \in Fr /\ first \in ReplicaID

\* What was shared is what create_sharing makes, and each sharing has a
\* dealer.
Dealt ==
  /\ pvss_vec \in Seq(HonestSharings)
  /\ Len(pvss_vec) <= num_faults + 1
  /\ id_vec \in Seq(ReplicaID)
  /\ Len(id_vec) = Len(pvss_vec)

\* The aggregate is that of all sharings of the round.
Aggregated ==
  \/ agg = <<>>
  \/ agg = <<aggregate(pvss_vec, id_vec)>> /\ Len(pvss_vec) = num_faults + 1

\* verify_aggregation has not rejected it.
Accepted == N >= 2 => checked # "rejected"

\* What was collected is decryptions of the aggregate, of different replicas.
Decrypted ==
  /\ recon = <<>> \/ (agg # <<>> /\ recon \in Seq(DecryptionsOf(agg[1])))
  /\ \A k, l \in DOMAIN recon : recon[k].origin = recon[l].origin => k = l

\* The beacon is what more than num_faults of them gave.
Reconstructed ==
  \/ beacon = <<>>
  \/ beacon = <<reconstruct(recon)>> /\ Len(recon) > num_faults

\* Inductive.
IInv == Contexts /\ Dealt /\ Aggregated /\ Accepted /\ Decrypted /\ Reconstructed

\* While keys and generator stay, so does what is made with them.
LEMMA FixedContexts ==
  ASSUME secret_keys' = secret_keys, h2' = h2
  PROVE  /\ HonestSharings' = HonestSharings
         /\ \A a : DecryptionsOf(a)' = DecryptionsOf(a)
         /\ \A d : reconstruct(d)' = reconstruct(d)
<1>1. pk_map' = pk_map
  BY DEF pk_map
<1>2. HonestSharings' = HonestSharings
  BY <1>1 DEF HonestSharings, create_sharing
<1>3. \A a : DecryptionsOf(a)' = DecryptionsOf(a)
  BY DEF DecryptionsOf, decrypt
<1>4. \A d : reconstruct(d)' = reconstruct(d)
  BY DEF reconstruct
<1>5. QED
  BY <1>2, <1>3, <1>4

\* A decryption carries the id of its replica.
LEMMA DecryptionOrigin ==
  ASSUME NEW a, NEW i, NEW r
  PROVE  decrypt(a, i, r).origin = i - 1
BY DEF decrypt

\* The empty sequence has no positions.
LEMMA NothingInEmpty ==
  ASSUME NEW s, s = <<>>
  PROVE  DOMAIN s = {}
OBVIOUS

\* The invariant holds at first.
LEMMA InitInvariant == Init => IInv
<1> SUFFICES ASSUME Init PROVE IInv
  OBVIOUS
<1>1. Contexts
  BY DrawsAssumption DEF Init, Contexts, Keys, Point
<1>2. /\ pvss_vec = <<>> /\ id_vec = <<>> /\ agg = <<>> /\ recon = <<>> /\ beacon = <<>>
      /\ checked = "not yet"
  BY DEF Init
<1>3. Dealt
  <2>1. <<>> \in Seq(HonestSharings) /\ <<>> \in Seq(ReplicaID) /\ Len(<<>>) = 0
    OBVIOUS
  <2>2. 0 <= num_faults + 1
    BY Sizes
  <2>3. QED
    BY <1>2, <2>1, <2>2 DEF Dealt
<1>4. Aggregated /\ Accepted /\ Reconstructed
  BY <1>2 DEF Aggregated, Accepted, Reconstructed
<1>5. Decrypted
  <2>1. DOMAIN recon = {}
    BY <1>2, NothingInEmpty
  <2>2. QED
    BY <1>2, <2>1 DEF Decrypted
<1>6. QED
  BY <1>1, <1>3, <1>4, <1>5 DEF IInv

\* Every step keeps the invariant; VerifyAggregation does because of
\* AggregateVerifies.
LEMMA NextInvariant == IInv /\ [Next]_vars => IInv'
<1> SUFFICES ASSUME IInv, [Next]_vars PROVE IInv'
  OBVIOUS
<1>1. Contexts /\ Dealt /\ Aggregated /\ Accepted /\ Decrypted /\ Reconstructed
  BY DEF IInv
<1>2. secret_keys' = secret_keys /\ h2' = h2 /\ first' = first
  BY DEF Next, vars, Share, Aggregate, VerifyAggregation, Decrypt, Reconstruct
<1>3. /\ HonestSharings' = HonestSharings
      /\ \A a : DecryptionsOf(a)' = DecryptionsOf(a)
      /\ \A d : reconstruct(d)' = reconstruct(d)
  BY <1>2, FixedContexts
<1>4. Contexts'
  BY <1>1, <1>2 DEF Contexts, Keys
<1>5. CASE Share
  <2>1. PICK poly \in Polys, r \in Nonces :
          pvss_vec' = Append(pvss_vec, create_sharing(poly, r))
    BY <1>5 DEF Share
  <2> DEFINE s == create_sharing(poly, r)
             id == (first + Len(id_vec)) % N
  <2>2. s \in HonestSharings
    BY DrawsAssumption DEF HonestSharings
  <2>3. id \in ReplicaID
    <3>1. first \in Nat /\ Len(id_vec) \in Nat /\ N \in Nat \ {0}
      BY <1>1, NAssumption DEF Contexts, Dealt, ReplicaID
    <3>2. QED
      BY <3>1 DEF ReplicaID
  <2>4. pvss_vec' = Append(pvss_vec, s) /\ id_vec' = Append(id_vec, id)
    BY <1>5, <2>1 DEF Share
  <2>5. agg = <<>> /\ recon = <<>>
    <3>1. Len(pvss_vec) # num_faults + 1
      BY <1>1, <1>5, Sizes DEF Share, Dealt
    <3>2. QED
      BY <1>1, <3>1 DEF Aggregated, Decrypted
  <2> HIDE DEF s, id
  <2>6. Dealt'
    <3>1. Len(pvss_vec) \in Nat /\ Len(pvss_vec) < num_faults + 1 /\ num_faults \in Nat
      BY <1>1, <1>5, Sizes DEF Share, Dealt
    <3>2. pvss_vec' \in Seq(HonestSharings) /\ Len(pvss_vec') = Len(pvss_vec) + 1
      BY <1>1, <2>2, <2>4 DEF Dealt
    <3>3. id_vec' \in Seq(ReplicaID) /\ Len(id_vec') = Len(id_vec) + 1
      BY <1>1, <2>3, <2>4 DEF Dealt
    <3>4. QED
      BY <1>1, <1>3, <3>1, <3>2, <3>3 DEF Dealt
  <2>7. Aggregated' /\ Decrypted'
    BY <1>5, <2>5 DEF Share, Aggregated, Decrypted
  <2>8. Accepted' /\ Reconstructed'
    BY <1>1, <1>3, <1>5 DEF Share, Accepted, Reconstructed
  <2>9. QED
    BY <1>4, <2>6, <2>7, <2>8 DEF IInv
<1>6. CASE Aggregate
  <2>1. Dealt' /\ Accepted' /\ Reconstructed'
    BY <1>1, <1>3, <1>6 DEF Aggregate, Dealt, Accepted, Reconstructed
  <2>2. Aggregated'
    BY <1>6 DEF Aggregate, Aggregated
  <2>3. Decrypted'
    BY <1>1, <1>6 DEF Aggregate, Decrypted
  <2>4. QED
    BY <1>4, <2>1, <2>2, <2>3 DEF IInv
<1>7. CASE VerifyAggregation
  <2>1. Dealt' /\ Aggregated' /\ Reconstructed'
    BY <1>1, <1>3, <1>7 DEF VerifyAggregation, Dealt, Aggregated, Reconstructed
  <2>2. Decrypted'
    BY <1>1, <1>3, <1>7 DEF VerifyAggregation, Decrypted
  <2>3. Accepted'
    <3>1. SUFFICES ASSUME N >= 2 PROVE checked' # "rejected"
      BY DEF Accepted
    <3>2. \A dual \in Duals(N, num_faults) : verify_aggregation(agg[1], dual)
      <4>1. agg[1] = aggregate(pvss_vec, id_vec) /\ Len(pvss_vec) = num_faults + 1
        <5>1. agg # <<>>
          BY <1>7 DEF VerifyAggregation
        <5>2. agg = <<aggregate(pvss_vec, id_vec)>> /\ Len(pvss_vec) = num_faults + 1
          BY <1>1, <5>1 DEF Aggregated
        <5>3. QED
          BY <5>2
      <4>2. secret_keys \in Keys /\ pvss_vec \in Seq(HonestSharings) /\ Len(id_vec) = Len(pvss_vec)
        BY <1>1 DEF Contexts, Dealt
      <4>3. QED
        BY <3>1, <4>1, <4>2, AggregateVerifies
    <3>3. QED
      BY <1>7, <3>2 DEF VerifyAggregation
  <2>4. QED
    BY <1>4, <2>1, <2>2, <2>3 DEF IInv
<1>8. ASSUME NEW i \in Point, Decrypt(i)
      PROVE  IInv'
  <2>1. PICK r \in Nonces : recon' = Append(recon, decrypt(agg[1], i, r[i]))
    BY <1>8 DEF Decrypt
  <2> DEFINE d == decrypt(agg[1], i, r[i])
             T == DecryptionsOf(agg[1])
  <2>2. d \in T /\ d.origin = i - 1
    <3>1. r[i] \in Fr
      <4>1. i \in 0 .. N /\ r \in [0 .. N -> Fr]
        BY DrawsAssumption, NAssumption DEF Point
      <4> QED BY <4>1
    <3> QED BY <3>1, DecryptionOrigin DEF DecryptionsOf
  <2>3. agg # <<>> /\ agg' = agg /\ recon' = Append(recon, d) /\ recon \in Seq(T)
    <3>1. agg # <<>> /\ agg' = agg
      BY <1>8 DEF Decrypt
    <3>2. recon = <<>> \/ recon \in Seq(T)
      BY <1>1 DEF Decrypted
    <3> HIDE DEF T
    <3>3. <<>> \in Seq(T)
      OBVIOUS
    <3>4. QED
      BY <2>1, <3>1, <3>2, <3>3
  <2>4. \A k \in DOMAIN recon : recon[k].origin # i - 1
    BY <1>8 DEF Decrypt
  <2> HIDE DEF d
  <2>5. Decrypted'
    <3>1. DecryptionsOf(agg[1])' = T
      BY <1>3, <2>3
    <3>2. recon' \in Seq(T)
      <4> HIDE DEF T
      <4> QED BY <2>2, <2>3
    <3>3. \A k, l \in DOMAIN recon' : recon'[k].origin = recon'[l].origin => k = l
      <4> HIDE DEF T
      <4>1. DOMAIN recon' = 1 .. Len(recon) + 1 /\ Len(recon) \in Nat /\ DOMAIN recon = 1 .. Len(recon)
        BY <2>3
      <4>2. \A k \in DOMAIN recon : recon'[k] = recon[k]
        BY <2>3
      <4>3. recon'[Len(recon) + 1] = d
        BY <2>3
      <4>4. \A k, l \in DOMAIN recon : recon[k].origin = recon[l].origin => k = l
        BY <1>1 DEF Decrypted
      <4>5. QED
        BY <2>2, <2>4, <4>1, <4>2, <4>3, <4>4
    <3>4. QED
      BY <2>3, <3>1, <3>2, <3>3 DEF Decrypted
  <2>6. Dealt' /\ Aggregated' /\ Accepted'
    BY <1>1, <1>3, <1>8 DEF Decrypt, Dealt, Aggregated, Accepted
  <2>7. Reconstructed'
    BY <1>8 DEF Decrypt, Reconstructed
  <2>8. QED
    BY <1>4, <2>5, <2>6, <2>7 DEF IInv
<1>9. CASE Reconstruct
  <2>1. Dealt' /\ Aggregated' /\ Accepted'
    BY <1>1, <1>3, <1>9 DEF Reconstruct, Dealt, Aggregated, Accepted
  <2>2. Decrypted'
    BY <1>1, <1>3, <1>9 DEF Reconstruct, Decrypted
  <2>3. Reconstructed'
    BY <1>3, <1>9 DEF Reconstruct, Reconstructed
  <2>4. QED
    BY <1>4, <2>1, <2>2, <2>3 DEF IInv
<1>10. CASE UNCHANGED vars
  BY <1>1, <1>3, <1>4, <1>10
  DEF vars, IInv, Dealt, Aggregated, Accepted, Decrypted, Reconstructed
<1>11. QED
  BY <1>5, <1>6, <1>7, <1>8, <1>9, <1>10 DEF Next

\* In every reachable state sharings, aggregate, decryptions and beacon are
\* what the operations of pvss.hpp make of one another.
THEOREM Invariant == Spec => []IInv
<1>1. QED
  BY InitInvariant, NextInvariant, PTL DEF Spec

\* There is a polynomial whose values the aggregate commits to and whose value
\* at 0 is the sum of the secrets.
LEMMA AggregateCommits ==
  ASSUME IInv, agg # <<>>
  PROVE  \E F \in OfDegree(num_faults) : Aggregates(agg[1], F) /\ Secret = F[0]
<1>1. secret_keys \in Keys /\ pvss_vec \in Seq(HonestSharings)
  BY DEF IInv, Contexts, Dealt
<1>2. agg[1] = aggregate(pvss_vec, id_vec)
  BY DEF IInv, Aggregated
<1>3. Secret = SecretOf(pvss_vec)
  BY DEF Secret, SecretOf
<1>4. QED
  BY <1>1, <1>2, <1>3, AggregateOfSharings

\* For every number of replicas from two, every field, hash, keys,
\* polynomials, nonces and draws: sharings of honest dealers and their
\* aggregate are accepted (verify_sharing and verify_aggregation in pvss.hpp).
THEOREM HonestAccepted == ASSUME N >= 2 PROVE Spec => []AggregatesVerify
<1>1. IInv => AggregatesVerify
  <2>1. SUFFICES ASSUME IInv PROVE AggregatesVerify
    OBVIOUS
  <2>2. ASSUME pvss_vec # <<>>, NEW dual \in Duals(N, num_faults)
        PROVE  verify_sharing(Last(pvss_vec), dual)
    <3>1. secret_keys \in Keys /\ pvss_vec \in Seq(HonestSharings)
      BY <2>1 DEF IInv, Contexts, Dealt
    <3>2. Last(pvss_vec) \in HonestSharings
      BY <2>2, <3>1 DEF Last
    <3>3. QED
      BY <3>1, <3>2, SharingVerifies
  <2>3. checked # "rejected"
    BY <2>1 DEF IInv, Accepted
  <2>4. QED
    BY <2>2, <2>3 DEF AggregatesVerify, SharingsVerify
<1>2. QED
  BY <1>1, Invariant, PTL

\* For every number of replicas from two and every field, ensure_degree
\* (PolyOps.hpp) accepts an aggregate with one wrong commitment for at most
\* one of Prime draws.
THEOREM WrongCommitmentsFound == ASSUME N >= 2 PROVE Spec => []OneCommitmentOff
<1>1. IInv => OneCommitmentOff
  <2>1. SUFFICES ASSUME IInv, agg # <<>>, NEW i \in Point,
                        NEW x \in Fr \ {agg[1].commitments[i]}
        PROVE  LET Accepting == {dual \in Duals(N, num_faults) :
                     ensure_degree([agg[1].commitments EXCEPT ![i] = x], num_faults, dual)}
               IN  Prime * Cardinality(Accepting) <= Cardinality(Duals(N, num_faults))
    BY DEF OneCommitmentOff
  <2>2. PICK F \in OfDegree(num_faults) : Aggregates(agg[1], F)
    BY <2>1, AggregateCommits
  <2>3. agg[1].commitments = [j \in Point |-> F[j]]
    BY <2>2 DEF Aggregates, Commits
  <2>4. x \in Fr \ {F[i]}
    BY <2>3
  <2> DEFINE Accepting == {dual \in Duals(N, num_faults) :
               ensure_degree([[j \in Point |-> F[j]] EXCEPT ![i] = x], num_faults, dual)}
  <2>5. Prime * Cardinality(Accepting) <= Cardinality(Duals(N, num_faults))
    <3>1. Accepting = {dual \in Duals(N, num_faults) :
               ensure_degree([[j \in Point |-> F[j]] EXCEPT ![i] = x], num_faults, dual)}
      OBVIOUS
    <3> HIDE DEF Accepting
    <3>2. QED
      BY <2>4, <3>1, FewAccept
  <2>6. QED
    BY <2>3, <2>5
<1>2. QED
  BY <1>1, Invariant, PTL

\* A decryption that was collected is the value at its point, and verifies.
LEMMA CollectedDecryptions ==
  ASSUME IInv, NEW F \in OfDegree(num_faults), agg # <<>> => Commits(agg[1], F),
         NEW k \in DOMAIN recon
  PROVE  /\ agg # <<>>
         /\ recon[k].origin + 1 \in Point /\ recon[k].origin \in Int
         /\ recon[k].dec = F[recon[k].origin + 1]
         /\ verify_decryption(agg[1], recon[k])
<1>1. agg # <<>> /\ recon \in Seq(DecryptionsOf(agg[1]))
  BY DEF IInv, Decrypted
<1>2. recon[k] \in DecryptionsOf(agg[1])
  BY <1>1
<1>3. PICK i \in Point, r \in Fr : recon[k] = decrypt(agg[1], i, r)
  BY <1>2 DEF DecryptionsOf
<1>4. secret_keys \in Keys /\ Commits(agg[1], F)
  BY <1>1 DEF IInv, Contexts
<1> DEFINE d == decrypt(agg[1], i, r)
<1>5. d.dec = F[i] /\ d.origin = i - 1 /\ verify_decryption(agg[1], d)
  BY <1>4, DecryptionOfAggregate
<1>6. i \in Int
  BY Sizes DEF Point
<1> HIDE DEF d
<1>7. recon[k] = d
  BY <1>3 DEF d
<1>8. d.origin + 1 = i /\ d.origin \in Int
  BY <1>5, <1>6
<1>9. QED
  BY <1>1, <1>5, <1>7, <1>8

\* For every number of replicas and every field, every decryption verifies
\* against the aggregate (decrypt and verify_decryption in pvss.hpp).
THEOREM DecryptionsAccepted == Spec => []DecryptionsVerify
<1>1. IInv => DecryptionsVerify
  <2>1. SUFFICES ASSUME IInv, NEW k \in DOMAIN recon
        PROVE  verify_decryption(agg[1], recon[k])
    BY DEF DecryptionsVerify
  <2>2. agg # <<>>
    BY <2>1 DEF IInv, Decrypted
  <2>3. PICK F \in OfDegree(num_faults) : Aggregates(agg[1], F)
    BY <2>1, <2>2, AggregateCommits
  <2>4. QED
    BY <2>1, <2>3, CollectedDecryptions DEF Aggregates
<1>2. QED
  BY <1>1, Invariant, PTL

\* For every number of replicas and every field, whichever replicas decrypt
\* and in whichever order, the beacon is that of the sum of the secrets, and
\* verify_beacon accepts it (reconstruct in pvss.hpp).
THEOREM BeaconOfTheSecrets == Spec => []BeaconIsTheSum
<1>1. IInv => BeaconIsTheSum
  <2>1. SUFFICES ASSUME IInv, beacon # <<>>
        PROVE  /\ beacon[1].recon = Secret
               /\ beacon[1].beacon = pairing(Secret, h2)
               /\ verify_beacon(agg[1], beacon[1])
    BY DEF BeaconIsTheSum
  <2>2. beacon[1] = reconstruct(recon) /\ Len(recon) > num_faults /\ num_faults \in Nat
    BY <2>1, Sizes DEF IInv, Reconstructed
  <2>3. agg # <<>> /\ recon \in Seq(DecryptionsOf(agg[1]))
    BY <2>1, <2>2 DEF IInv, Decrypted
  <2>4. PICK F \in OfDegree(num_faults) : Aggregates(agg[1], F) /\ Secret = F[0]
    BY <2>1, <2>3, AggregateCommits
  <2>5. \A k \in DOMAIN recon : /\ recon[k].origin + 1 \in Point /\ recon[k].origin \in Int
                                /\ recon[k].dec = F[recon[k].origin + 1]
    BY <2>1, <2>4, CollectedDecryptions DEF Aggregates
  <2>6. /\ Len(recon) \in Nat /\ DOMAIN recon = 1 .. Len(recon)
        /\ \A k, l \in DOMAIN recon : recon[k].origin = recon[l].origin => k = l
    BY <2>1, <2>3 DEF IInv, Decrypted
  <2>7. reconstruct(recon).recon = F[0] /\ reconstruct(recon).beacon = pairing(F[0], h2)
    BY <2>2, <2>5, <2>6, BeaconOfDecryptions
  <2>8. F[0] \in Fr /\ pairing(1, F[0]) = pairing(F[0], 1)
    BY OfDegreeType, ProductLaws DEF pairing
  <2>9. verify_beacon(agg[1], beacon[1])
    BY <2>2, <2>4, <2>7, <2>8 DEF verify_beacon, Aggregates
  <2>10. QED
    BY <2>2, <2>4, <2>7, <2>9
<1>2. QED
  BY <1>1, Invariant, PTL

\* The disagreement with pvss_setup.cpp:26 is about one replica only: with two
\* or more, and memory for the polynomial of that degree, every verification
\* of an aggregate comes to an end.
THEOREM SetupOfMoreEnds ==
  ASSUME N >= 2, N - num_faults - 2 < Memory
  PROVE  Spec => []SetupEnds
<1>1. Init => SetupEnds
  BY DEF Init, SetupEnds
<1>2. SetupEnds /\ [Next]_vars => SetupEnds'
  <2> SUFFICES ASSUME SetupEnds, [Next]_vars PROVE SetupEnds'
    OBVIOUS
  <2>1. CASE VerifyAggregation
    <3>1. RandomFits(DualDegree(N, num_faults))
      BY Sizes DEF RandomFits
    <3>2. QED
      BY <2>1, <3>1 DEF VerifyAggregation, SetupEnds
  <2>2. CASE ~ VerifyAggregation
    <3>1. checked' = checked
      BY <2>2 DEF Next, vars, Share, Aggregate, Decrypt, Reconstruct
    <3>2. QED
      BY <3>1 DEF SetupEnds
  <2>3. QED
    BY <2>1, <2>2
<1>3. QED
  BY <1>1, <1>2, PTL DEF Spec
===============================================================================
