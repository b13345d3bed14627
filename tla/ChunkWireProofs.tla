--------------------------- MODULE ChunkWireProofs ----------------------------
(***************************************************************************)
(* Chunk messages in bytes, for every number of replicas and threshold,    *)
(* every base and width of the integers, sizes of hashes and word groups,  *)
(* and every length of the sharings: what the receivers relay, keep,       *)
(* decode and fill.                                                        *)
(*                                                                         *)
(* The argument goes from the bytes to the handler.  A number is read as   *)
(* it was written if it can be written; pieces that are joined lie one     *)
(* behind the other, and are taken from where they lie; so a path and a    *)
(* message are read as they were written.  By induction over the tree the  *)
(* path of a leaf leads to the root, so that a dealt chunk is proven by    *)
(* the message it is in; the data blocks of a stream, joined, are the      *)
(* stream (with ErasureProofs).  Then, by WireInv, what is handled is      *)
(* always one of the dealers' messages, and what is kept their blocks.     *)
(*                                                                         *)
(* The recursive functions are taken apart after it is proved that they    *)
(* exist; sets of numbers take the place of induction over a formula.      *)
(***************************************************************************)
EXTENDS ChunkWire, WellFoundedInduction, SequenceTheorems, TLAPS

-----------------------------------------------------------------------------
(* Induction, and the functions that the recursive definitions stand for.  *)

\* A set of naturals that is not empty has a least element.
LEMMA LeastElement ==
  ASSUME NEW S, S \subseteq Nat, S # {}
  PROVE  \E m \in S : \A n \in S : m <= n
<1> DEFINE R == {ss \in Nat \X Nat : ss[1] < ss[2]}
<1>1. IsWellFoundedOn(R, Nat)
  BY NatLessThanWellFounded DEF OpToRel
<1>2. PICK x \in S : \A y \in S : ~ (<<y, x>> \in R)
  <2> HIDE DEF R
  <2> QED BY <1>1, WFMin
<1>3. ASSUME NEW n \in S PROVE x <= n
  <2>1. <<n, x>> \in Nat \X Nat
    OBVIOUS
  <2>2. ~ (<<n, x>>[1] < <<n, x>>[2])
    BY <1>2, <2>1
  <2>3. QED
    BY <2>2
<1>4. QED
  BY <1>3

\* Induction: a set that contains 0, and with a number the next one, contains
\* all numbers.
LEMMA NatSetInduction ==
  ASSUME NEW S, 0 \in S, \A n \in Nat : n \in S => n + 1 \in S
  PROVE  \A n \in Nat : n \in S
<1> DEFINE T == {n \in Nat : n \notin S}
<1>1. SUFFICES ASSUME T # {} PROVE FALSE
  OBVIOUS
<1>2. PICK m \in T : \A n \in T : m <= n
  BY <1>1, LeastElement
<1>3. m # 0 /\ m - 1 \in Nat /\ m - 1 \in S
  BY <1>2
<1>4. QED
  BY <1>2, <1>3

\* Induction up to a bound.
LEMMA BoundedInduction ==
  ASSUME NEW S, NEW n \in Nat, 0 \in S, \A k \in 0 .. n - 1 : k \in S => k + 1 \in S
  PROVE  \A k \in 0 .. n : k \in S
<1> DEFINE T == {k \in Nat : k <= n => k \in S}
<1>1. 0 \in T
  OBVIOUS
<1>2. ASSUME NEW k \in Nat, k \in T PROVE k + 1 \in T
  <2>1. SUFFICES ASSUME k + 1 <= n PROVE k + 1 \in S
    OBVIOUS
  <2>2. k \in 0 .. n - 1 /\ k <= n
    BY <2>1
  <2>3. QED
    BY <1>2, <2>2
<1> HIDE DEF T
<1>3. \A k \in Nat : k \in T
  BY <1>1, <1>2, NatSetInduction
<1>4. QED
  BY <1>3 DEF T

\* Quotient and remainder.
LEMMA Division ==
  ASSUME NEW a \in Nat, NEW d \in Nat \ {0}
  PROVE  /\ a \div d \in Nat
         /\ a % d \in 0 .. d - 1
         /\ a = (a \div d) * d + (a % d)
OBVIOUS

\* The quotients that BigEndian writes the remainders of.
LEMMA RestExists ==
  ASSUME NEW n \in Nat, NEW m \in Nat
  PROVE  \E f : f = [i \in 0 .. m |-> IF i = 0 THEN n ELSE f[i - 1] \div Base]
<1> DEFINE S == {k \in Nat : \E f : f = [i \in 0 .. k |-> IF i = 0 THEN n ELSE f[i - 1] \div Base]}
<1>1. 0 \in S
  <2> DEFINE f == [i \in 0 .. 0 |-> n]
  <2>1. f = [i \in 0 .. 0 |-> IF i = 0 THEN n ELSE f[i - 1] \div Base]
    OBVIOUS
  <2>2. QED
    BY <2>1
<1>2. ASSUME NEW k \in Nat, k \in S PROVE k + 1 \in S
  <2>1. PICK f : f = [i \in 0 .. k |-> IF i = 0 THEN n ELSE f[i - 1] \div Base]
    BY <1>2
  <2> DEFINE g == [i \in 0 .. k + 1 |-> IF i <= k THEN f[i] ELSE f[k] \div Base]
             h == [i \in 0 .. k + 1 |-> IF i = 0 THEN n ELSE g[i - 1] \div Base]
  <2>2. ASSUME NEW i \in 0 .. k + 1 PROVE g[i] = h[i]
    <3>1. CASE i = 0
      BY <2>1, <3>1
    <3>2. CASE i # 0 /\ i <= k
      <4>1. f[i] = f[i - 1] \div Base
        BY <2>1, <3>2
      <4>2. g[i] = f[i] /\ g[i - 1] = f[i - 1] /\ h[i] = g[i - 1] \div Base
        BY <3>2
      <4>3. QED
        BY <4>1, <4>2
    <3>3. CASE i = k + 1
      BY <3>3
    <3>4. QED
      BY <3>1, <3>2, <3>3
  <2>3. g = h
    <3>1. DOMAIN g = DOMAIN h /\ g = [i \in 0 .. k + 1 |-> g[i]] /\ h = [i \in 0 .. k + 1 |-> h[i]]
      OBVIOUS
    <3> HIDE DEF g, h
    <3>2. QED
      BY <2>2, <3>1
  <2>4. \E ff : ff = [i \in 0 .. k + 1 |-> IF i = 0 THEN n ELSE ff[i - 1] \div Base]
    BY <2>3
  <2>5. QED
    BY <2>4
<1> HIDE DEF S
<1>3. m \in S
  BY <1>1, <1>2, NatSetInduction
<1>4. QED
  BY <1>3 DEF S

\* What is so far of the number that FromBigEndian reads.
LEMMA ValueExists ==
  ASSUME NEW bytes, NEW m \in Nat
  PROVE  \E f : f = [i \in 0 .. m |-> IF i = 0 THEN 0 ELSE f[i - 1] * Base + bytes[i].part]
<1> DEFINE S == {k \in Nat : \E f : f = [i \in 0 .. k |->
                                IF i = 0 THEN 0 ELSE f[i - 1] * Base + bytes[i].part]}
<1>1. 0 \in S
  <2> DEFINE f == [i \in 0 .. 0 |-> 0]
  <2>1. f = [i \in 0 .. 0 |-> IF i = 0 THEN 0 ELSE f[i - 1] * Base + bytes[i].part]
    OBVIOUS
  <2>2. QED
    BY <2>1
<1>2. ASSUME NEW k \in Nat, k \in S PROVE k + 1 \in S
  <2>1. PICK f : f = [i \in 0 .. k |-> IF i = 0 THEN 0 ELSE f[i - 1] * Base + bytes[i].part]
    BY <1>2
  <2> DEFINE g == [i \in 0 .. k + 1 |-> IF i <= k THEN f[i] ELSE f[k] * Base + bytes[i].part]
             h == [i \in 0 .. k + 1 |-> IF i = 0 THEN 0 ELSE g[i - 1] * Base + bytes[i].part]
  <2>2. ASSUME NEW i \in 0 .. k + 1 PROVE g[i] = h[i]
    <3>1. CASE i = 0
      BY <2>1, <3>1
    <3>2. CASE i # 0 /\ i <= k
      <4>1. f[i] = f[i - 1] * Base + bytes[i].part
        BY <2>1, <3>2
      <4>2. g[i] = f[i] /\ g[i - 1] = f[i - 1] /\ h[i] = g[i - 1] * Base + bytes[i].part
        BY <3>2
      <4>3. QED
        BY <4>1, <4>2
    <3>3. CASE i = k + 1
      BY <3>3
    <3>4. QED
      BY <3>1, <3>2, <3>3
  <2>3. g = h
    <3>1. DOMAIN g = DOMAIN h /\ g = [i \in 0 .. k + 1 |-> g[i]] /\ h = [i \in 0 .. k + 1 |-> h[i]]
      OBVIOUS
    <3> HIDE DEF g, h
    <3>2. QED
      BY <2>2, <3>1
  <2>4. \E ff : ff = [i \in 0 .. k + 1 |-> IF i = 0 THEN 0 ELSE ff[i - 1] * Base + bytes[i].part]
    BY <2>3
  <2>5. QED
    BY <2>4
<1> HIDE DEF S
<1>3. m \in S
  BY <1>1, <1>2, NatSetInduction
<1>4. QED
  BY <1>3 DEF S

\* The powers that Limit is the last of.
LEMMA PowerExists ==
  ASSUME NEW m \in Nat
  PROVE  \E f : f = [i \in 0 .. m |-> IF i = 0 THEN 1 ELSE Base * f[i - 1]]
<1> DEFINE S == {k \in Nat : \E f : f = [i \in 0 .. k |-> IF i = 0 THEN 1 ELSE Base * f[i - 1]]}
<1>1. 0 \in S
  <2> DEFINE f == [i \in 0 .. 0 |-> 1]
  <2>1. f = [i \in 0 .. 0 |-> IF i = 0 THEN 1 ELSE Base * f[i - 1]]
    OBVIOUS
  <2>2. QED
    BY <2>1
<1>2. ASSUME NEW k \in Nat, k \in S PROVE k + 1 \in S
  <2>1. PICK f : f = [i \in 0 .. k |-> IF i = 0 THEN 1 ELSE Base * f[i - 1]]
    BY <1>2
  <2> DEFINE g == [i \in 0 .. k + 1 |-> IF i <= k THEN f[i] ELSE Base * f[k]]
             h == [i \in 0 .. k + 1 |-> IF i = 0 THEN 1 ELSE Base * g[i - 1]]
  <2>2. ASSUME NEW i \in 0 .. k + 1 PROVE g[i] = h[i]
    <3>1. CASE i = 0
      BY <2>1, <3>1
    <3>2. CASE i # 0 /\ i <= k
      <4>1. f[i] = Base * f[i - 1]
        BY <2>1, <3>2
      <4>2. g[i] = f[i] /\ g[i - 1] = f[i - 1] /\ h[i] = Base * g[i - 1]
        BY <3>2
      <4>3. QED
        BY <4>1, <4>2
    <3>3. CASE i = k + 1
      BY <3>3
    <3>4. QED
      BY <3>1, <3>2, <3>3
  <2>3. g = h
    <3>1. DOMAIN g = DOMAIN h /\ g = [i \in 0 .. k + 1 |-> g[i]] /\ h = [i \in 0 .. k + 1 |-> h[i]]
      OBVIOUS
    <3> HIDE DEF g, h
    <3>2. QED
      BY <2>2, <3>1
  <2>4. \E ff : ff = [i \in 0 .. k + 1 |-> IF i = 0 THEN 1 ELSE Base * ff[i - 1]]
    BY <2>3
  <2>5. QED
    BY <2>4
<1> HIDE DEF S
<1>3. m \in S
  BY <1>1, <1>2, NatSetInduction
<1>4. QED
  BY <1>3 DEF S

-----------------------------------------------------------------------------
(* Numbers in bytes.                                                       *)

\* What BigEndian writes.
LEMMA BigEndianDigits ==
  ASSUME NEW n \in Nat
  PROVE  \E f \in [0 .. IntSize - 1 -> Nat] :
           /\ f[0] = n
           /\ \A i \in 1 .. IntSize - 1 : f[i] = f[i - 1] \div Base
           /\ BigEndian(n) = [i \in 1 .. IntSize |-> Digit(f[IntSize - i] % Base)]
<1>1. IntSize \in Nat /\ IntSize - 1 \in Nat /\ Base \in Nat \ {0}
  BY WidthAssumption
<1> DEFINE f == CHOOSE f : f = [i \in 0 .. IntSize - 1 |->
                                   IF i = 0 THEN n ELSE f[i - 1] \div Base]
<1>2. f = [i \in 0 .. IntSize - 1 |-> IF i = 0 THEN n ELSE f[i - 1] \div Base]
  <2>1. \E g : g = [i \in 0 .. IntSize - 1 |-> IF i = 0 THEN n ELSE g[i - 1] \div Base]
    BY <1>1, RestExists
  <2>2. QED
    BY <2>1
<1>3. BigEndian(n) = [i \in 1 .. IntSize |-> Digit(f[IntSize - i] % Base)]
  BY DEF BigEndian
<1> HIDE DEF f
<1>4. f[0] = n /\ \A i \in 1 .. IntSize - 1 : f[i] = f[i - 1] \div Base
  <2>1. f[0] = n
    BY <1>1, <1>2
  <2>2. ASSUME NEW i \in 1 .. IntSize - 1 PROVE f[i] = f[i - 1] \div Base
    <3>1. i \in 0 .. IntSize - 1 /\ i # 0
      BY <1>1
    <3>2. QED
      BY <1>2, <3>1
  <2>3. QED
    BY <2>1, <2>2
<1>5. \A i \in 0 .. IntSize - 1 : f[i] \in Nat
  <2> DEFINE S == {i \in Nat : f[i] \in Nat}
  <2>1. 0 \in S
    BY <1>4
  <2>2. ASSUME NEW i \in 0 .. (IntSize - 1) - 1, i \in S PROVE i + 1 \in S
    <3>1. i + 1 \in 1 .. IntSize - 1 /\ (i + 1) - 1 = i
      BY <1>1
    <3>2. f[i + 1] = f[i] \div Base
      BY <1>4, <3>1
    <3>3. f[i] \div Base \in Nat
      BY <1>1, <2>2, Division
    <3>4. QED
      BY <1>1, <3>2, <3>3
  <2> HIDE DEF S
  <2>3. \A i \in 0 .. IntSize - 1 : i \in S
    BY <1>1, <2>1, <2>2, BoundedInduction
  <2>4. QED
    BY <2>3 DEF S
<1>6. f \in [0 .. IntSize - 1 -> Nat]
  <2>1. f = [i \in 0 .. IntSize - 1 |-> f[i]]
    BY <1>2
  <2>2. QED
    BY <1>5, <2>1
<1>7. QED
  BY <1>3, <1>4, <1>6

\* What Limit is.
LEMMA LimitPower ==
  \E p \in [0 .. IntSize -> Nat] :
    /\ p[0] = 1
    /\ \A i \in 1 .. IntSize : p[i] = Base * p[i - 1]
    /\ Limit = p[IntSize]
<1>1. IntSize \in Nat \ {0} /\ Base \in Nat
  BY WidthAssumption
<1> DEFINE p == CHOOSE p : p = [i \in 0 .. IntSize |-> IF i = 0 THEN 1 ELSE Base * p[i - 1]]
<1>2. p = [i \in 0 .. IntSize |-> IF i = 0 THEN 1 ELSE Base * p[i - 1]]
  <2>1. \E g : g = [i \in 0 .. IntSize |-> IF i = 0 THEN 1 ELSE Base * g[i - 1]]
    BY <1>1, PowerExists
  <2>2. QED
    BY <2>1
<1>3. Limit = p[IntSize]
  BY DEF Limit
<1> HIDE DEF p
<1>4. p[0] = 1 /\ \A i \in 1 .. IntSize : p[i] = Base * p[i - 1]
  <2>1. p[0] = 1
    BY <1>1, <1>2
  <2>2. ASSUME NEW i \in 1 .. IntSize PROVE p[i] = Base * p[i - 1]
    <3>1. i \in 0 .. IntSize /\ i # 0
      BY <1>1
    <3>2. QED
      BY <1>2, <3>1
  <2>3. QED
    BY <2>1, <2>2
<1>5. \A i \in 0 .. IntSize : p[i] \in Nat
  <2> DEFINE S == {i \in Nat : p[i] \in Nat}
  <2>1. 0 \in S
    BY <1>4
  <2>2. ASSUME NEW i \in 0 .. IntSize - 1, i \in S PROVE i + 1 \in S
    <3>1. i + 1 \in 1 .. IntSize /\ (i + 1) - 1 = i /\ i + 1 \in Nat
      BY <1>1
    <3>2. p[i + 1] = Base * p[i]
      BY <1>4, <3>1
    <3>3. p[i] \in Nat
      BY <2>2
    <3>4. QED
      BY <1>1, <3>1, <3>2, <3>3
  <2> HIDE DEF S
  <2>3. \A i \in 0 .. IntSize : i \in S
    BY <1>1, <2>1, <2>2, BoundedInduction
  <2>4. QED
    BY <2>3 DEF S
<1>6. p \in [0 .. IntSize -> Nat]
  <2>1. p = [i \in 0 .. IntSize |-> p[i]]
    BY <1>2
  <2>2. QED
    BY <1>5, <2>1
<1>7. QED
  BY <1>3, <1>4, <1>6

\* A quotient of a quotient is that much smaller.
LEMMA QuotientBelow ==
  ASSUME NEW n \in Nat, NEW a \in Nat, NEW b \in Nat \ {0}, NEW w \in Nat, a * w <= n
  PROVE  (a \div b) * (b * w) <= n
<1> DEFINE q == a \div b
           r == a % b
<1>1. q \in Nat /\ r \in Nat /\ a = q * b + r
  <2>1. q \in Nat /\ r \in 0 .. b - 1 /\ a = q * b + r
    BY Division
  <2> HIDE DEF q, r
  <2>2. QED
    BY <2>1
<1> HIDE DEF q, r
<1>2. a * w = q * (b * w) + r * w
  BY <1>1
<1>3. r * w \in Nat /\ q * (b * w) \in Nat
  BY <1>1
<1>4. q * (b * w) <= n
  BY <1>2, <1>3
<1>5. QED
  BY <1>4 DEF q

\* The first of two factors is less if the product is.
LEMMA FactorLess ==
  ASSUME NEW a \in Nat, NEW b \in Nat, NEW w \in Nat, a * w < b * w
  PROVE  a < b
<1>1. SUFFICES ASSUME b <= a PROVE FALSE
  OBVIOUS
<1>2. a - b \in Nat /\ a * w = b * w + (a - b) * w /\ (a - b) * w \in Nat /\ b * w \in Nat
  BY <1>1
<1>3. QED
  BY <1>2

\* Of a number that can be written, the last quotient is a digit.
LEMMA LastRest ==
  ASSUME NEW n \in Nat, n < Limit, NEW f \in [0 .. IntSize - 1 -> Nat], f[0] = n,
         \A i \in 1 .. IntSize - 1 : f[i] = f[i - 1] \div Base
  PROVE  f[IntSize - 1] < Base
<1>1. IntSize \in Nat \ {0} /\ IntSize - 1 \in Nat /\ Base \in Nat \ {0}
  BY WidthAssumption
<1>2. PICK p \in [0 .. IntSize -> Nat] :
        /\ p[0] = 1
        /\ \A i \in 1 .. IntSize : p[i] = Base * p[i - 1]
        /\ Limit = p[IntSize]
  BY LimitPower
<1> DEFINE S == {i \in Nat : f[i] * p[i] <= n}
<1>3. 0 \in S
  BY <1>2
<1>4. ASSUME NEW i \in 0 .. (IntSize - 1) - 1, i \in S PROVE i + 1 \in S
  <2>1. /\ i + 1 \in 1 .. IntSize - 1 /\ i + 1 \in 1 .. IntSize /\ (i + 1) - 1 = i
        /\ i \in 0 .. IntSize - 1 /\ i \in 0 .. IntSize /\ i + 1 \in Nat
    BY <1>1
  <2>2. f[i + 1] = f[i] \div Base /\ p[i + 1] = Base * p[i]
    BY <1>2, <2>1
  <2>3. f[i] \in Nat /\ p[i] \in Nat /\ f[i] * p[i] <= n
    BY <1>2, <1>4, <2>1
  <2>4. (f[i] \div Base) * (Base * p[i]) <= n
    BY <1>1, <2>3, QuotientBelow
  <2>5. QED
    BY <2>1, <2>2, <2>4
<1> HIDE DEF S
<1>5. \A i \in 0 .. IntSize - 1 : i \in S
  BY <1>1, <1>3, <1>4, BoundedInduction
<1> DEFINE m == IntSize - 1
<1>6. f[m] * p[m] <= n
  <2>1. m \in 0 .. IntSize - 1
    BY <1>1
  <2>2. QED
    BY <1>5, <2>1 DEF S
<1>7. Limit = Base * p[m] /\ p[m] \in Nat /\ f[m] \in Nat
  <2>1. IntSize \in 1 .. IntSize /\ m \in 0 .. IntSize /\ m \in 0 .. IntSize - 1
    BY <1>1
  <2>2. QED
    BY <1>2, <2>1
<1> HIDE DEF m
<1>8. f[m] * p[m] < Base * p[m]
  <2>1. f[m] * p[m] \in Nat /\ Base * p[m] \in Nat
    BY <1>1, <1>7
  <2>2. QED
    BY <1>6, <1>7, <2>1
<1>9. f[m] < Base
  BY <1>1, <1>7, <1>8, FactorLess
<1>10. QED
  BY <1>9 DEF m

\* The integers of IntSize bytes, most significant first, are read as written.
LEMMA ReadBigEndian ==
  ASSUME NEW n \in Nat, n < Limit
  PROVE  FromBigEndian(BigEndian(n)) = n
<1>1. IntSize \in Nat \ {0} /\ IntSize - 1 \in Nat /\ Base \in Nat \ {0}
  BY WidthAssumption
<1>2. PICK f \in [0 .. IntSize - 1 -> Nat] :
        /\ f[0] = n
        /\ \A i \in 1 .. IntSize - 1 : f[i] = f[i - 1] \div Base
        /\ BigEndian(n) = [i \in 1 .. IntSize |-> Digit(f[IntSize - i] % Base)]
  BY BigEndianDigits
<1> DEFINE b == BigEndian(n)
           v == CHOOSE v : v = [i \in 0 .. Len(b) |->
                                  IF i = 0 THEN 0 ELSE v[i - 1] * Base + b[i].part]
<1>3. Len(b) = IntSize /\ \A i \in 1 .. IntSize : b[i].part = f[IntSize - i] % Base
  BY <1>1, <1>2 DEF Digit
<1>4. FromBigEndian(b) = v[Len(b)]
  BY DEF FromBigEndian
<1> HIDE DEF b
<1>5. v = [i \in 0 .. Len(b) |-> IF i = 0 THEN 0 ELSE v[i - 1] * Base + b[i].part]
  <2>1. \E g : g = [i \in 0 .. Len(b) |-> IF i = 0 THEN 0 ELSE g[i - 1] * Base + b[i].part]
    BY <1>1, <1>3, ValueExists
  <2>2. QED
    BY <2>1
<1> HIDE DEF v
<1>6. v[0] = 0 /\ \A i \in 1 .. IntSize : v[i] = v[i - 1] * Base + (f[IntSize - i] % Base)
  <2>1. v[0] = 0
    BY <1>1, <1>3, <1>5
  <2>2. ASSUME NEW i \in 1 .. IntSize PROVE v[i] = v[i - 1] * Base + (f[IntSize - i] % Base)
    <3>1. i \in 0 .. Len(b) /\ i # 0
      BY <1>1, <1>3
    <3>2. v[i] = v[i - 1] * Base + b[i].part
      BY <1>5, <3>1
    <3>3. QED
      BY <1>3, <3>2
  <2>3. QED
    BY <2>1, <2>2
<1>7. f[IntSize - 1] < Base
  BY <1>2, LastRest
<1> DEFINE S == {i \in Nat : v[i + 1] = f[IntSize - 1 - i]}
<1>8. 0 \in S
  <2> DEFINE x == f[IntSize - 1]
  <2>1. x \in Nat
    BY <1>1
  <2>2. 1 \in 1 .. IntSize /\ 1 - 1 = 0
    BY <1>1
  <2>3. v[1] = v[0] * Base + (x % Base)
    BY <1>6, <2>2
  <2> HIDE DEF x
  <2>4. x % Base = x
    <3>1. x < Base
      BY <1>7 DEF x
    <3>2. QED
      BY <1>1, <2>1, <3>1
  <2>5. v[1] = x
    BY <1>1, <1>6, <2>1, <2>3, <2>4
  <2>6. QED
    BY <1>1, <2>5 DEF x
<1>9. ASSUME NEW i \in 0 .. (IntSize - 1) - 1, i \in S PROVE i + 1 \in S
  <2> DEFINE j == IntSize - 1 - i
  <2>1. /\ j \in 1 .. IntSize - 1 /\ j - 1 = IntSize - (i + 2) /\ j - 1 = IntSize - 1 - (i + 1)
        /\ i + 2 \in 1 .. IntSize /\ (i + 2) - 1 = i + 1 /\ (i + 1) + 1 = i + 2
        /\ j - 1 \in 0 .. IntSize - 1 /\ i + 1 \in Nat
    BY <1>1
  <2>2. v[i + 2] = v[i + 1] * Base + (f[j - 1] % Base)
    BY <1>6, <2>1
  <2>3. v[i + 1] = f[j]
    BY <1>9
  <2> HIDE DEF j
  <2>4. f[j] = f[j - 1] \div Base /\ f[j - 1] \in Nat
    BY <1>2, <2>1
  <2>5. f[j - 1] = (f[j - 1] \div Base) * Base + (f[j - 1] % Base)
    BY <1>1, <2>4, Division
  <2>6. v[i + 2] = f[j - 1]
    BY <2>2, <2>3, <2>4, <2>5
  <2>7. QED
    BY <2>1, <2>6
<1> HIDE DEF S
<1>10. \A i \in 0 .. IntSize - 1 : i \in S
  BY <1>1, <1>8, <1>9, BoundedInduction
<1>11. v[IntSize] = f[0]
  <2>1. IntSize - 1 \in S
    BY <1>1, <1>10
  <2>2. (IntSize - 1) + 1 = IntSize /\ IntSize - 1 - (IntSize - 1) = 0
    BY <1>1
  <2>3. QED
    BY <2>1, <2>2 DEF S
<1>12. QED
  BY <1>2, <1>3, <1>4, <1>11 DEF b

\* A number's bytes are so many.
LEMMA NumberBytes ==
  ASSUME NEW n \in Nat
  PROVE  /\ BigEndian(n) \in Seq({Digit(d) : d \in Nat}) /\ Len(BigEndian(n)) = IntSize
         /\ LittleEndian(n) \in Seq({Digit(d) : d \in Nat}) /\ Len(LittleEndian(n)) = IntSize
         /\ Reverse(LittleEndian(n)) = BigEndian(n)
<1>1. IntSize \in Nat \ {0} /\ Base \in Nat \ {0}
  BY WidthAssumption
<1>2. PICK f \in [0 .. IntSize - 1 -> Nat] :
        BigEndian(n) = [i \in 1 .. IntSize |-> Digit(f[IntSize - i] % Base)]
  BY BigEndianDigits
<1> DEFINE D == {Digit(d) : d \in Nat}
           b == BigEndian(n)
<1>3. \A i \in 1 .. IntSize : Digit(f[IntSize - i] % Base) \in D
  <2>1. SUFFICES ASSUME NEW i \in 1 .. IntSize PROVE f[IntSize - i] % Base \in Nat
    OBVIOUS
  <2> DEFINE x == f[IntSize - i]
  <2>2. x \in Nat
    <3>1. IntSize - i \in 0 .. IntSize - 1
      BY <1>1
    <3>2. QED
      BY <3>1
  <2> HIDE DEF x
  <2>3. x % Base \in 0 .. Base - 1
    BY <1>1, <2>2, Division
  <2>4. QED
    BY <1>1, <2>3 DEF x
<1> HIDE DEF D
<1>4. b \in Seq(D) /\ Len(b) = IntSize
  BY <1>1, <1>2, <1>3
<1>5. b = [i \in 1 .. IntSize |-> b[i]]
  BY <1>2
<1> HIDE DEF b
<1>6. LittleEndian(n) = [i \in 1 .. IntSize |-> b[(IntSize - i) + 1]]
  BY <1>4 DEF LittleEndian, Reverse, b
<1> DEFINE l == LittleEndian(n)
<1>7. \A i \in 1 .. IntSize : (IntSize - i) + 1 \in 1 .. IntSize
  BY <1>1
<1>8. \A i \in 1 .. IntSize : b[(IntSize - i) + 1] \in D
  BY <1>4, <1>7
<1>9. l \in Seq(D) /\ Len(l) = IntSize
  BY <1>1, <1>6, <1>8
<1>10. Reverse(l) = b
  <2>1. Reverse(l) = [i \in 1 .. IntSize |-> l[(IntSize - i) + 1]]
    BY <1>9 DEF Reverse
  <2>2. ASSUME NEW i \in 1 .. IntSize PROVE l[(IntSize - i) + 1] = b[i]
    <3> DEFINE j == (IntSize - i) + 1
    <3>1. j \in 1 .. IntSize /\ (IntSize - j) + 1 = i
      BY <1>1
    <3> HIDE DEF j
    <3>2. l[j] = b[(IntSize - j) + 1]
      BY <1>6, <3>1
    <3>3. QED
      BY <3>1, <3>2 DEF j
  <2> HIDE DEF l
  <2>3. QED
    BY <1>5, <2>1, <2>2
<1>11. QED
  BY <1>4, <1>9, <1>10 DEF D, b

\* ... and least significant first.
LEMMA ReadLittleEndian ==
  ASSUME NEW n \in Nat, n < Limit
  PROVE  FromLittleEndian(LittleEndian(n)) = n
BY NumberBytes, ReadBigEndian DEF FromLittleEndian

-----------------------------------------------------------------------------
(***************************************************************************)
(* Sequences and their parts.                                              *)
(***************************************************************************)
\* What can be joined and cut.
Listed(s) == \E S : s \in Seq(S)

\* The piece p lies behind the first at elements of s.
LiesAt(s, at, p) ==
  at + Len(p) <= Len(s) /\ \A j \in 1 .. Len(p) : s[at + j] = p[j]

\* A listed sequence is a function on its positions.
LEMMA ListedDomain ==
  ASSUME NEW s, Listed(s)
  PROVE  Len(s) \in Nat /\ DOMAIN s = 1 .. Len(s) /\ s = [j \in 1 .. Len(s) |-> s[j]]
BY DEF Listed

\* A sequence written out is listed.
LEMMA ListedFunction ==
  ASSUME NEW n \in Nat, NEW s, s = [j \in 1 .. n |-> s[j]]
  PROVE  Listed(s) /\ Len(s) = n
<1> DEFINE S == {s[j] : j \in 1 .. n}
<1>1. s \in [1 .. n -> S]
  OBVIOUS
<1> HIDE DEF S
<1>2. s \in Seq(S) /\ Len(s) = n
  BY <1>1
<1> QED BY <1>2 DEF Listed

\* Two listed sequences joined.
LEMMA Joining ==
  ASSUME NEW s, NEW t, Listed(s), Listed(t)
  PROVE  /\ Listed(s \o t)
         /\ Len(s \o t) = Len(s) + Len(t)
         /\ \A j \in 1 .. Len(s) : (s \o t)[j] = s[j]
         /\ \A j \in 1 .. Len(t) : (s \o t)[Len(s) + j] = t[j]
<1>1. PICK S, T : s \in Seq(S) /\ t \in Seq(T)
  BY DEF Listed
<1> DEFINE U == S \cup T
<1>2. s \in Seq(U) /\ t \in Seq(U)
  <2>1. s = [j \in 1 .. Len(s) |-> s[j]] /\ t = [j \in 1 .. Len(t) |-> t[j]]
        /\ Len(s) \in Nat /\ Len(t) \in Nat
    BY <1>1
  <2>2. (\A j \in 1 .. Len(s) : s[j] \in S) /\ \A j \in 1 .. Len(t) : t[j] \in T
    BY <1>1
  <2>3. s \in [1 .. Len(s) -> U] /\ t \in [1 .. Len(t) -> U]
    BY <2>1, <2>2
  <2> HIDE DEF U
  <2> QED BY <2>1, <2>3
<1> HIDE DEF U
<1>3. s \o t \in Seq(U) /\ Len(s \o t) = Len(s) + Len(t)
  BY <1>2
<1>4. \A j \in 1 .. Len(s) : (s \o t)[j] = s[j]
  BY <1>2
<1>5. \A j \in 1 .. Len(t) : (s \o t)[Len(s) + j] = t[j]
  BY <1>2
<1> QED BY <1>3, <1>4, <1>5 DEF Listed

\* A piece stays where it is when something is joined on.
LEMMA StaysAt ==
  ASSUME NEW s, NEW t, NEW p, NEW at \in Nat, Listed(s), Listed(t), Listed(p), LiesAt(s, at, p)
  PROVE  LiesAt(s \o t, at, p)
<1>1. /\ Len(s) \in Nat /\ Len(t) \in Nat /\ Len(p) \in Nat
      /\ Len(s \o t) = Len(s) + Len(t)
      /\ \A j \in 1 .. Len(s) : (s \o t)[j] = s[j]
  BY Joining, ListedDomain
<1>2. \A j \in 1 .. Len(p) : at + j \in 1 .. Len(s)
  BY <1>1 DEF LiesAt
<1> DEFINE st == s \o t
<1>3. Len(st) = Len(s) + Len(t) /\ \A j \in 1 .. Len(s) : st[j] = s[j]
  BY <1>1
<1> HIDE DEF st
<1>4. LiesAt(st, at, p)
  BY <1>1, <1>2, <1>3 DEF LiesAt
<1> QED BY <1>4 DEF st

\* What is joined on lies at the end.
LEMMA JoinedAt ==
  ASSUME NEW s, NEW t, Listed(s), Listed(t)
  PROVE  LiesAt(s \o t, Len(s), t)
<1>1. /\ Len(s) \in Nat /\ Len(t) \in Nat
      /\ Len(s \o t) = Len(s) + Len(t)
      /\ \A j \in 1 .. Len(t) : (s \o t)[Len(s) + j] = t[j]
  BY Joining, ListedDomain
<1> DEFINE st == s \o t
<1> HIDE DEF st
<1>2. LiesAt(st, Len(s), t)
  BY <1>1 DEF LiesAt, st
<1> QED BY <1>2 DEF st

\* A piece is taken from where it lies.
LEMMA TakenFrom ==
  ASSUME NEW s, NEW p, NEW at \in Nat, Listed(s), Listed(p), LiesAt(s, at, p)
  PROVE  Take(s, at, Len(p)) = p
<1>1. Len(s) \in Nat /\ Len(p) \in Nat /\ p = [j \in 1 .. Len(p) |-> p[j]]
  BY ListedDomain
<1>2. PICK S : s \in Seq(S)
  BY DEF Listed
<1>3. at + Len(p) <= Len(s) /\ \A j \in 1 .. Len(p) : s[at + j] = p[j]
  BY DEF LiesAt
<1>4. SubSeq(s, at + 1, at + Len(p)) = [j \in 1 .. Len(p) |-> s[at + j]]
  <2> DEFINE m == at + 1
             n == at + Len(p)
  <2>1. /\ m \in Nat /\ n \in Nat /\ (n - m) + 1 = Len(p)
        /\ \A j \in 1 .. Len(p) : (m + j) - 1 = at + j
    BY <1>1
  <2>2. SubSeq(s, m, n) = [j \in 1 .. (n - m) + 1 |-> s[(m + j) - 1]]
    <3> HIDE DEF m, n
    <3> QED BY <2>1 DEF SubSeq
  <2> HIDE DEF m, n
  <2>3. SubSeq(s, m, n) = [j \in 1 .. Len(p) |-> s[at + j]]
    BY <2>1, <2>2
  <2> QED BY <2>3 DEF m, n
<1> QED BY <1>1, <1>3, <1>4 DEF Take

\* A part of a sequence, element by element.
LEMMA Taken ==
  ASSUME NEW s, NEW at \in Nat, NEW n \in Nat, Listed(s), at + n <= Len(s)
  PROVE  /\ Listed(Take(s, at, n)) /\ Len(Take(s, at, n)) = n
         /\ \A j \in 1 .. n : Take(s, at, n)[j] = s[at + j]
<1> DEFINE p == [j \in 1 .. n |-> s[at + j]]
<1>1. p = [j \in 1 .. n |-> p[j]]
  OBVIOUS
<1>2. \A j \in 1 .. n : p[j] = s[at + j]
  OBVIOUS
<1> HIDE DEF p
<1>3. Listed(p) /\ Len(p) = n
  BY <1>1, ListedFunction
<1>4. LiesAt(s, at, p)
  BY <1>2, <1>3 DEF LiesAt
<1>5. Take(s, at, n) = p
  BY <1>3, <1>4, TakenFrom
<1> QED BY <1>2, <1>3, <1>5

-----------------------------------------------------------------------------
(* Pieces joined.                                                          *)

\* Two sequences joined.
Cat(s, t) == s \o t

\* The joins that FlattenSeq makes one after the other.
LEMMA JoinsExist ==
  ASSUME NEW pieces, NEW m \in Nat
  PROVE  \E f : f = [i \in 1 .. m |-> IF i = 1 THEN pieces[i] ELSE Cat(f[i - 1], pieces[i])]
<1> DEFINE S == {k \in Nat : \E f : f = [i \in 1 .. k |->
                                IF i = 1 THEN pieces[i] ELSE Cat(f[i - 1], pieces[i])]}
<1>1. 0 \in S
  <2> DEFINE f == [i \in 1 .. 0 |-> 0]
  <2>1. f = [i \in 1 .. 0 |-> IF i = 1 THEN pieces[i] ELSE Cat(f[i - 1], pieces[i])]
    OBVIOUS
  <2>2. QED
    BY <2>1
<1>2. ASSUME NEW k \in Nat, k \in S PROVE k + 1 \in S
  <2>1. PICK f : f = [i \in 1 .. k |-> IF i = 1 THEN pieces[i] ELSE Cat(f[i - 1], pieces[i])]
    BY <1>2
  <2> DEFINE g == [i \in 1 .. k + 1 |-> IF i <= k THEN f[i]
                                        ELSE IF i = 1 THEN pieces[i] ELSE Cat(f[i - 1], pieces[i])]
             h == [i \in 1 .. k + 1 |-> IF i = 1 THEN pieces[i] ELSE Cat(g[i - 1], pieces[i])]
  <2>2. ASSUME NEW i \in 1 .. k + 1 PROVE g[i] = h[i]
    <3>1. CASE i = 1
      BY <2>1, <3>1
    <3>2. CASE i # 1 /\ i <= k
      <4>1. f[i] = Cat(f[i - 1], pieces[i])
        BY <2>1, <3>2
      <4>2. g[i] = f[i] /\ g[i - 1] = f[i - 1] /\ h[i] = Cat(g[i - 1], pieces[i])
        BY <3>2
      <4>3. QED
        BY <4>1, <4>2
    <3>3. CASE i # 1 /\ i = k + 1
      <4>1. i - 1 \in 1 .. k + 1 /\ i - 1 <= k /\ ~ i <= k
        BY <3>3
      <4>2. /\ g[i] = Cat(f[i - 1], pieces[i]) /\ g[i - 1] = f[i - 1]
            /\ h[i] = Cat(g[i - 1], pieces[i])
        BY <3>3, <4>1
      <4> QED BY <4>2
    <3>4. QED
      BY <3>1, <3>2, <3>3
  <2>3. g = h
    <3>1. DOMAIN g = DOMAIN h /\ g = [i \in 1 .. k + 1 |-> g[i]] /\ h = [i \in 1 .. k + 1 |-> h[i]]
      OBVIOUS
    <3> HIDE DEF g, h
    <3>2. QED
      BY <2>2, <3>1
  <2>4. \E ff : ff = [i \in 1 .. k + 1 |-> IF i = 1 THEN pieces[i] ELSE Cat(ff[i - 1], pieces[i])]
    BY <2>3
  <2>5. QED
    BY <2>4
<1> HIDE DEF S
<1>3. m \in S
  BY <1>1, <1>2, NatSetInduction
<1>4. QED
  BY <1>3 DEF S

\* The beginning of the i-th of pieces of length len.
PieceAt(i, len) == (i - 1) * len

\* A piece begins where the one before it ends.
LEMMA PieceAtNext ==
  ASSUME NEW i \in Nat \ {0}, NEW len \in Nat
  PROVE  /\ PieceAt(i, len) \in Nat
         /\ PieceAt(i + 1, len) = PieceAt(i, len) + len
         /\ PieceAt(1, len) = 0
<1>1. i - 1 \in Nat /\ (i + 1) - 1 = (i - 1) + 1
  OBVIOUS
<1>2. ((i - 1) + 1) * len = (i - 1) * len + len /\ (i - 1) * len \in Nat
  BY <1>1
<1> QED BY <1>1, <1>2 DEF PieceAt

\* Pieces of one length, joined, lie one behind the other.
LEMMA Flattened ==
  ASSUME NEW n \in Nat, NEW len \in Nat, NEW pieces, Listed(pieces), Len(pieces) = n,
         \A i \in 1 .. n : Listed(pieces[i]) /\ Len(pieces[i]) = len,
         Listed(<<>>)
  PROVE  /\ Listed(FlattenSeq(pieces))
         /\ Len(FlattenSeq(pieces)) = PieceAt(n + 1, len)
         /\ \A i \in 1 .. n : LiesAt(FlattenSeq(pieces), PieceAt(i, len), pieces[i])
<1>1. CASE n = 0
  <2>1. FlattenSeq(pieces) = pieces
    BY <1>1 DEF FlattenSeq
  <2>2. PieceAt(n + 1, len) = 0
    BY <1>1, PieceAtNext
  <2> QED BY <1>1, <2>1, <2>2
<1>2. CASE n # 0
  <2> DEFINE f == CHOOSE f : f = [i \in 1 .. n |->
                                    IF i = 1 THEN pieces[i] ELSE Cat(f[i - 1], pieces[i])]
  <2>1. f = [i \in 1 .. n |-> IF i = 1 THEN pieces[i] ELSE Cat(f[i - 1], pieces[i])]
    <3>1. \E g : g = [i \in 1 .. n |-> IF i = 1 THEN pieces[i] ELSE Cat(g[i - 1], pieces[i])]
      BY JoinsExist
    <3> QED BY <3>1
  <2>2. FlattenSeq(pieces) = f[n]
    BY <1>2 DEF FlattenSeq, Cat
  <2> HIDE DEF f
  <2>3. f[1] = pieces[1]
    BY <1>2, <2>1
  <2>4. ASSUME NEW i \in 1 .. n - 1 PROVE f[i + 1] = Cat(f[i], pieces[i + 1])
    <3>1. i + 1 \in 1 .. n /\ i + 1 # 1 /\ (i + 1) - 1 = i
      OBVIOUS
    <3> QED BY <2>1, <3>1
  <2> DEFINE G(k) == /\ Listed(f[k]) /\ Len(f[k]) = PieceAt(k + 1, len)
                     /\ \A i \in 1 .. k : LiesAt(f[k], PieceAt(i, len), pieces[i])
             S == {k \in Nat : G(k + 1)}
  <2>5. 0 \in S
    <3>1. 1 \in 1 .. n
      BY <1>2
    <3>2. Listed(pieces[1]) /\ Len(pieces[1]) = len
      BY <3>1
    <3>3. PieceAt(1, len) = 0 /\ PieceAt(1 + 1, len) = len
      <4>1. (1 - 1) * len = 0 /\ ((1 + 1) - 1) * len = len
        OBVIOUS
      <4> QED BY <4>1 DEF PieceAt
    <3>4. LiesAt(f[1], PieceAt(1, len), pieces[1])
      <4> DEFINE p == pieces[1]
      <4>1. Len(p) \in Nat /\ \A j \in 1 .. Len(p) : 0 + j = j
        BY <3>2
      <4> HIDE DEF p
      <4>2. LiesAt(p, 0, p)
        BY <4>1 DEF LiesAt
      <4> QED BY <2>3, <3>3, <4>2 DEF p
    <3>5. G(1)
      BY <2>3, <3>2, <3>3, <3>4
    <3> QED BY <3>5
  <2>6. ASSUME NEW k \in 0 .. (n - 1) - 1, k \in S PROVE k + 1 \in S
    <3> DEFINE i == k + 1
    <3>1. i \in 1 .. n - 1 /\ i + 1 \in 1 .. n /\ i \in Nat /\ i # 0 /\ i + 1 \in Nat \ {0}
      OBVIOUS
    <3>2. G(i)
      BY <2>6
    <3> HIDE DEF i
    <3>3. f[i + 1] = f[i] \o pieces[i + 1]
      BY <2>4, <3>1 DEF Cat
    <3>4. Listed(pieces[i + 1]) /\ Len(pieces[i + 1]) = len
      BY <3>1
    <3>5. Listed(f[i]) /\ Len(f[i]) = PieceAt(i + 1, len)
      BY <3>2
    <3>6. Listed(f[i + 1]) /\ Len(f[i + 1]) = PieceAt(i + 1, len) + len
      <4>1. LET s == f[i]
                t == pieces[i + 1]
            IN  Listed(s \o t) /\ Len(s \o t) = Len(s) + Len(t)
        BY <3>4, <3>5, Joining
      <4> QED BY <3>3, <3>4, <3>5, <4>1
    <3>7. PieceAt((i + 1) + 1, len) = PieceAt(i + 1, len) + len
      BY <3>1, PieceAtNext
    <3>8. ASSUME NEW b \in 1 .. i + 1 PROVE LiesAt(f[i + 1], PieceAt(b, len), pieces[b])
      <4>1. CASE b \in 1 .. i
        <5>1. b \in 1 .. n /\ b \in Nat \ {0}
          BY <3>1, <4>1
        <5>2. /\ LiesAt(f[i], PieceAt(b, len), pieces[b])
              /\ Listed(pieces[b]) /\ PieceAt(b, len) \in Nat
          BY <3>2, <4>1, <5>1, PieceAtNext
        <5> QED BY <3>3, <3>4, <3>5, <5>2, StaysAt
      <4>2. CASE b = i + 1
        <5>1. LiesAt(f[i] \o pieces[i + 1], Len(f[i]), pieces[i + 1])
          BY <3>4, <3>5, JoinedAt
        <5> QED BY <3>3, <3>5, <4>2, <5>1
      <4> QED BY <3>1, <4>1, <4>2
    <3>9. G(i + 1)
      BY <3>6, <3>7, <3>8
    <3> QED BY <3>1, <3>9 DEF i
  <2> HIDE DEF S, G
  <2>7. \A k \in 0 .. n - 1 : k \in S
    <3>1. n - 1 \in Nat
      BY <1>2
    <3> QED BY <2>5, <2>6, <3>1, BoundedInduction
  <2>8. G(n)
    <3>1. n - 1 \in 0 .. n - 1 /\ (n - 1) + 1 = n
      BY <1>2
    <3> QED BY <2>7, <3>1 DEF S
  <2> QED BY <2>2, <2>8 DEF G
<1> QED BY <1>1, <1>2

\* Every position up to the end of n pieces is in one of them.
LEMMA PositionInPiece ==
  ASSUME NEW n \in Nat, NEW len \in Nat, NEW p \in Nat, p >= 1, p <= PieceAt(n + 1, len)
  PROVE  \E i \in 1 .. n, j \in 1 .. len : p = PieceAt(i, len) + j
<1>1. len # 0
  <2>1. SUFFICES ASSUME len = 0 PROVE PieceAt(n + 1, len) = 0
    OBVIOUS
  <2> QED BY <2>1 DEF PieceAt
<1> DEFINE q == (p - 1) \div len
           r == (p - 1) % len
<1>2. q \in Nat /\ r \in 0 .. len - 1 /\ p - 1 = q * len + r
  <2>1. p - 1 \in Nat /\ len \in Nat \ {0}
    BY <1>1
  <2> QED BY <2>1, Division
<1> HIDE DEF q, r
<1>3. PieceAt(n + 1, len) = n * len /\ PieceAt(q + 1, len) = q * len
  BY <1>2 DEF PieceAt
<1>4. q * len < n * len
  <2>1. q * len \in Nat /\ n * len \in Nat
    BY <1>2
  <2> QED BY <1>2, <1>3, <2>1
<1>5. q < n
  BY <1>2, <1>4, FactorLess
<1>6. q + 1 \in 1 .. n /\ r + 1 \in 1 .. len /\ p = q * len + (r + 1)
  <2>1. q * len \in Nat
    BY <1>2
  <2> QED BY <1>2, <1>5, <2>1
<1> QED BY <1>3, <1>6

-----------------------------------------------------------------------------
(* Where a tree is split.                                                  *)

\* An odd divisor of twice a number divides the number.
LEMMA OddDivisor ==
  ASSUME NEW p \in Nat \ {0}, NEW d \in 2 .. 2 * p, (2 * p) % d = 0, d % 2 # 0
  PROVE  d \in 2 .. p /\ p % d = 0
<1> DEFINE e == (2 * p) \div d
           a == d \div 2
<1>1. e \in Nat /\ 2 * p = e * d
  <2>1. 2 * p \in Nat /\ d \in Nat \ {0}
    OBVIOUS
  <2>2. 2 * p = ((2 * p) \div d) * d + ((2 * p) % d) /\ (2 * p) \div d \in Nat
    BY <2>1, Division
  <2> DEFINE q == (2 * p) \div d
  <2>3. q \in Nat /\ 2 * p = q * d + 0
    BY <2>2
  <2> HIDE DEF q
  <2>4. q * d \in Nat
    BY <2>3
  <2>5. 2 * p = q * d
    BY <2>3, <2>4
  <2> QED BY <2>3, <2>5 DEF q
<1>2. a \in Nat /\ d = 2 * a + 1
  OBVIOUS
<1> HIDE DEF e, a
<1>3. 2 * p = 2 * (a * e) + e /\ a * e \in Nat
  <2>1. a * e \in Nat /\ e * (2 * a + 1) = 2 * (a * e) + e
    BY <1>1, <1>2
  <2> QED BY <1>1, <1>2, <2>1
<1> DEFINE f == p - a * e
<1>4. f \in Nat /\ e = 2 * f
  BY <1>1, <1>3
<1> HIDE DEF f
<1>5. f * d = p
  <2>1. 2 * p = (2 * f) * d
    BY <1>1, <1>4
  <2>2. (2 * f) * d = 2 * (f * d) /\ f * d \in Nat
    BY <1>4
  <2> QED BY <2>1, <2>2
<1>6. f # 0
  BY <1>2, <1>4, <1>5
<1>7. d <= p
  <2>1. (f - 1) * d \in Nat /\ f * d = (f - 1) * d + d
    BY <1>4, <1>6
  <2> QED BY <1>5, <2>1
<1>8. p % d = 0
  <2>1. d \in Nat \ {0}
    OBVIOUS
  <2> DEFINE q == p \div d
             r == p % d
  <2>2. q \in Nat /\ r \in 0 .. d - 1 /\ p = q * d + r
    BY <2>1, Division
  <2> HIDE DEF q, r
  <2>3. CASE q < f
    <3>1. f - q - 1 \in Nat /\ f * d = q * d + d + (f - q - 1) * d /\ (f - q - 1) * d \in Nat
      BY <1>4, <2>2, <2>3
    <3>2. q * d \in Nat
      BY <2>2
    <3> QED BY <1>5, <2>2, <3>1, <3>2
  <2>4. CASE q > f
    <3>1. q - f - 1 \in Nat /\ q * d = f * d + d + (q - f - 1) * d /\ (q - f - 1) * d \in Nat
      BY <1>4, <2>2, <2>4
    <3>2. f * d \in Nat
      BY <1>4
    <3> QED BY <1>5, <2>2, <3>1, <3>2
  <2>5. CASE q = f
    <3>1. f * d \in Nat
      BY <1>4
    <3> QED BY <1>5, <2>2, <2>5, <3>1 DEF r
  <2> QED BY <1>4, <2>2, <2>3, <2>4, <2>5
<1> QED BY <1>7, <1>8

\* The greatest power of two below n, or twice the half of that.
LEMMA PowerBelow ==
  ASSUME NEW n \in Nat, n >= 2
  PROVE  \E p \in 1 .. n - 1 : n <= 2 * p /\ Tree!PowerOfTwo(p)
<1> DEFINE S == {k \in Nat : \E p \in 1 .. (k + 2) - 1 : k + 2 <= 2 * p /\ Tree!PowerOfTwo(p)}
<1>1. 0 \in S
  <2>1. Tree!PowerOfTwo(1)
    BY DEF Tree!PowerOfTwo
  <2>2. 1 \in 1 .. (0 + 2) - 1 /\ 0 + 2 <= 2 * 1
    OBVIOUS
  <2> QED BY <2>1, <2>2
<1>2. ASSUME NEW k \in Nat, k \in S PROVE k + 1 \in S
  <2>1. PICK p \in 1 .. (k + 2) - 1 : k + 2 <= 2 * p /\ Tree!PowerOfTwo(p)
    BY <1>2
  <2>2. CASE (k + 1) + 2 <= 2 * p
    <3>1. p \in 1 .. ((k + 1) + 2) - 1
      OBVIOUS
    <3> QED BY <2>1, <2>2, <3>1
  <2>3. CASE ~ (k + 1) + 2 <= 2 * p
    <3>1. 2 * p \in 1 .. ((k + 1) + 2) - 1 /\ (k + 1) + 2 <= 2 * (2 * p) /\ p \in Nat \ {0}
      BY <2>1, <2>3
    <3>2. ASSUME NEW d \in 2 .. 2 * p, (2 * p) % d = 0 PROVE d % 2 = 0
      <4>1. SUFFICES ASSUME d % 2 # 0 PROVE FALSE
        OBVIOUS
      <4>2. d \in 2 .. p /\ p % d = 0
        BY <3>1, <3>2, <4>1, OddDivisor
      <4> QED BY <2>1, <4>1, <4>2 DEF Tree!PowerOfTwo
    <3>3. Tree!PowerOfTwo(2 * p)
      BY <3>2 DEF Tree!PowerOfTwo
    <3> QED BY <3>1, <3>3
  <2> QED BY <2>2, <2>3
<1> HIDE DEF S
<1>3. \A k \in Nat : k \in S
  BY <1>1, <1>2, NatSetInduction
<1>4. n - 2 \in S /\ (n - 2) + 2 = n
  BY <1>3
<1> QED BY <1>4 DEF S

\* A tree of two leaves or more is split into two smaller ones.
LEMMA SplitType ==
  ASSUME NEW n \in Nat, n >= 2
  PROVE  Tree!Split(n) \in 1 .. n - 1
<1>1. \E p \in 1 .. n - 1 : n <= 2 * p /\ Tree!PowerOfTwo(p)
  BY PowerBelow
<1> QED BY <1>1 DEF Tree!Split

-----------------------------------------------------------------------------
(***************************************************************************)
(* The recursive functions of a tree exist, and are what they are said to  *)
(* be.                                                                     *)
(***************************************************************************)
\* The hashes of n leaves, from those of fewer.
NodeRow(s, f, n) ==
  [i \in Nat |-> IF n = 1 THEN s[i + 1]
                 ELSE Tree!H(f[Tree!Split(n)][i], f[n - Tree!Split(n)][i + Tree!Split(n)])]

\* The paths through n leaves, from those through fewer.
PathRow(s, at, f, n) ==
  [j \in Nat |->
     IF n = 1 THEN <<>>
     ELSE IF at < j + Tree!Split(n)
       THEN Append(f[Tree!Split(n)][j],
                   [hash |-> Tree!Nodes(s)[n - Tree!Split(n)][j + Tree!Split(n)], left |-> FALSE])
       ELSE Append(f[n - Tree!Split(n)][j + Tree!Split(n)],
                   [hash |-> Tree!Nodes(s)[Tree!Split(n)][j], left |-> TRUE])]

\* A row depends on rows of fewer leaves only.
LEMMA NodeRowDepends ==
  ASSUME NEW s, NEW f, NEW g, NEW n \in Nat \ {0}, \A k \in 1 .. n - 1 : f[k] = g[k]
  PROVE  NodeRow(s, f, n) = NodeRow(s, g, n)
<1>1. CASE n = 1
  BY <1>1 DEF NodeRow
<1>2. CASE n # 1
  <2>1. Tree!Split(n) \in 1 .. n - 1
    BY <1>2, SplitType
  <2>2. n - Tree!Split(n) \in 1 .. n - 1
    BY <2>1
  <2>3. f[Tree!Split(n)] = g[Tree!Split(n)] /\ f[n - Tree!Split(n)] = g[n - Tree!Split(n)]
    BY <2>1, <2>2
  <2> QED BY <2>3 DEF NodeRow
<1> QED BY <1>1, <1>2

\* ... and so do the paths.
LEMMA PathRowDepends ==
  ASSUME NEW s, NEW at, NEW f, NEW g, NEW n \in Nat \ {0}, \A k \in 1 .. n - 1 : f[k] = g[k]
  PROVE  PathRow(s, at, f, n) = PathRow(s, at, g, n)
<1>1. CASE n = 1
  BY <1>1 DEF PathRow
<1>2. CASE n # 1
  <2>1. Tree!Split(n) \in 1 .. n - 1
    BY <1>2, SplitType
  <2>2. n - Tree!Split(n) \in 1 .. n - 1
    BY <2>1
  <2>3. f[Tree!Split(n)] = g[Tree!Split(n)] /\ f[n - Tree!Split(n)] = g[n - Tree!Split(n)]
    BY <2>1, <2>2
  <2> QED BY <2>3 DEF PathRow
<1> QED BY <1>1, <1>2

\* Rows that depend on earlier ones only can be written out up to any length: the
\* recursive functions of the hashes exist,
LEMMA NodesExist ==
  ASSUME NEW s, NEW m \in Nat
  PROVE  \E f : f = [n \in 1 .. m |-> NodeRow(s, f, n)]
<1> DEFINE S == {k \in Nat : \E f : f = [n \in 1 .. k |-> NodeRow(s, f, n)]}
<1>1. 0 \in S
  <2> DEFINE f == [i \in 1 .. 0 |-> 0]
  <2>1. f = [n \in 1 .. 0 |-> NodeRow(s, f, n)]
    OBVIOUS
  <2> QED BY <2>1
<1>2. ASSUME NEW k \in Nat, k \in S PROVE k + 1 \in S
  <2>1. PICK f : f = [n \in 1 .. k |-> NodeRow(s, f, n)]
    BY <1>2
  <2> DEFINE g == [n \in 1 .. k + 1 |-> NodeRow(s, f, n)]
             h == [n \in 1 .. k + 1 |-> NodeRow(s, g, n)]
  <2>2. \A n \in 1 .. k : g[n] = f[n]
    <3> SUFFICES ASSUME NEW n \in 1 .. k PROVE g[n] = f[n]
      OBVIOUS
    <3>1. f[n] = NodeRow(s, f, n)
      BY <2>1
    <3> QED BY <3>1
  <2>3. ASSUME NEW n \in 1 .. k + 1 PROVE g[n] = h[n]
    <3>1. n \in Nat \ {0} /\ \A q \in 1 .. n - 1 : f[q] = g[q]
      BY <2>2
    <3>2. g[n] = NodeRow(s, f, n) /\ h[n] = NodeRow(s, g, n)
      OBVIOUS
    <3> HIDE DEF g, h
    <3>3. NodeRow(s, f, n) = NodeRow(s, g, n)
      BY <3>1, NodeRowDepends
    <3> QED BY <3>2, <3>3
  <2>4. g = h
    <3>1. g = [n \in 1 .. k + 1 |-> g[n]] /\ h = [n \in 1 .. k + 1 |-> h[n]]
      OBVIOUS
    <3> HIDE DEF g, h
    <3> QED BY <2>3, <3>1
  <2>5. \E ff : ff = [n \in 1 .. k + 1 |-> NodeRow(s, ff, n)]
    BY <2>4
  <2> QED BY <2>5
<1> HIDE DEF S
<1>3. m \in S
  BY <1>1, <1>2, NatSetInduction
<1> QED BY <1>3 DEF S

\* and those of the paths.
LEMMA PathsExist ==
  ASSUME NEW s, NEW at, NEW m \in Nat
  PROVE  \E f : f = [n \in 1 .. m |-> PathRow(s, at, f, n)]
<1> DEFINE S == {k \in Nat : \E f : f = [n \in 1 .. k |-> PathRow(s, at, f, n)]}
<1>1. 0 \in S
  <2> DEFINE f == [i \in 1 .. 0 |-> 0]
  <2>1. f = [n \in 1 .. 0 |-> PathRow(s, at, f, n)]
    OBVIOUS
  <2> QED BY <2>1
<1>2. ASSUME NEW k \in Nat, k \in S PROVE k + 1 \in S
  <2>1. PICK f : f = [n \in 1 .. k |-> PathRow(s, at, f, n)]
    BY <1>2
  <2> DEFINE g == [n \in 1 .. k + 1 |-> PathRow(s, at, f, n)]
             h == [n \in 1 .. k + 1 |-> PathRow(s, at, g, n)]
  <2>2. \A n \in 1 .. k : g[n] = f[n]
    <3> SUFFICES ASSUME NEW n \in 1 .. k PROVE g[n] = f[n]
      OBVIOUS
    <3>1. f[n] = PathRow(s, at, f, n)
      BY <2>1
    <3> QED BY <3>1
  <2>3. ASSUME NEW n \in 1 .. k + 1 PROVE g[n] = h[n]
    <3>1. n \in Nat \ {0} /\ \A q \in 1 .. n - 1 : f[q] = g[q]
      BY <2>2
    <3>2. g[n] = PathRow(s, at, f, n) /\ h[n] = PathRow(s, at, g, n)
      OBVIOUS
    <3> HIDE DEF g, h
    <3>3. PathRow(s, at, f, n) = PathRow(s, at, g, n)
      BY <3>1, PathRowDepends
    <3> QED BY <3>2, <3>3
  <2>4. g = h
    <3>1. g = [n \in 1 .. k + 1 |-> g[n]] /\ h = [n \in 1 .. k + 1 |-> h[n]]
      OBVIOUS
    <3> HIDE DEF g, h
    <3> QED BY <2>3, <3>1
  <2>5. \E ff : ff = [n \in 1 .. k + 1 |-> PathRow(s, at, ff, n)]
    BY <2>4
  <2> QED BY <2>5
<1> HIDE DEF S
<1>3. m \in S
  BY <1>1, <1>2, NatSetInduction
<1> QED BY <1>3 DEF S

\* The hashes of the nodes.
LEMMA NodesAre ==
  ASSUME NEW s, Len(s) \in Nat
  PROVE  \A n \in 1 .. Len(s) : Tree!Nodes(s)[n] = NodeRow(s, Tree!Nodes(s), n)
<1> DEFINE f == CHOOSE f : f = [n \in 1 .. Len(s) |-> NodeRow(s, f, n)]
<1>1. f = [n \in 1 .. Len(s) |-> NodeRow(s, f, n)]
  <2>1. \E g : g = [n \in 1 .. Len(s) |-> NodeRow(s, g, n)]
    BY NodesExist
  <2> QED BY <2>1
<1>2. Tree!Nodes(s) = f
  BY DEF Tree!Nodes, NodeRow
<1> HIDE DEF f
<1> QED BY <1>1, <1>2

\* The elements of the paths.
LEMMA PathsAre ==
  ASSUME NEW s, NEW at, Len(s) \in Nat \ {0}
  PROVE  \E f : /\ \A n \in 1 .. Len(s) : f[n] = PathRow(s, at, f, n)
                /\ Tree!PathOf(s, at) = f[Len(s)][0]
<1> DEFINE f == CHOOSE f : f = [n \in 1 .. Len(s) |-> PathRow(s, at, f, n)]
<1>1. f = [n \in 1 .. Len(s) |-> PathRow(s, at, f, n)]
  <2>1. \E g : g = [n \in 1 .. Len(s) |-> PathRow(s, at, g, n)]
    BY PathsExist
  <2> QED BY <2>1
<1>2. Tree!PathOf(s, at) = f[Len(s)][0]
  BY DEF Tree!PathOf, PathRow
<1> HIDE DEF f
<1>3. \A n \in 1 .. Len(s) : f[n] = PathRow(s, at, f, n)
  BY <1>1
<1> QED BY <1>2, <1>3

-----------------------------------------------------------------------------
(* A path and its root.                                                    *)

\* The hashes from a leaf up a path.
LEMMA HashesExist ==
  ASSUME NEW p, NEW m \in Nat
  PROVE  \E f : f = [n \in 0 .. m |-> IF n = 0 THEN p.leaf ELSE Join(f[n - 1], p.elements[n])]
<1> DEFINE S == {k \in Nat : \E f : f = [n \in 0 .. k |->
                                IF n = 0 THEN p.leaf ELSE Join(f[n - 1], p.elements[n])]}
<1>1. 0 \in S
  <2> DEFINE f == [n \in 0 .. 0 |-> p.leaf]
  <2>1. f = [n \in 0 .. 0 |-> IF n = 0 THEN p.leaf ELSE Join(f[n - 1], p.elements[n])]
    OBVIOUS
  <2> QED BY <2>1
<1>2. ASSUME NEW k \in Nat, k \in S PROVE k + 1 \in S
  <2>1. PICK f : f = [n \in 0 .. k |-> IF n = 0 THEN p.leaf ELSE Join(f[n - 1], p.elements[n])]
    BY <1>2
  <2> DEFINE g == [n \in 0 .. k + 1 |-> IF n <= k THEN f[n] ELSE Join(f[k], p.elements[n])]
             h == [n \in 0 .. k + 1 |-> IF n = 0 THEN p.leaf ELSE Join(g[n - 1], p.elements[n])]
  <2>2. ASSUME NEW n \in 0 .. k + 1 PROVE g[n] = h[n]
    <3>1. CASE n = 0
      BY <2>1, <3>1
    <3>2. CASE n # 0 /\ n <= k
      <4>1. f[n] = Join(f[n - 1], p.elements[n])
        BY <2>1, <3>2
      <4>2. g[n] = f[n] /\ g[n - 1] = f[n - 1] /\ h[n] = Join(g[n - 1], p.elements[n])
        BY <3>2
      <4> QED BY <4>1, <4>2
    <3>3. CASE n = k + 1
      BY <3>3
    <3> QED BY <3>1, <3>2, <3>3
  <2>3. g = h
    <3>1. g = [n \in 0 .. k + 1 |-> g[n]] /\ h = [n \in 0 .. k + 1 |-> h[n]]
      OBVIOUS
    <3> HIDE DEF g, h
    <3> QED BY <2>2, <3>1
  <2>4. \E ff : ff = [n \in 0 .. k + 1 |->
                        IF n = 0 THEN p.leaf ELSE Join(ff[n - 1], p.elements[n])]
    BY <2>3
  <2> QED BY <2>4
<1> HIDE DEF S
<1>3. m \in S
  BY <1>1, <1>2, NatSetInduction
<1> QED BY <1>3 DEF S

\* What root computes.
LEMMA RootIs ==
  ASSUME NEW p, Len(p.elements) \in Nat
  PROVE  \E f : /\ f[0] = p.leaf
                /\ \A n \in 1 .. Len(p.elements) : f[n] = Join(f[n - 1], p.elements[n])
                /\ root(p) = f[Len(p.elements)]
<1> DEFINE L == Len(p.elements)
           f == CHOOSE f : f = [n \in 0 .. L |->
                                  IF n = 0 THEN p.leaf ELSE Join(f[n - 1], p.elements[n])]
<1>1. f = [n \in 0 .. L |-> IF n = 0 THEN p.leaf ELSE Join(f[n - 1], p.elements[n])]
  <2>1. \E g : g = [n \in 0 .. L |-> IF n = 0 THEN p.leaf ELSE Join(g[n - 1], p.elements[n])]
    BY HashesExist
  <2> QED BY <2>1
<1>2. root(p) = f[L]
  BY DEF root
<1>3. L \in Nat
  OBVIOUS
<1> HIDE DEF f, L
<1>4. f[0] = p.leaf
  BY <1>1, <1>3
<1>5. ASSUME NEW n \in 1 .. L PROVE f[n] = Join(f[n - 1], p.elements[n])
  <2>1. n \in 0 .. L /\ n # 0
    BY <1>3
  <2> QED BY <1>1, <2>1
<1> QED BY <1>2, <1>4, <1>5 DEF L

\* A path without elements ends at its leaf.
LEMMA RootOfLeaf ==
  ASSUME NEW p, Len(p.elements) = 0
  PROVE  root(p) = p.leaf
BY RootIs

\* One more element joins one more hash.
LEMMA RootAppend ==
  ASSUME NEW p, NEW q, NEW e, Listed(p.elements), q.leaf = p.leaf,
         q.elements = Append(p.elements, e)
  PROVE  root(q) = Join(root(p), e)
<1> DEFINE es == p.elements
           L == Len(es)
<1>1. PICK S : es \in Seq(S)
  BY DEF Listed
<1>2. /\ L \in Nat /\ Len(Append(es, e)) = L + 1 /\ Append(es, e)[L + 1] = e
      /\ \A n \in 1 .. L : Append(es, e)[n] = es[n]
  <2> DEFINE T == S \cup {e}
  <2>1. es \in Seq(T) /\ e \in T
    <3>1. es \in [1 .. Len(es) -> S] /\ Len(es) \in Nat
      BY <1>1
    <3>2. es \in [1 .. Len(es) -> T]
      BY <3>1
    <3> HIDE DEF T, es
    <3> QED BY <3>1, <3>2 DEF T
  <2> HIDE DEF T, es
  <2> QED BY <2>1
<1>3. PICK f : f[0] = p.leaf /\ (\A n \in 1 .. L : f[n] = Join(f[n - 1], es[n])) /\ root(p) = f[L]
  BY <1>2, RootIs
<1>4. Len(q.elements) = L + 1 /\ q.elements[L + 1] = e /\ \A n \in 1 .. L : q.elements[n] = es[n]
  BY <1>2
<1>5. PICK g : g[0] = q.leaf
               /\ (\A n \in 1 .. L + 1 : g[n] = Join(g[n - 1], q.elements[n])) /\ root(q) = g[L + 1]
  <2>1. Len(q.elements) \in Nat
    BY <1>2, <1>4
  <2>2. \E g : /\ g[0] = q.leaf
               /\ \A n \in 1 .. Len(q.elements) : g[n] = Join(g[n - 1], q.elements[n])
               /\ root(q) = g[Len(q.elements)]
    BY <2>1, RootIs
  <2> QED BY <1>4, <2>2
<1> HIDE DEF es, L
<1> DEFINE U == {n \in Nat : f[n] = g[n]}
<1>6. 0 \in U
  BY <1>3, <1>5
<1>7. ASSUME NEW k \in 0 .. L - 1, k \in U PROVE k + 1 \in U
  <2>1. k + 1 \in 1 .. L /\ k + 1 \in 1 .. L + 1 /\ (k + 1) - 1 = k /\ k + 1 \in Nat
    BY <1>2
  <2>2. f[k + 1] = Join(f[k], es[k + 1]) /\ g[k + 1] = Join(g[k], es[k + 1])
    BY <1>3, <1>4, <1>5, <2>1
  <2> QED BY <1>7, <2>1, <2>2
<1> HIDE DEF U
<1>8. L \in U
  <2>1. \A k \in 0 .. L : k \in U
    BY <1>2, <1>6, <1>7, BoundedInduction
  <2> QED BY <1>2, <2>1
<1>9. g[L + 1] = Join(g[L], e)
  <2>1. L + 1 \in 1 .. L + 1 /\ (L + 1) - 1 = L
    BY <1>2
  <2> QED BY <1>4, <1>5, <2>1
<1> QED BY <1>3, <1>5, <1>8, <1>9 DEF U

\* The elements es lead from the leaf at the index at to the hash of n leaves from the
\* one at j.
Leads(s, at, es, n, j) ==
  /\ Listed(es) /\ Len(es) < n
  /\ \A k \in 1 .. Len(es) :
       es[k].left \in BOOLEAN /\ es[k] = [hash |-> es[k].hash, left |-> es[k].left]
  /\ root([leaf |-> s[at + 1], elements |-> es]) = Tree!Nodes(s)[n][j]

\* One more element leads further.
LEMMA LeadsFurther ==
  ASSUME NEW s, NEW at, NEW es, NEW n, NEW j, NEW k \in Nat, NEW m \in Nat,
         NEW i, NEW h, NEW l \in BOOLEAN,
         Leads(s, at, es, k, i), k < m,
         Join(Tree!Nodes(s)[k][i], [hash |-> h, left |-> l]) = Tree!Nodes(s)[m][j]
  PROVE  Leads(s, at, Append(es, [hash |-> h, left |-> l]), m, j)
<1> DEFINE e == [hash |-> h, left |-> l]
           t == Append(es, e)
           p == [leaf |-> s[at + 1], elements |-> es]
           q == [leaf |-> s[at + 1], elements |-> t]
<1>1. e.left \in BOOLEAN /\ e = [hash |-> e.hash, left |-> e.left]
  OBVIOUS
<1>2. p.leaf = q.leaf /\ p.elements = es /\ q.elements = Append(p.elements, e)
  OBVIOUS
<1>3. Join(Tree!Nodes(s)[k][i], e) = Tree!Nodes(s)[m][j]
  OBVIOUS
<1>4. /\ Listed(es) /\ Len(es) < k /\ root(p) = Tree!Nodes(s)[k][i]
      /\ \A b \in 1 .. Len(es) :
           es[b].left \in BOOLEAN /\ es[b] = [hash |-> es[b].hash, left |-> es[b].left]
  BY DEF Leads
<1>5. /\ Listed(t) /\ Len(t) = Len(es) + 1 /\ t[Len(es) + 1] = e /\ Len(es) \in Nat
      /\ \A b \in 1 .. Len(es) : t[b] = es[b]
  <2>1. PICK S : es \in Seq(S)
    BY <1>4 DEF Listed
  <2> HIDE DEF e
  <2> DEFINE T == S \cup {e}
  <2>2. es \in Seq(T) /\ e \in T
    <3>1. es \in [1 .. Len(es) -> S] /\ Len(es) \in Nat
      BY <2>1
    <3>2. es \in [1 .. Len(es) -> T]
      BY <3>1
    <3> HIDE DEF T
    <3> QED BY <3>1, <3>2 DEF T
  <2> HIDE DEF T
  <2>3. t \in Seq(T)
    BY <2>2
  <2>4. /\ Len(t) = Len(es) + 1 /\ t[Len(es) + 1] = e /\ Len(es) \in Nat
        /\ \A b \in 1 .. Len(es) : t[b] = es[b]
    BY <2>2
  <2> QED BY <2>3, <2>4 DEF Listed
<1>6. root(q) = Join(root(p), e)
  <2> HIDE DEF e, t, p, q
  <2> QED BY <1>2, <1>4, RootAppend DEF t
<1> HIDE DEF e, t, p
<1>7. Len(t) < m
  BY <1>4, <1>5
<1>8. ASSUME NEW b \in 1 .. Len(t)
      PROVE  t[b].left \in BOOLEAN /\ t[b] = [hash |-> t[b].hash, left |-> t[b].left]
  <2>1. CASE b \in 1 .. Len(es)
    BY <1>4, <1>5, <2>1
  <2>2. CASE b = Len(es) + 1
    BY <1>1, <1>5, <2>2
  <2> QED BY <1>5, <2>1, <2>2
<1>9. root([leaf |-> s[at + 1], elements |-> t]) = Tree!Nodes(s)[m][j]
  BY <1>3, <1>4, <1>6
<1>10. Leads(s, at, t, m, j)
  BY <1>5, <1>7, <1>8, <1>9 DEF Leads
<1> QED BY <1>10 DEF t, e

\* A tree's path leads from its leaf to its root.
LEMMA PathLeads ==
  ASSUME NEW s, Len(s) \in Nat \ {0}, NEW at \in 0 .. Len(s) - 1
  PROVE  Leads(s, at, Tree!PathOf(s, at), Len(s), 0)
<1> DEFINE L == Len(s)
<1>1. L \in Nat \ {0} /\ at \in 0 .. L - 1
  OBVIOUS
<1>2. PICK f : (\A n \in 1 .. L : f[n] = PathRow(s, at, f, n)) /\ Tree!PathOf(s, at) = f[L][0]
  BY PathsAre
<1>3. \A n \in 1 .. L : Tree!Nodes(s)[n] = NodeRow(s, Tree!Nodes(s), n)
  BY NodesAre
<1> HIDE DEF L
<1> DEFINE P(n) == \A j \in Nat : j <= at /\ at < j + n /\ j + n <= L => Leads(s, at, f[n][j], n, j)
           S == {k \in Nat : \A n \in 1 .. k : P(n)}
<1>4. 0 \in S
  OBVIOUS
<1>5. ASSUME NEW k \in Nat, k \in S PROVE k + 1 \in S
  <2> DEFINE n == k + 1
  <2>1. SUFFICES P(n)
    BY <1>5
  <2>2. \A m \in 1 .. n - 1 : P(m)
    BY <1>5
  <2>3. n \in Nat \ {0}
    OBVIOUS
  <2> HIDE DEF n
  <2> SUFFICES ASSUME NEW j \in Nat, j <= at, at < j + n, j + n <= L
                 PROVE  Leads(s, at, f[n][j], n, j)
    OBVIOUS
  <2>5. n \in 1 .. L
    BY <1>1, <2>3
  <2>6. f[n][j] = PathRow(s, at, f, n)[j] /\ Tree!Nodes(s)[n][j] = NodeRow(s, Tree!Nodes(s), n)[j]
    BY <1>2, <1>3, <2>5
  <2>7. CASE n = 1
    <3>1. f[n][j] = <<>>
      BY <2>6, <2>7 DEF PathRow
    <3>2. Tree!Nodes(s)[n][j] = s[j + 1] /\ j = at
      BY <1>1, <2>6, <2>7 DEF NodeRow
    <3> DEFINE e == <<>>
               p == [leaf |-> s[at + 1], elements |-> e]
    <3>3. Listed(e) /\ Len(e) = 0
      BY DEF Listed
    <3>4. p.leaf = s[at + 1] /\ p.elements = e
      OBVIOUS
    <3> HIDE DEF e, p
    <3>5. root(p) = s[at + 1]
      BY <3>3, <3>4, RootOfLeaf
    <3>6. Leads(s, at, e, n, j)
      BY <2>7, <3>2, <3>3, <3>5 DEF Leads, p
    <3> QED BY <3>1, <3>6 DEF e
  <2>8. CASE n # 1
    <3> DEFINE a == Tree!Split(n)
               b == n - Tree!Split(n)
               nodes == Tree!Nodes(s)
    <3>1. a \in 1 .. n - 1 /\ b \in 1 .. n - 1 /\ a + b = n
      <4>1. Tree!Split(n) \in 1 .. n - 1
        BY <2>3, <2>8, SplitType
      <4> QED BY <2>3, <4>1
    <3>2. nodes[n][j] = Tree!H(nodes[a][j], nodes[b][j + a])
      BY <2>6, <2>8 DEF NodeRow
    <3>3. f[n][j] = IF at < j + a
                      THEN Append(f[a][j], [hash |-> nodes[b][j + a], left |-> FALSE])
                      ELSE Append(f[b][j + a], [hash |-> nodes[a][j], left |-> TRUE])
      BY <2>6, <2>8 DEF PathRow
    <3> HIDE DEF a, b
    <3>4. CASE at < j + a
      <4>1. Leads(s, at, f[a][j], a, j)
        <5>1. P(a)
          BY <2>2, <3>1
        <5>2. j + a <= L
          BY <1>1, <2>3, <3>1
        <5> QED BY <3>4, <5>1, <5>2
      <4>2. Join(nodes[a][j], [hash |-> nodes[b][j + a], left |-> FALSE]) = nodes[n][j]
        BY <3>2 DEF Join
      <4>3. a < n /\ a \in Nat /\ n \in Nat
        BY <2>3, <3>1
      <4>4. Leads(s, at, Append(f[a][j], [hash |-> nodes[b][j + a], left |-> FALSE]), n, j)
        BY <4>1, <4>2, <4>3, LeadsFurther
      <4> QED BY <3>3, <3>4, <4>4
    <3>5. CASE ~ at < j + a
      <4>1. Leads(s, at, f[b][j + a], b, j + a)
        <5>1. P(b)
          BY <2>2, <3>1
        <5>2. (j + a) + b <= L /\ at < (j + a) + b /\ j + a <= at /\ j + a \in Nat
          BY <1>1, <2>3, <3>1, <3>5
        <5> HIDE DEF P
        <5>3. \A x \in Nat : x <= at /\ at < x + b /\ x + b <= L => Leads(s, at, f[b][x], b, x)
          BY <5>1 DEF P
        <5> DEFINE x == j + a
        <5>4. x \in Nat /\ x <= at /\ at < x + b /\ x + b <= L
          BY <5>2
        <5> HIDE DEF x
        <5>5. Leads(s, at, f[b][x], b, x)
          BY <5>3, <5>4
        <5> QED BY <5>5 DEF x
      <4>2. Join(nodes[b][j + a], [hash |-> nodes[a][j], left |-> TRUE]) = nodes[n][j]
        BY <3>2 DEF Join
      <4>3. b < n /\ b \in Nat /\ n \in Nat
        BY <2>3, <3>1
      <4>4. Leads(s, at, Append(f[b][j + a], [hash |-> nodes[a][j], left |-> TRUE]), n, j)
        BY <4>1, <4>2, <4>3, LeadsFurther
      <4> QED BY <3>3, <3>5, <4>4
    <3> QED BY <3>4, <3>5
  <2> QED BY <2>7, <2>8
<1> HIDE DEF S, P
<1>6. L \in S
  <2>1. \A k \in Nat : k \in S
    BY <1>4, <1>5, NatSetInduction
  <2> QED BY <1>1, <2>1
<1>7. P(L)
  <2>1. L \in 1 .. L
    BY <1>1
  <2> QED BY <1>6, <2>1 DEF S
<1>8. Leads(s, at, f[L][0], L, 0)
  <2>1. 0 \in Nat /\ 0 <= at /\ at < 0 + L /\ 0 + L <= L
    BY <1>1
  <2> QED BY <1>7, <2>1 DEF P
<1> QED BY <1>2, <1>8 DEF L

\* merklecpp.h: the path that is extracted for a leaf, of whatever tree, leads up to
\* the tree's root.
THEOREM PathVerifies ==
  ASSUME NEW s, Len(s) \in Nat \ {0}, NEW at \in 0 .. Len(s) - 1
  PROVE  root(extract(s, at)) = Tree!RootOf(s)
<1> DEFINE es == Tree!PathOf(s, at)
           p == [leaf |-> s[at + 1], elements |-> es]
           q == extract(s, at)
<1>1. q.leaf = p.leaf /\ q.elements = p.elements
  BY DEF extract
<1>2. root(q) = root(p)
  <2> HIDE DEF p, q
  <2> QED BY <1>1 DEF root
<1>3. root(p) = Tree!Nodes(s)[Len(s)][0]
  BY PathLeads DEF Leads
<1>4. Tree!RootOf(s) = Tree!Nodes(s)[Len(s)][0]
  <2>1. s # <<>>
    OBVIOUS
  <2> QED BY <2>1 DEF Tree!RootOf
<1> QED BY <1>2, <1>3, <1>4

-----------------------------------------------------------------------------
(* A path in bytes.                                                        *)

\* A sequence lies at its own beginning.
LEMMA LiesAtStart ==
  ASSUME NEW s, Listed(s)
  PROVE  LiesAt(s, 0, s)
<1>1. Len(s) \in Nat /\ \A j \in 1 .. Len(s) : 0 + j = j
  BY ListedDomain
<1> QED BY <1>1 DEF LiesAt

\* Five pieces joined, one after the other.
Chain(a, b, c, d, e) == a \o b \o c \o d \o e

\* They lie one behind the other.
InChain(s, a, b, c, d, e) ==
  /\ Listed(s)
  /\ Len(s) = Len(a) + Len(b) + Len(c) + Len(d) + Len(e)
  /\ LiesAt(s, 0, a)
  /\ LiesAt(s, Len(a), b)
  /\ LiesAt(s, Len(a) + Len(b), c)
  /\ LiesAt(s, Len(a) + Len(b) + Len(c), d)
  /\ LiesAt(s, Len(a) + Len(b) + Len(c) + Len(d), e)

\* Each of them lies where those before it end.
LEMMA FivePieces ==
  ASSUME NEW a, NEW b, NEW c, NEW d, NEW e,
         Listed(a), Listed(b), Listed(c), Listed(d), Listed(e)
  PROVE  InChain(Chain(a, b, c, d, e), a, b, c, d, e)
<1> DEFINE ab == a \o b
           abc == ab \o c
           abcd == abc \o d
           s == abcd \o e
<1>1. Len(a) \in Nat /\ Len(b) \in Nat /\ Len(c) \in Nat /\ Len(d) \in Nat /\ Len(e) \in Nat
  BY ListedDomain
<1>2. /\ Listed(ab) /\ Len(ab) = Len(a) + Len(b) /\ Len(ab) \in Nat
      /\ LiesAt(ab, 0, a) /\ LiesAt(ab, Len(a), b)
  BY <1>1, Joining, LiesAtStart, StaysAt, JoinedAt
<1> HIDE DEF ab
<1>3. /\ Listed(abc) /\ Len(abc) = Len(ab) + Len(c) /\ Len(abc) \in Nat
      /\ LiesAt(abc, 0, a) /\ LiesAt(abc, Len(a), b) /\ LiesAt(abc, Len(ab), c)
  BY <1>1, <1>2, Joining, StaysAt, JoinedAt
<1> HIDE DEF abc
<1>4. /\ Listed(abcd) /\ Len(abcd) = Len(abc) + Len(d) /\ Len(abcd) \in Nat
      /\ LiesAt(abcd, 0, a) /\ LiesAt(abcd, Len(a), b) /\ LiesAt(abcd, Len(ab), c)
      /\ LiesAt(abcd, Len(abc), d)
  <2>1. Listed(abcd) /\ Len(abcd) = Len(abc) + Len(d) /\ LiesAt(abcd, Len(abc), d)
    BY <1>1, <1>3, Joining, JoinedAt
  <2>2. LiesAt(abcd, 0, a) /\ LiesAt(abcd, Len(a), b) /\ LiesAt(abcd, Len(ab), c)
    BY <1>1, <1>2, <1>3, StaysAt
  <2> HIDE DEF abcd
  <2> QED BY <1>1, <1>3, <2>1, <2>2
<1> HIDE DEF abcd
<1>5. /\ Listed(s) /\ Len(s) = Len(abcd) + Len(e)
      /\ LiesAt(s, 0, a) /\ LiesAt(s, Len(a), b) /\ LiesAt(s, Len(ab), c)
      /\ LiesAt(s, Len(abc), d) /\ LiesAt(s, Len(abcd), e)
  <2>1. Listed(s) /\ Len(s) = Len(abcd) + Len(e) /\ LiesAt(s, Len(abcd), e)
    BY <1>4, Joining, JoinedAt
  <2>2. LiesAt(s, 0, a) /\ LiesAt(s, Len(a), b)
    BY <1>1, <1>4, StaysAt
  <2>3. LiesAt(s, Len(ab), c) /\ LiesAt(s, Len(abc), d)
    BY <1>2, <1>3, <1>4, StaysAt
  <2> HIDE DEF s
  <2> QED BY <2>1, <2>2, <2>3
<1> HIDE DEF s
<1>6. /\ Listed(s)
      /\ Len(s) = Len(a) + Len(b) + Len(c) + Len(d) + Len(e)
      /\ LiesAt(s, 0, a)
      /\ LiesAt(s, Len(a), b)
      /\ LiesAt(s, Len(a) + Len(b), c)
      /\ LiesAt(s, Len(a) + Len(b) + Len(c), d)
      /\ LiesAt(s, Len(a) + Len(b) + Len(c) + Len(d), e)
  <2>1. Len(abc) = Len(a) + Len(b) + Len(c) /\ Len(abcd) = Len(a) + Len(b) + Len(c) + Len(d)
    BY <1>2, <1>3, <1>4
  <2>2. Len(s) = Len(a) + Len(b) + Len(c) + Len(d) + Len(e)
    BY <1>5, <2>1
  <2>3. LiesAt(s, Len(a) + Len(b), c)
    BY <1>2, <1>5
  <2>4. LiesAt(s, Len(a) + Len(b) + Len(c), d)
    BY <1>5, <2>1
  <2>5. LiesAt(s, Len(a) + Len(b) + Len(c) + Len(d), e)
    BY <1>5, <2>1
  <2> QED BY <1>5, <2>2, <2>3, <2>4, <2>5
<1> QED BY <1>6 DEF s, abcd, abc, ab, Chain, InChain

\* A piece of a piece.
LEMMA LiesWithin ==
  ASSUME NEW s, NEW t, NEW p, NEW at \in Nat, NEW in \in Nat, Listed(s), Listed(t), Listed(p),
         LiesAt(s, at, t), LiesAt(t, in, p)
  PROVE  LiesAt(s, at + in, p)
<1>1. Len(s) \in Nat /\ Len(t) \in Nat /\ Len(p) \in Nat
  BY ListedDomain
<1>2. /\ at + Len(t) <= Len(s) /\ in + Len(p) <= Len(t)
      /\ (\A j \in 1 .. Len(t) : s[at + j] = t[j]) /\ \A j \in 1 .. Len(p) : t[in + j] = p[j]
  BY DEF LiesAt
<1>3. ASSUME NEW j \in 1 .. Len(p) PROVE s[(at + in) + j] = p[j]
  <2>1. in + j \in 1 .. Len(t) /\ at + (in + j) = (at + in) + j
    BY <1>1, <1>2
  <2>2. s[at + (in + j)] = t[in + j]
    BY <1>2, <2>1
  <2> QED BY <1>2, <2>1, <2>2
<1>4. (at + in) + Len(p) <= Len(s)
  BY <1>1, <1>2
<1> QED BY <1>3, <1>4 DEF LiesAt

\* The bytes of a number and of a hash can be joined and cut.
LEMMA NumberListed ==
  ASSUME NEW n \in Nat
  PROVE  /\ Listed(BigEndian(n)) /\ Len(BigEndian(n)) = IntSize
         /\ Listed(LittleEndian(n)) /\ Len(LittleEndian(n)) = IntSize
BY NumberBytes DEF Listed

\* A hash has as many bytes as it is read from.
LEMMA HashListed ==
  ASSUME NEW h
  PROVE  Listed(HashBytes(h)) /\ Len(HashBytes(h)) = HashSize /\ HashFrom(HashBytes(h)) = h
<1> DEFINE b == HashBytes(h)
<1>1. b = [j \in 1 .. HashSize |-> [of |-> h, part |-> j]] /\ HashSize \in Nat \ {0}
  BY WidthAssumption DEF HashBytes
<1>2. b[1].of = h
  BY <1>1
<1>3. b = [j \in 1 .. HashSize |-> b[j]]
  BY <1>1
<1> HIDE DEF b
<1>4. Listed(b) /\ Len(b) = HashSize
  BY <1>1, <1>3, ListedFunction
<1>5. HashFrom(b) = h
  BY <1>2 DEF HashFrom, b
<1> QED BY <1>4, <1>5 DEF b

\* One more element at the end of a listed sequence.
LEMMA Appending ==
  ASSUME NEW s, NEW x, Listed(s)
  PROVE  /\ Listed(Append(s, x)) /\ Len(Append(s, x)) = Len(s) + 1
         /\ LiesAt(Append(s, x), 0, s) /\ Append(s, x)[Len(s) + 1] = x
<1>1. PICK S : s \in Seq(S)
  BY DEF Listed
<1> DEFINE T == S \cup {x}
           t == Append(s, x)
<1>2. s \in Seq(T) /\ x \in T
  <2>1. s \in [1 .. Len(s) -> S] /\ Len(s) \in Nat
    BY <1>1
  <2>2. s \in [1 .. Len(s) -> T]
    BY <2>1
  <2> HIDE DEF T
  <2> QED BY <2>1, <2>2 DEF T
<1> HIDE DEF T
<1>3. t \in Seq(T) /\ Len(t) = Len(s) + 1 /\ t[Len(s) + 1] = x /\ \A j \in 1 .. Len(s) : t[j] = s[j]
  BY <1>2
<1>4. Len(s) \in Nat /\ \A j \in 1 .. Len(s) : 0 + j = j
  BY <1>1
<1> HIDE DEF t
<1>5. LiesAt(t, 0, s)
  BY <1>3, <1>4 DEF LiesAt
<1> QED BY <1>3, <1>5 DEF Listed, t

-----------------------------------------------------------------------------
\* The bytes of one element of a path.
ElementBytes(e) == Append(HashBytes(e.hash), Digit(IF e.left THEN 1 ELSE 0))

\* They can be joined and cut, and are one more than a hash has.
LEMMA ElementListed ==
  ASSUME NEW e
  PROVE  /\ Listed(ElementBytes(e)) /\ Len(ElementBytes(e)) = HashSize + 1
         /\ LiesAt(ElementBytes(e), 0, HashBytes(e.hash))
         /\ ElementBytes(e)[HashSize + 1] = Digit(IF e.left THEN 1 ELSE 0)
BY HashListed, Appending DEF ElementBytes

\* What a path is as a record.
PathRecord(p) ==
  /\ p = [leaf |-> p.leaf, leaf_index |-> p.leaf_index, max_index |-> p.max_index,
          elements |-> p.elements]
  /\ p.leaf_index \in Nat /\ p.leaf_index < Limit
  /\ p.max_index \in Nat /\ p.max_index < Limit
  /\ Listed(p.elements) /\ Len(p.elements) < Limit
  /\ \A k \in 1 .. Len(p.elements) :
       p.elements[k].left \in BOOLEAN
       /\ p.elements[k] = [hash |-> p.elements[k].hash, left |-> p.elements[k].left]

\* Where the pieces of a serialised path lie.
LEMMA SerialisedAt ==
  ASSUME NEW p, PathRecord(p)
  PROVE  LET s == serialise(p)
             n == Len(p.elements)
         IN  /\ Listed(s) /\ Len(s) = HashSize + 3 * IntSize + n * (HashSize + 1)
             /\ LiesAt(s, 0, HashBytes(p.leaf))
             /\ LiesAt(s, HashSize, BigEndian(p.leaf_index))
             /\ LiesAt(s, HashSize + IntSize, BigEndian(p.max_index))
             /\ LiesAt(s, HashSize + 2 * IntSize, BigEndian(n))
             /\ \A i \in 1 .. n :
                  LiesAt(s, HashSize + 3 * IntSize + PieceAt(i, HashSize + 1),
                         ElementBytes(p.elements[i]))
<1> DEFINE n == Len(p.elements)
           pieces == [i \in 1 .. n |-> ElementBytes(p.elements[i])]
           a == HashBytes(p.leaf)
           b == BigEndian(p.leaf_index)
           c == BigEndian(p.max_index)
           d == BigEndian(n)
           e == FlattenSeq(pieces)
           s == Chain(a, b, c, d, e)
<1>1. serialise(p) = s
  BY DEF serialise, ElementBytes, Chain
<1>2. n \in Nat /\ HashSize \in Nat /\ IntSize \in Nat
  BY WidthAssumption, ListedDomain DEF PathRecord
<1>3. /\ Listed(a) /\ Len(a) = HashSize
      /\ Listed(b) /\ Len(b) = IntSize
      /\ Listed(c) /\ Len(c) = IntSize
      /\ Listed(d) /\ Len(d) = IntSize
  BY <1>2, HashListed, NumberListed DEF PathRecord
<1>4. /\ Listed(e) /\ Len(e) = PieceAt(n + 1, HashSize + 1)
      /\ \A i \in 1 .. n : LiesAt(e, PieceAt(i, HashSize + 1), pieces[i])
  <2>1. Listed(pieces) /\ Len(pieces) = n
    <3>1. pieces = [i \in 1 .. n |-> pieces[i]]
      OBVIOUS
    <3> HIDE DEF pieces, n
    <3> QED BY <1>2, <3>1, ListedFunction
  <2>2. \A i \in 1 .. n : Listed(pieces[i]) /\ Len(pieces[i]) = HashSize + 1
    <3> SUFFICES ASSUME NEW i \in 1 .. n PROVE Listed(pieces[i]) /\ Len(pieces[i]) = HashSize + 1
      OBVIOUS
    <3>1. pieces[i] = ElementBytes(p.elements[i])
      OBVIOUS
    <3> QED BY <3>1, ElementListed
  <2>3. Listed(<<>>)
    BY DEF Listed
  <2>4. HashSize + 1 \in Nat
    BY <1>2
  <2> DEFINE len == HashSize + 1
  <2> HIDE DEF pieces, n, len
  <2>5. /\ Listed(FlattenSeq(pieces))
        /\ Len(FlattenSeq(pieces)) = PieceAt(n + 1, len)
        /\ \A i \in 1 .. n : LiesAt(FlattenSeq(pieces), PieceAt(i, len), pieces[i])
    BY <1>2, <2>1, <2>2, <2>3, <2>4, Flattened DEF len
  <2> QED BY <2>5 DEF len
<1>5. \A i \in 1 .. n : pieces[i] = ElementBytes(p.elements[i])
  OBVIOUS
<1> HIDE DEF a, b, c, d, e, pieces
<1>6. /\ Listed(s) /\ Len(s) = Len(a) + Len(b) + Len(c) + Len(d) + Len(e)
      /\ LiesAt(s, 0, a)
      /\ LiesAt(s, Len(a), b)
      /\ LiesAt(s, Len(a) + Len(b), c)
      /\ LiesAt(s, Len(a) + Len(b) + Len(c), d)
      /\ LiesAt(s, Len(a) + Len(b) + Len(c) + Len(d), e)
  <2>1. InChain(s, a, b, c, d, e)
    BY <1>3, <1>4, FivePieces
  <2> HIDE DEF s
  <2> QED BY <2>1 DEF InChain
<1> HIDE DEF s, n
<1>7. /\ HashSize + IntSize + IntSize = HashSize + 2 * IntSize
      /\ HashSize + IntSize + IntSize + IntSize = HashSize + 3 * IntSize
      /\ HashSize + 3 * IntSize \in Nat
  BY <1>2
<1>8. Len(s) = HashSize + 3 * IntSize + n * (HashSize + 1)
  <2>1. PieceAt(n + 1, HashSize + 1) = n * (HashSize + 1)
    <3>1. (n + 1) - 1 = n
      BY <1>2
    <3> QED BY <3>1 DEF PieceAt
  <2>2. n * (HashSize + 1) \in Nat
    BY <1>2
  <2> QED BY <1>2, <1>3, <1>4, <1>6, <2>1, <2>2
<1>9. /\ LiesAt(s, HashSize, b) /\ LiesAt(s, HashSize + IntSize, c)
      /\ LiesAt(s, HashSize + 2 * IntSize, d)
      /\ LiesAt(s, HashSize + 3 * IntSize, e)
  BY <1>3, <1>6, <1>7
<1>10. ASSUME NEW i \in 1 .. n
       PROVE  LiesAt(s, HashSize + 3 * IntSize + PieceAt(i, HashSize + 1),
                      ElementBytes(p.elements[i]))
  <2>1. PieceAt(i, HashSize + 1) \in Nat
    <3>1. i \in Nat \ {0} /\ HashSize + 1 \in Nat
      BY <1>2
    <3> QED BY <3>1, PieceAtNext
  <2>2. LiesAt(e, PieceAt(i, HashSize + 1), pieces[i]) /\ pieces[i] = ElementBytes(p.elements[i])
        /\ Listed(pieces[i])
    BY <1>4, <1>5, ElementListed
  <2> QED BY <1>4, <1>6, <1>7, <1>9, <2>1, <2>2, LiesWithin
<1> QED BY <1>1, <1>6, <1>8, <1>9, <1>10 DEF s, n, a, b, c, d

-----------------------------------------------------------------------------
\* A number and a hash are read where they lie.
LEMMA ReadsNumber ==
  ASSUME NEW s, Listed(s), NEW at \in Nat, NEW n \in Nat, n < Limit
  PROVE  /\ LiesAt(s, at, BigEndian(n)) => FromBigEndian(Take(s, at, IntSize)) = n
         /\ LiesAt(s, at, LittleEndian(n)) => FromLittleEndian(Take(s, at, IntSize)) = n
<1>1. ASSUME LiesAt(s, at, BigEndian(n)) PROVE FromBigEndian(Take(s, at, IntSize)) = n
  <2> DEFINE p == BigEndian(n)
  <2>1. Listed(p) /\ Len(p) = IntSize /\ FromBigEndian(p) = n
    BY NumberListed, ReadBigEndian
  <2>2. LiesAt(s, at, p)
    BY <1>1
  <2> HIDE DEF p
  <2>3. Take(s, at, Len(p)) = p
    BY <2>1, <2>2, TakenFrom
  <2>4. FromBigEndian(Take(s, at, IntSize)) = n
    BY <2>1, <2>3
  <2> QED BY <2>4
<1>2. ASSUME LiesAt(s, at, LittleEndian(n)) PROVE FromLittleEndian(Take(s, at, IntSize)) = n
  <2> DEFINE p == LittleEndian(n)
  <2>1. Listed(p) /\ Len(p) = IntSize /\ FromLittleEndian(p) = n
    BY NumberListed, ReadLittleEndian
  <2>2. LiesAt(s, at, p)
    BY <1>2
  <2> HIDE DEF p
  <2>3. Take(s, at, Len(p)) = p
    BY <2>1, <2>2, TakenFrom
  <2>4. FromLittleEndian(Take(s, at, IntSize)) = n
    BY <2>1, <2>3
  <2> QED BY <2>4
<1> QED BY <1>1, <1>2

\* So is a hash.
LEMMA ReadsHash ==
  ASSUME NEW s, Listed(s), NEW at \in Nat, NEW h, LiesAt(s, at, HashBytes(h))
  PROVE  HashFrom(Take(s, at, HashSize)) = h
<1> DEFINE p == HashBytes(h)
<1>1. Listed(p) /\ Len(p) = HashSize /\ HashFrom(p) = h /\ LiesAt(s, at, p)
  BY HashListed
<1> HIDE DEF p
<1>2. Take(s, at, Len(p)) = p
  BY <1>1, TakenFrom
<1> QED BY <1>1, <1>2

\* The element i of the bytes of a path.
ElementAt(s, i) ==
  [hash |-> HashFrom(Take(s, HashSize + 3 * IntSize + PieceAt(i, HashSize + 1), HashSize)),
   left |-> s[HashSize + 3 * IntSize + PieceAt(i, HashSize + 1) + HashSize + 1].part # 0]

\* merklecpp.h: a path is read as it was written, if the indices, the length and the
\* hashes fit the bytes they get.
THEOREM ReadSerialised ==
  ASSUME NEW p, PathRecord(p)
  PROVE  deserialise(serialise(p)) = p
<1> DEFINE s == serialise(p)
           n == Len(p.elements)
           body == HashSize + 3 * IntSize
<1>1. /\ Listed(s)
      /\ LiesAt(s, 0, HashBytes(p.leaf))
      /\ LiesAt(s, HashSize, BigEndian(p.leaf_index))
      /\ LiesAt(s, HashSize + IntSize, BigEndian(p.max_index))
      /\ LiesAt(s, HashSize + 2 * IntSize, BigEndian(n))
      /\ \A i \in 1 .. n :
           LiesAt(s, body + PieceAt(i, HashSize + 1), ElementBytes(p.elements[i]))
  BY SerialisedAt
<1>2. /\ HashSize \in Nat /\ IntSize \in Nat /\ n \in Nat /\ body \in Nat
      /\ HashSize + IntSize \in Nat /\ HashSize + 2 * IntSize \in Nat
      /\ p.leaf_index \in Nat /\ p.leaf_index < Limit
      /\ p.max_index \in Nat /\ p.max_index < Limit /\ n < Limit
  BY WidthAssumption, ListedDomain DEF PathRecord
<1> HIDE DEF s, n
<1>3. FromBigEndian(Take(s, HashSize + 2 * IntSize, IntSize)) = n
  BY <1>1, <1>2, ReadsNumber
<1>4. HashFrom(Take(s, 0, HashSize)) = p.leaf
  BY <1>1, ReadsHash
<1>5. FromBigEndian(Take(s, HashSize, IntSize)) = p.leaf_index
  BY <1>1, <1>2, ReadsNumber
<1>6. FromBigEndian(Take(s, HashSize + IntSize, IntSize)) = p.max_index
  BY <1>1, <1>2, ReadsNumber
<1> HIDE DEF body
<1>7. ASSUME NEW i \in 1 .. n PROVE ElementAt(s, i) = p.elements[i]
  <2> DEFINE e == p.elements[i]
             b == ElementBytes(e)
             at == body + PieceAt(i, HashSize + 1)
  <2>1. Listed(b) /\ Len(b) = HashSize + 1 /\ LiesAt(b, 0, HashBytes(e.hash))
        /\ b[HashSize + 1] = Digit(IF e.left THEN 1 ELSE 0)
    BY ElementListed
  <2>2. e.left \in BOOLEAN /\ e = [hash |-> e.hash, left |-> e.left]
    BY DEF PathRecord, n
  <2>3. LiesAt(s, at, b)
    BY <1>1 DEF body
  <2>4. at \in Nat
    <3>1. i \in Nat \ {0} /\ HashSize + 1 \in Nat
      BY <1>2
    <3>2. PieceAt(i, HashSize + 1) \in Nat
      BY <3>1, PieceAtNext
    <3> QED BY <1>2, <3>2
  <2>5. ElementAt(s, i) = [hash |-> HashFrom(Take(s, at, HashSize)),
                           left |-> s[at + HashSize + 1].part # 0]
    BY DEF ElementAt, body
  <2> HIDE DEF b, at, e
  <2>6. LiesAt(s, at, HashBytes(e.hash))
    <3>1. LiesAt(s, at + 0, HashBytes(e.hash))
      BY <1>1, <2>1, <2>3, <2>4, HashListed, LiesWithin
    <3> QED BY <2>4, <3>1
  <2>7. HashFrom(Take(s, at, HashSize)) = e.hash
    BY <1>1, <2>4, <2>6, ReadsHash
  <2>8. s[at + HashSize + 1] = Digit(IF e.left THEN 1 ELSE 0)
    <3>1. HashSize + 1 \in 1 .. Len(b) /\ at + (HashSize + 1) = at + HashSize + 1
      BY <1>2, <2>1, <2>4
    <3>2. s[at + (HashSize + 1)] = b[HashSize + 1]
      BY <2>3, <3>1 DEF LiesAt
    <3> QED BY <2>1, <3>1, <3>2
  <2>9. (s[at + HashSize + 1].part # 0) = e.left
    <3>1. CASE e.left
      <4>1. e.left = TRUE
        BY <2>2, <3>1
      <4>2. s[at + HashSize + 1].part = 1
        BY <2>8, <3>1 DEF Digit
      <4>3. (s[at + HashSize + 1].part # 0) = TRUE
        BY <4>2
      <4> QED BY <4>1, <4>3
    <3>2. CASE ~ e.left
      BY <2>2, <2>8, <3>2 DEF Digit
    <3> QED BY <2>2, <3>1, <3>2
  <2> QED BY <2>2, <2>5, <2>7, <2>9 DEF e
<1>8. p.elements = [i \in 1 .. n |-> ElementAt(s, i)]
  <2>1. p.elements = [i \in 1 .. n |-> p.elements[i]]
    BY ListedDomain DEF PathRecord, n
  <2> DEFINE es == p.elements
  <2>2. \A i \in 1 .. n : ElementAt(s, i) = es[i]
    BY <1>7
  <2>3. es = [i \in 1 .. n |-> es[i]]
    BY <2>1
  <2> HIDE DEF es
  <2>4. es = [i \in 1 .. n |-> ElementAt(s, i)]
    BY <2>2, <2>3
  <2> QED BY <2>4 DEF es
<1>9. deserialise(s) = [leaf |-> HashFrom(Take(s, 0, HashSize)),
                        leaf_index |-> FromBigEndian(Take(s, HashSize, IntSize)),
                        max_index |-> FromBigEndian(Take(s, HashSize + IntSize, IntSize)),
                        elements |-> [i \in 1 .. n |-> ElementAt(s, i)]]
  BY <1>3 DEF deserialise, ElementAt, PieceAt
<1>10. deserialise(s) = p
  <2>1. p = [leaf |-> p.leaf, leaf_index |-> p.leaf_index, max_index |-> p.max_index,
             elements |-> p.elements]
    BY DEF PathRecord
  <2> QED BY <1>4, <1>5, <1>6, <1>8, <1>9, <2>1
<1> QED BY <1>10 DEF s

-----------------------------------------------------------------------------
(* A chunk message in bytes.                                               *)

\* What a chunk message is before it is framed.
Message(m) ==
  /\ m = [replicaID |-> m.replicaID, idx |-> m.idx, round |-> m.round,
          merkle_root |-> m.merkle_root, merkle_proof |-> m.merkle_proof,
          chunk |-> [size |-> m.chunk.size, data |-> m.chunk.data]]
  /\ m.replicaID \in Nat /\ m.replicaID < Limit
  /\ m.idx \in Nat /\ m.idx < Limit
  /\ m.round \in Nat /\ m.round < Limit
  /\ m.chunk.size \in Nat /\ m.chunk.size < Limit
  /\ Listed(m.merkle_proof) /\ Len(m.merkle_proof) < Limit
  /\ Listed(m.chunk.data) /\ Len(m.chunk.data) < Limit

\* ShareChunk::serialize, ShareChunk::unserialize and those of Chunk: what is framed is
\* what is read, whatever the lengths of the proof and of the chunk.
THEOREM ReadFramed ==
  ASSUME NEW m, Message(m)
  PROVE  Unframed(Framed(m)) = m
<1> DEFINE a == LittleEndian(m.replicaID)
           b == LittleEndian(m.idx)
           c == LittleEndian(m.round)
           d == HashBytes(m.merkle_root)
           e == LittleEndian(Len(m.merkle_proof))
           head == Chain(a, b, c, d, e)
           f == m.merkle_proof
           g == LittleEndian(m.chunk.size)
           h == LittleEndian(Len(m.chunk.data))
           k == m.chunk.data
           s == Chain(head, f, g, h, k)
           I == IntSize
           F == Len(f)
           D == Len(k)
<1>1. Framed(m) = s
  BY DEF Framed, Chain
<1>2. /\ m.replicaID \in Nat /\ m.replicaID < Limit
      /\ m.idx \in Nat /\ m.idx < Limit
      /\ m.round \in Nat /\ m.round < Limit
      /\ m.chunk.size \in Nat /\ m.chunk.size < Limit
      /\ F \in Nat /\ F < Limit /\ Listed(f)
      /\ D \in Nat /\ D < Limit /\ Listed(k)
  BY ListedDomain DEF Message
<1>3. /\ Listed(a) /\ Len(a) = I /\ Listed(b) /\ Len(b) = I /\ Listed(c) /\ Len(c) = I
      /\ Listed(d) /\ Len(d) = HashSize /\ Listed(e) /\ Len(e) = I
      /\ Listed(g) /\ Len(g) = I /\ Listed(h) /\ Len(h) = I
  BY <1>2, NumberListed, HashListed
<1>4. I \in Nat /\ HashSize \in Nat
  BY WidthAssumption
<1> HIDE DEF I, a, b, c, d, e, f, g, h, k, F, D
<1>5. InChain(head, a, b, c, d, e)
  BY <1>3, FivePieces
<1> HIDE DEF head
<1>6. InChain(s, head, f, g, h, k)
  BY <1>2, <1>3, <1>5, FivePieces DEF InChain
<1> HIDE DEF s
<1> DEFINE proofAt == 3 * I + HashSize + I
           chunkAt == proofAt + F
<1>7. /\ Listed(head) /\ Len(head) = proofAt
      /\ LiesAt(head, 0, a) /\ LiesAt(head, I, b) /\ LiesAt(head, 2 * I, c)
      /\ LiesAt(head, 3 * I, d) /\ LiesAt(head, proofAt - I, e)
  <2>1. I + I = 2 * I /\ I + I + I = 3 * I /\ I + I + I + HashSize = proofAt - I
        /\ I + I + I + HashSize + I = proofAt
    BY <1>4
  <2> HIDE DEF proofAt
  <2> QED BY <1>3, <1>5, <2>1 DEF InChain
<1>8. /\ proofAt \in Nat /\ chunkAt \in Nat /\ proofAt - I \in Nat /\ 2 * I \in Nat /\ 3 * I \in Nat
      /\ chunkAt + I \in Nat /\ chunkAt + 2 * I \in Nat
  BY <1>2, <1>4
<1>9. /\ Listed(s)
      /\ LiesAt(s, 0, head) /\ LiesAt(s, proofAt, f) /\ LiesAt(s, chunkAt, g)
      /\ LiesAt(s, chunkAt + I, h) /\ LiesAt(s, chunkAt + 2 * I, k)
  <2>1. Len(head) + Len(f) = chunkAt /\ Len(head) + Len(f) + Len(g) = chunkAt + I
        /\ Len(head) + Len(f) + Len(g) + Len(h) = chunkAt + 2 * I
    BY <1>2, <1>3, <1>4, <1>7, <1>8 DEF F
  <2> HIDE DEF proofAt, chunkAt
  <2> QED BY <1>6, <1>7, <2>1 DEF InChain
<1> HIDE DEF proofAt, chunkAt
<1>10. /\ LiesAt(s, 0, a) /\ LiesAt(s, I, b) /\ LiesAt(s, 2 * I, c)
       /\ LiesAt(s, 3 * I, d) /\ LiesAt(s, proofAt - I, e)
  <2>1. \A at \in Nat : \A p : Listed(p) /\ LiesAt(head, at, p) => LiesAt(s, at, p)
    <3> SUFFICES ASSUME NEW at \in Nat, NEW p, Listed(p), LiesAt(head, at, p)
                 PROVE  LiesAt(s, at, p)
      OBVIOUS
    <3>1. LiesAt(s, 0 + at, p)
      BY <1>7, <1>9, LiesWithin
    <3> QED BY <3>1
  <2> QED BY <1>3, <1>4, <1>7, <1>8, <2>1
<1>11. FromLittleEndian(Take(s, 0, I)) = m.replicaID
  BY <1>2, <1>9, <1>10, ReadsNumber DEF a, I
<1>12. FromLittleEndian(Take(s, I, I)) = m.idx
  BY <1>2, <1>4, <1>9, <1>10, ReadsNumber DEF b, I
<1>13. FromLittleEndian(Take(s, 2 * I, I)) = m.round
  BY <1>2, <1>8, <1>9, <1>10, ReadsNumber DEF c, I
<1>14. HashFrom(Take(s, 3 * I, HashSize)) = m.merkle_root
  BY <1>8, <1>9, <1>10, ReadsHash DEF d
<1>15. FromLittleEndian(Take(s, proofAt - I, I)) = F
  BY <1>2, <1>8, <1>9, <1>10, ReadsNumber DEF e, I, F, f
<1>16. Take(s, proofAt, F) = f
  BY <1>2, <1>8, <1>9, TakenFrom DEF F
<1>17. FromLittleEndian(Take(s, chunkAt, I)) = m.chunk.size
  BY <1>2, <1>8, <1>9, ReadsNumber DEF g, I
<1>18. FromLittleEndian(Take(s, chunkAt + I, I)) = D
  BY <1>2, <1>8, <1>9, ReadsNumber DEF h, I, D, k
<1>19. Take(s, chunkAt + 2 * I, D) = k
  BY <1>2, <1>8, <1>9, TakenFrom DEF D
<1>20. Unframed(s) = [replicaID |-> m.replicaID, idx |-> m.idx, round |-> m.round,
                      merkle_root |-> m.merkle_root, merkle_proof |-> f,
                      chunk |-> [size |-> m.chunk.size, data |-> k]]
  <2>1. Unframed(s) = [replicaID |-> FromLittleEndian(Take(s, 0, I)),
                       idx |-> FromLittleEndian(Take(s, I, I)),
                       round |-> FromLittleEndian(Take(s, 2 * I, I)),
                       merkle_root |-> HashFrom(Take(s, 3 * I, HashSize)),
                       merkle_proof |-> Take(s, proofAt, F),
                       chunk |-> [size |-> FromLittleEndian(Take(s, chunkAt, I)),
                                  data |-> Take(s, chunkAt + 2 * I, D)]]
    BY <1>15, <1>18 DEF Unframed, I, proofAt, chunkAt
  <2> QED BY <1>11, <1>12, <1>13, <1>14, <1>16, <1>17, <1>19, <2>1
<1>21. Unframed(s) = m
  <2>1. m = [replicaID |-> m.replicaID, idx |-> m.idx, round |-> m.round,
             merkle_root |-> m.merkle_root, merkle_proof |-> m.merkle_proof,
             chunk |-> [size |-> m.chunk.size, data |-> m.chunk.data]]
    BY DEF Message
  <2> QED BY <1>20, <2>1 DEF f, k
<1> QED BY <1>1, <1>21

-----------------------------------------------------------------------------
(* Blocks and the stream they are cut from.                                *)

\* What is proved of the code's encoder and decoder.
Blocking == INSTANCE ErasureProofs
  WITH MaxK <- N, MaxSize <- 0, Padding <- Digit(0), k <- K, stream <- <<>>, chunks <- <<>>,
       pc <- "", i <- 0, j <- 0, out <- <<>>

\* The blocks of so many bytes (ErasureProofs).
LEMMA BlockSizes ==
  ASSUME NEW n \in Nat
  PROVE  /\ K \in Nat \ {0} /\ Word \in Nat \ {0}
         /\ E!blocksize(n, K) \in Nat
         /\ E!blocksize(n, K) % Word = 0
         /\ E!newsize(n, K) = K * E!blocksize(n, K)
         /\ E!newsize(n, K) \in Nat
         /\ n <= E!newsize(n, K)
         /\ E!newsize(n, K) < n + K * Word
<1>1. K \in Nat \ {0} /\ Word \in Nat \ {0} /\ N \in Nat \ {0}
  BY ThresholdAssumption, BlockAssumption
<1>2. /\ Blocking!blocksize(n, K) \in Nat
      /\ Blocking!blocksize(n, K) % Word = 0
      /\ Blocking!newsize(n, K) = K * Blocking!blocksize(n, K)
      /\ n <= Blocking!newsize(n, K)
      /\ Blocking!newsize(n, K) < n + K * Word
  BY <1>1, Blocking!Sizes
<1>3. E!newsize(n, K) = Blocking!newsize(n, K) /\ E!blocksize(n, K) = Blocking!blocksize(n, K)
  BY DEF E!newsize, E!blocksize, E!Groups, Blocking!newsize, Blocking!blocksize, Blocking!Groups
<1>4. K * Blocking!blocksize(n, K) \in Nat
  BY <1>1, <1>2
<1> QED BY <1>1, <1>2, <1>3, <1>4

\* decode rounds as encode has rounded.
LEMMA DecodeSizes ==
  ASSUME NEW n
  PROVE  E!decode_blocksize(n, K) = E!blocksize(n, K)
BY DEF E!decode_blocksize, E!decode_groups, E!blocksize, E!newsize, E!Groups

\* Of two multiples the greater is greater by the factor.
LEMMA MultiplesApart ==
  ASSUME NEW a \in Nat, NEW b \in Nat, NEW w \in Nat \ {0}, a % w = 0, b % w = 0, a < b
  PROVE  a + w <= b
<1> DEFINE p == a \div w
           q == b \div w
<1>1. p \in Nat /\ q \in Nat /\ a = p * w + (a % w) /\ b = q * w + (b % w)
  <2>1. p \in Nat /\ a = p * w + (a % w)
    BY Division
  <2>2. q \in Nat /\ b = q * w + (b % w)
    BY Division
  <2> QED BY <2>1, <2>2
<1> HIDE DEF p, q
<1>2. p * w \in Nat /\ q * w \in Nat
  BY <1>1
<1>3. a = p * w /\ b = q * w
  BY <1>1, <1>2
<1>4. p < q
  BY <1>1, <1>3, FactorLess
<1>5. (q - p - 1) * w \in Nat /\ q * w = p * w + w + (q - p - 1) * w
  <2>1. q - p - 1 \in Nat
    BY <1>1, <1>4
  <2> QED BY <1>1, <2>1
<1> QED BY <1>2, <1>3, <1>5

\* More bytes are not cut into smaller blocks.
LEMMA BlockSizeMonotonic ==
  ASSUME NEW m \in Nat, NEW n \in Nat, m <= n
  PROVE  E!blocksize(m, K) <= E!blocksize(n, K)
<1> DEFINE a == E!blocksize(n, K)
           b == E!blocksize(m, K)
<1>1. /\ K \in Nat \ {0} /\ Word \in Nat \ {0} /\ a \in Nat /\ b \in Nat
      /\ a % Word = 0 /\ b % Word = 0
      /\ n <= K * a /\ K * b < m + K * Word
  BY BlockSizes
<1> HIDE DEF a, b
<1>2. SUFFICES ASSUME a < b PROVE FALSE
  BY <1>1 DEF a, b
<1>3. a + Word <= b
  BY <1>1, <1>2, MultiplesApart
<1> DEFINE d == b - (a + Word)
<1>4. d \in Nat /\ b = (a + Word) + d
  BY <1>1, <1>3
<1> HIDE DEF d
<1>5. K * b = K * a + K * Word + K * d /\ K * a \in Nat /\ K * Word \in Nat /\ K * d \in Nat
  BY <1>1, <1>4
<1> QED BY <1>1, <1>5

-----------------------------------------------------------------------------
\* A data block holds the bytes of the padded stream at its place.
LEMMA DataBlock ==
  ASSUME NEW s, Listed(s), NEW b \in 1 .. K
  PROVE  LET c   == E!encode(s, K)[b]
             len == E!blocksize(Len(s), K)
         IN  /\ c = [size |-> Len(s), data |-> c.data]
             /\ Listed(c.data) /\ Len(c.data) = len
             /\ \A j \in 1 .. len :
                  PieceAt(b, len) + j <= Len(s) => c.data[j] = s[PieceAt(b, len) + j]
<1> DEFINE c    == E!encode(s, K)[b]
           len  == E!blocksize(Len(s), K)
           size == E!newsize(Len(s), K)
           p    == E!Padded(s, K)
           at   == PieceAt(b, len)
<1>1. Len(s) \in Nat
  BY ListedDomain
<1>2. K \in Nat \ {0} /\ len \in Nat /\ size = K * len /\ size \in Nat /\ Len(s) <= size
  BY <1>1, BlockSizes
<1>3. c = [size |-> Len(s), data |-> SubSeq(p, (b - 1) * len + 1, b * len)]
  BY DEF E!encode
<1>4. p = [q \in 1 .. size |-> IF q <= Len(s) THEN s[q] ELSE Digit(0)]
  BY DEF E!Padded
<1> HIDE DEF c, len, p, size
<1>5. p = [q \in 1 .. size |-> p[q]] /\ \A q \in 1 .. Len(s) : p[q] = s[q]
  <2>1. \A q \in 1 .. Len(s) : q \in 1 .. size /\ q <= Len(s)
    BY <1>1, <1>2
  <2> QED BY <1>4, <2>1
<1>6. Listed(p) /\ Len(p) = size
  BY <1>2, <1>5, ListedFunction
<1>7. at \in Nat /\ b * len = at + len /\ at = (b - 1) * len
  <2>1. b \in Nat \ {0} /\ b - 1 \in Nat
    BY <1>2
  <2>2. (b - 1) * len \in Nat /\ b * len = (b - 1) * len + len
    BY <1>2, <2>1
  <2> QED BY <2>2 DEF PieceAt
<1>8. at + len <= size
  <2>1. K - b \in Nat /\ K = b + (K - b)
    BY <1>2
  <2>2. K * len = b * len + (K - b) * len /\ (K - b) * len \in Nat /\ b * len \in Nat
    BY <1>2, <2>1
  <2> QED BY <1>2, <1>7, <2>2
<1> HIDE DEF at
<1>9. c.data = Take(p, at, len)
  BY <1>3, <1>7 DEF Take
<1>10. /\ Listed(c.data) /\ Len(c.data) = len
       /\ \A j \in 1 .. len : c.data[j] = p[at + j]
  <2> DEFINE t == Take(p, at, len)
  <2>1. Listed(p) /\ at \in Nat /\ len \in Nat /\ at + len <= Len(p)
    BY <1>2, <1>6, <1>7, <1>8
  <2>2. /\ Listed(Take(p, at, len)) /\ Len(Take(p, at, len)) = len
        /\ \A j \in 1 .. len : Take(p, at, len)[j] = p[at + j]
    BY <2>1, Taken
  <2>3. c.data = t
    BY <1>9
  <2>4. Listed(t) /\ Len(t) = len /\ \A j \in 1 .. len : t[j] = p[at + j]
    BY <2>2
  <2> HIDE DEF t
  <2> QED BY <2>3, <2>4
<1>11. ASSUME NEW j \in 1 .. len, at + j <= Len(s) PROVE c.data[j] = s[at + j]
  <2>1. at + j \in 1 .. Len(s)
    BY <1>1, <1>2, <1>7, <1>11
  <2> QED BY <1>5, <1>10, <2>1
<1>12. c = [size |-> Len(s), data |-> c.data]
  BY <1>3
<1> QED BY <1>10, <1>11, <1>12 DEF c, len, at

\* erasure.h: all data blocks of a stream decode to it.
LEMMA DecodedStream ==
  ASSUME NEW s, Listed(s), NEW row, \A b \in 1 .. K : row[b - 1] = E!encode(s, K)[b]
  PROVE  Decoded(row) = s
<1> DEFINE len == E!blocksize(Len(s), K)
           pieces == [b \in 1 .. K |-> Take(row[b - 1].data, 0, len)]
           flat == FlattenSeq(pieces)
<1>1. Len(s) \in Nat
  BY ListedDomain
<1>2. K \in Nat \ {0} /\ len \in Nat /\ Len(s) <= K * len
  BY <1>1, BlockSizes
<1>3. row[0].size = Len(s)
  <2>1. 1 \in 1 .. K /\ 1 - 1 = 0
    BY <1>2
  <2>2. row[0] = E!encode(s, K)[1]
    BY <2>1
  <2>3. E!encode(s, K)[1].size = Len(s)
    <3> DEFINE c == E!encode(s, K)[1]
    <3>1. c = [size |-> Len(s), data |-> c.data]
      BY <2>1, DataBlock
    <3> HIDE DEF c
    <3>2. c.size = Len(s)
      BY <3>1
    <3> QED BY <3>2 DEF c
  <2> QED BY <2>2, <2>3
<1>4. Decoded(row) = Take(flat, 0, Len(s))
  BY <1>3, DecodeSizes DEF Decoded
<1> HIDE DEF len
<1>5. ASSUME NEW b \in 1 .. K
      PROVE  /\ Listed(pieces[b]) /\ Len(pieces[b]) = len
             /\ \A j \in 1 .. len :
                  PieceAt(b, len) + j <= Len(s) => pieces[b][j] = s[PieceAt(b, len) + j]
  <2> DEFINE d == E!encode(s, K)[b].data
  <2>1. /\ Listed(d) /\ Len(d) = len
        /\ \A j \in 1 .. len :
             PieceAt(b, len) + j <= Len(s) => d[j] = s[PieceAt(b, len) + j]
    BY DataBlock DEF len
  <2>2. pieces[b] = Take(d, 0, len)
    OBVIOUS
  <2> HIDE DEF d, pieces
  <2>3. Take(d, 0, len) = d
    BY <2>1, LiesAtStart, TakenFrom
  <2> QED BY <2>1, <2>2, <2>3
<1>6. Listed(pieces) /\ Len(pieces) = K
  <2>1. pieces = [b \in 1 .. K |-> pieces[b]]
    OBVIOUS
  <2> HIDE DEF pieces
  <2> QED BY <1>2, <2>1, ListedFunction
<1> HIDE DEF pieces
<1>7. /\ Listed(flat) /\ Len(flat) = PieceAt(K + 1, len)
      /\ \A b \in 1 .. K : LiesAt(flat, PieceAt(b, len), pieces[b])
  <2>1. Listed(<<>>)
    BY DEF Listed
  <2> QED BY <1>2, <1>5, <1>6, <2>1, Flattened
<1>8. PieceAt(K + 1, len) = K * len
  <2>1. (K + 1) - 1 = K
    BY <1>2
  <2> QED BY <2>1 DEF PieceAt
<1> HIDE DEF flat
<1>9. ASSUME NEW p \in 1 .. Len(s) PROVE flat[0 + p] = s[p]
  <2>1. p \in Nat /\ p >= 1 /\ p <= PieceAt(K + 1, len) /\ 0 + p = p
    <3>1. K * len \in Nat
      BY <1>2
    <3> QED BY <1>1, <1>2, <1>8, <3>1
  <2>2. PICK b \in 1 .. K, j \in 1 .. len : p = PieceAt(b, len) + j
    BY <1>2, <2>1, PositionInPiece
  <2>3. flat[PieceAt(b, len) + j] = pieces[b][j]
    BY <1>5, <1>7 DEF LiesAt
  <2>4. pieces[b][j] = s[PieceAt(b, len) + j]
    BY <1>1, <1>5, <2>2
  <2> QED BY <2>1, <2>2, <2>3, <2>4
<1>10. LiesAt(flat, 0, s)
  BY <1>1, <1>2, <1>7, <1>8, <1>9 DEF LiesAt
<1>11. Take(flat, 0, Len(s)) = s
  BY <1>7, <1>10, TakenFrom
<1> QED BY <1>4, <1>11

\* DrgCore: the bytes behind their length are read.
LEMMA ExtraBytes ==
  ASSUME NEW bytes, Listed(bytes), Len(bytes) < Limit
  PROVE  Extra(LittleEndian(Len(bytes)) \o bytes) = bytes
<1> DEFINE n == Len(bytes)
           p == LittleEndian(n)
           d == p \o bytes
<1>1. n \in Nat /\ n < Limit
  BY ListedDomain
<1>2. Listed(p) /\ Len(p) = IntSize /\ IntSize \in Nat
  BY <1>1, NumberListed, WidthAssumption
<1> HIDE DEF n
<1>3. Listed(d) /\ LiesAt(d, 0, p) /\ LiesAt(d, IntSize, bytes)
  <2> HIDE DEF p
  <2>1. Listed(d) /\ LiesAt(d, Len(p), bytes)
    BY <1>2, Joining, JoinedAt
  <2>2. LiesAt(p, 0, p)
    BY <1>2, LiesAtStart
  <2>3. LiesAt(d, 0, p)
    BY <1>2, <2>2, StaysAt
  <2> QED BY <1>2, <2>1, <2>3
<1> HIDE DEF d
<1>4. FromLittleEndian(Take(d, 0, IntSize)) = n
  BY <1>1, <1>3, ReadsNumber DEF p
<1>5. Take(d, IntSize, n) = bytes
  BY <1>2, <1>3, TakenFrom DEF n
<1>6. Extra(d) = bytes
  BY <1>4, <1>5 DEF Extra
<1> QED BY <1>6 DEF d, p, n

-----------------------------------------------------------------------------
(* A dealer's blocks and messages.                                         *)

\* The bytes that a dealer cuts into blocks.
Stream(bytes) == LittleEndian(Len(bytes)) \o bytes

\* The block b of a dealer.
LEMMA BlockOf ==
  ASSUME NEW bytes, Listed(bytes), NEW d, NEW b \in 1 .. N
  PROVE  LET c == Blocks(bytes, d)[b]
             s == Stream(bytes)
         IN  /\ c = [size |-> c.size, data |-> c.data]
             /\ c.size = Len(s)
             /\ Listed(c.data) /\ Len(c.data) = E!blocksize(Len(s), K)
             /\ b <= K => c = E!encode(s, K)[b]
<1> DEFINE c   == Blocks(bytes, d)[b]
           s   == Stream(bytes)
           len == E!blocksize(Len(s), K)
           data == E!encode(s, K)
<1>1. Listed(s) /\ Len(s) \in Nat
  <2>1. Listed(LittleEndian(Len(bytes)))
    BY ListedDomain, NumberListed
  <2>2. Listed(s)
    BY <2>1, Joining DEF Stream
  <2> QED BY <2>2, ListedDomain
<1>2. K \in Nat \ {0} /\ len \in Nat
  BY <1>1, BlockSizes
<1>3. c = IF b <= K THEN data[b]
          ELSE [data[1] EXCEPT !.data =
                  [p \in DOMAIN data[1].data |-> [of |-> <<d, b, 0>>, part |-> p]]]
  BY DEF Blocks, Stream
<1>4. \A q \in 1 .. K : /\ data[q] = [size |-> Len(s), data |-> data[q].data]
                        /\ Listed(data[q].data) /\ Len(data[q].data) = len
  BY <1>1, DataBlock
<1> HIDE DEF data, s, len, c
<1>5. CASE b <= K
  <2>1. c = data[b] /\ b \in 1 .. K
    BY <1>2, <1>3, <1>5
  <2>2. c = [size |-> Len(s), data |-> c.data] /\ Listed(c.data) /\ Len(c.data) = len
    BY <1>4, <2>1
  <2>3. c.size = Len(s)
    BY <2>2
  <2> QED BY <2>1, <2>2, <2>3 DEF c, s, len, data
<1>6. CASE ~ b <= K
  <2> DEFINE f == [p \in DOMAIN data[1].data |-> [of |-> <<d, b, 0>>, part |-> p]]
             t == data[1]
  <2>1. t = [size |-> Len(s), data |-> t.data] /\ Listed(t.data) /\ Len(t.data) = len
    <3>1. 1 \in 1 .. K
      BY <1>2
    <3> QED BY <1>4, <3>1
  <2>2. c = [t EXCEPT !.data = f]
    BY <1>3, <1>6
  <2>3. DOMAIN t.data = 1 .. len
    BY <2>1, ListedDomain
  <2>4. f = [p \in 1 .. len |-> f[p]]
    BY <2>3
  <2> HIDE DEF f, t
  <2>5. Listed(f) /\ Len(f) = len
    BY <1>2, <2>4, ListedFunction
  <2>6. c = [size |-> Len(s), data |-> f]
    BY <2>1, <2>2
  <2>7. c.size = Len(s) /\ c.data = f
    BY <2>6
  <2>8. c = [size |-> c.size, data |-> c.data]
    BY <2>6, <2>7
  <2> QED BY <1>6, <2>5, <2>7, <2>8 DEF c, s, len
<1> QED BY <1>5, <1>6

-----------------------------------------------------------------------------
\* The message that a dealer makes for the replica i, before it is framed.
Leafs(bytes, d) == [b \in 1 .. N |-> LeafOf(Blocks(bytes, d)[b])]

\* It carries its block, the root of all leaves and the path of its own.
DealtMessage(bytes, d, i) ==
  [replicaID |-> d, idx |-> i, round |-> 0,
   merkle_root |-> Tree!RootOf(Leafs(bytes, d)),
   merkle_proof |-> serialise(extract(Leafs(bytes, d), i)),
   chunk |-> Blocks(bytes, d)[i + 1]]

\* DrgCore::deliver_chunk sends these, framed, one to each replica.
LEMMA DealtMessages ==
  ASSUME NEW d
  PROVE  deliver_chunk(d) = {Framed(DealtMessage(sharing[d], d, i)) : i \in 0 .. N - 1}
BY DEF deliver_chunk, DealtMessage, Leafs

\* The sizes of a cluster and of what is written fit.
LEMMA NumbersFit ==
  /\ N \in Nat \ {0} /\ N < Limit /\ K \in Nat \ {0} /\ K <= N
  /\ Limit \in Nat
<1>1. Limit \in Nat
  <2>1. PICK p \in [0 .. IntSize -> Nat] : Limit = p[IntSize]
    BY LimitPower
  <2>2. IntSize \in 0 .. IntSize
    BY WidthAssumption
  <2> QED BY <2>1, <2>2
<1> QED BY <1>1, ThresholdAssumption, LimitAssumption

\* A leaf's path in a dealer's tree.
LEMMA DealtPath ==
  ASSUME NEW bytes, NEW d, NEW i \in 0 .. N - 1
  PROVE  LET p == extract(Leafs(bytes, d), i)
         IN  /\ PathRecord(p)
             /\ Len(p.elements) < N
             /\ root(p) = Tree!RootOf(Leafs(bytes, d))
<1> DEFINE s == Leafs(bytes, d)
           p == extract(s, i)
           es == Tree!PathOf(s, i)
<1>1. N \in Nat \ {0} /\ N < Limit /\ Limit \in Nat
  BY NumbersFit
<1>2. Len(s) = N
  <2>1. s = [b \in 1 .. N |-> s[b]]
    BY DEF Leafs
  <2> HIDE DEF s
  <2> QED BY <1>1, <2>1, ListedFunction
<1> HIDE DEF s
<1>3. Leads(s, i, es, N, 0)
  BY <1>1, <1>2, PathLeads
<1>4. root(p) = Tree!RootOf(s)
  BY <1>1, <1>2, PathVerifies
<1>5. p = [leaf |-> s[i + 1], leaf_index |-> i, max_index |-> N - 1, elements |-> es]
  BY <1>2 DEF extract
<1> HIDE DEF p, es
<1>6. p.leaf = s[i + 1] /\ p.leaf_index = i /\ p.max_index = N - 1 /\ p.elements = es
  BY <1>5
<1>7. p = [leaf |-> p.leaf, leaf_index |-> p.leaf_index, max_index |-> p.max_index,
           elements |-> p.elements]
  BY <1>5, <1>6
<1>8. /\ Listed(es) /\ Len(es) < N
      /\ \A k \in 1 .. Len(es) :
           es[k].left \in BOOLEAN /\ es[k] = [hash |-> es[k].hash, left |-> es[k].left]
  BY <1>3 DEF Leads
<1>9. i \in Nat /\ i < Limit /\ N - 1 \in Nat /\ N - 1 < Limit /\ Len(es) < Limit
  <2>1. Len(es) \in Nat
    BY <1>8, ListedDomain
  <2> QED BY <1>1, <1>8, <2>1
<1>10. PathRecord(p)
  BY <1>6, <1>7, <1>8, <1>9 DEF PathRecord
<1> QED BY <1>4, <1>6, <1>8, <1>10 DEF p, s

\* A dealer's message survives its framing, and its proof holds.
LEMMA DealtMessageReads ==
  ASSUME NEW bytes, Listed(bytes), Len(bytes) \in Lengths, NEW d \in DealerIds, NEW i \in 0 .. N - 1
  PROVE  LET m == DealtMessage(bytes, d, i)
         IN  Unframed(Framed(m)) = m /\ Proven(m)
<1> DEFINE s == Leafs(bytes, d)
           p == extract(s, i)
           proof == serialise(p)
           c == Blocks(bytes, d)[i + 1]
           m == DealtMessage(bytes, d, i)
           size == Len(Stream(bytes))
<1>1. N \in Nat \ {0} /\ N < Limit /\ Limit \in Nat /\ K \in Nat \ {0}
  BY NumbersFit
<1>2. IntSize \in Nat /\ HashSize \in Nat
  BY WidthAssumption
<1>3. PathRecord(p) /\ Len(p.elements) < N /\ root(p) = Tree!RootOf(s)
  BY DealtPath
<1>4. Listed(proof) /\ Len(proof) < Limit
  <2> DEFINE n == Len(p.elements)
  <2>1. Listed(proof) /\ Len(proof) = HashSize + 3 * IntSize + n * (HashSize + 1)
    BY <1>3, SerialisedAt
  <2>2. n \in Nat /\ n < N
    BY <1>3, ListedDomain DEF PathRecord
  <2> HIDE DEF n, proof
  <2>3. /\ n * (HashSize + 1) \in Nat
        /\ N * (HashSize + 1) = n * (HashSize + 1) + (N - n) * (HashSize + 1)
        /\ (N - n) * (HashSize + 1) \in Nat
    <3>1. N - n \in Nat
      BY <1>1, <2>2
    <3> QED BY <1>1, <1>2, <2>2, <3>1
  <2>4. HashSize + 3 * IntSize + N * (HashSize + 1) < Limit
    BY LimitAssumption
  <2> QED BY <1>1, <1>2, <2>1, <2>3, <2>4
<1>5. size = IntSize + Len(bytes) /\ Len(bytes) \in Nat
  <2>1. Len(bytes) \in Nat
    BY ListedDomain
  <2>2. Listed(LittleEndian(Len(bytes))) /\ Len(LittleEndian(Len(bytes))) = IntSize
    BY <2>1, NumberListed
  <2> QED BY <2>1, <2>2, Joining DEF Stream
<1>6. size \in Nat /\ size < Limit /\ E!blocksize(size, K) \in Nat /\ E!blocksize(size, K) < Limit
  <2> HIDE DEF size
  <2> DEFINE z == E!newsize(size, K)
             len == E!blocksize(size, K)
  <2>1. size \in Nat
    BY <1>2, <1>5
  <2>2. z < Limit
    BY <1>5, LimitAssumption
  <2>3. len \in Nat /\ z = K * len /\ z \in Nat /\ size <= z
    BY <2>1, BlockSizes
  <2> HIDE DEF z, len
  <2>4. len <= K * len
    <3>1. K - 1 \in Nat /\ K * len = len + (K - 1) * len /\ (K - 1) * len \in Nat
      <4>1. K - 1 \in Nat
        BY <1>1
      <4> QED BY <1>1, <2>3, <4>1
    <3> QED BY <2>3, <3>1
  <2> QED BY <1>1, <2>1, <2>2, <2>3, <2>4 DEF z, len
<1>7. c = [size |-> c.size, data |-> c.data] /\ c.size = size
      /\ Listed(c.data) /\ Len(c.data) = E!blocksize(size, K)
  <2>1. i + 1 \in 1 .. N
    BY <1>1
  <2> QED BY <2>1, BlockOf
<1>8. m = [replicaID |-> d, idx |-> i, round |-> 0, merkle_root |-> Tree!RootOf(s),
           merkle_proof |-> proof, chunk |-> c]
  BY DEF DealtMessage
<1> HIDE DEF m, c, proof, size, p, s
<1>9. /\ m.replicaID = d /\ m.idx = i /\ m.round = 0 /\ m.merkle_root = Tree!RootOf(s)
      /\ m.merkle_proof = proof /\ m.chunk = c
  BY <1>8
<1>10. d \in Nat /\ d < Limit /\ i \in Nat /\ i < Limit /\ 0 < Limit
  <2>1. d \in 0 .. N - 1
    BY ThresholdAssumption
  <2> QED BY <1>1, <2>1
<1>11. m = [replicaID |-> m.replicaID, idx |-> m.idx, round |-> m.round,
            merkle_root |-> m.merkle_root, merkle_proof |-> m.merkle_proof,
            chunk |-> [size |-> m.chunk.size, data |-> m.chunk.data]]
  <2>1. m.chunk = [size |-> m.chunk.size, data |-> m.chunk.data]
    BY <1>7, <1>9
  <2> QED BY <1>8, <1>9, <2>1
<1>12. Message(m)
  BY <1>4, <1>6, <1>7, <1>9, <1>10, <1>11 DEF Message
<1>13. Unframed(Framed(m)) = m
  BY <1>12, ReadFramed
<1>14. Proven(m)
  <2>1. deserialise(proof) = p
    BY <1>3, ReadSerialised DEF proof
  <2> QED BY <1>3, <1>9, <2>1 DEF Proven, verify
<1> QED BY <1>13, <1>14 DEF m

-----------------------------------------------------------------------------
(* The invariant.                                                          *)

\* What the dealers have serialized does not change.
SharingsListed ==
  \A d \in DealerIds : Listed(sharing[d]) /\ Len(sharing[d]) \in Lengths

\* A kept chunk is the block of its dealer at its index.
KeptAreBlocks ==
  /\ \E f : sharechunk_matrix = [d \in 0 .. N - 1 |-> f[d]]
  /\ \A d \in 0 .. N - 1 : \A i \in DOMAIN sharechunk_matrix[d] :
       /\ d \in DealerIds /\ i \in 0 .. N - 1
       /\ sharechunk_matrix[d][i] = Blocks(sharing[d], d)[i + 1]

\* The kept chunks are all that were handled.
HandledAreKept ==
  \A h \in handled : h[1] \in 0 .. N - 1 /\ h[2] \in DOMAIN sharechunk_matrix[h[1]]

\* How long a block of a dealer is.
BlockLength(d) == E!blocksize(Len(Stream(sharing[d])), K)

\* A coding buffer is as long as a block of the chunk's dealer, and filled with as
\* much as a block of dealer 0 has.
BuffersOfBlocks ==
  \A b \in buffers :
    /\ b.origin \in DealerIds /\ 0 \in DealerIds
    /\ b.room = BlockLength(b.origin) /\ b.need = BlockLength(0)

\* The inductive invariant.
WireInv ==
  /\ SharingsListed
  /\ RelaysAreTheDealers
  /\ KeptAreBlocks
  /\ HandledAreKept
  /\ RecoveredBytes
  /\ BuffersOfBlocks

\* Nothing is kept at first, and what is sent was dealt.
LEMMA InitWire == Init => WireInv
<1> SUFFICES ASSUME Init PROVE WireInv
  OBVIOUS
<1>1. PICK len \in [DealerIds -> Lengths] :
        sharing = [d \in DealerIds |-> [p \in 1 .. len[d] |-> [of |-> <<d>>, part |-> p]]]
  BY DEF Init
<1>2. SharingsListed
  <2> SUFFICES ASSUME NEW d \in DealerIds PROVE Listed(sharing[d]) /\ Len(sharing[d]) \in Lengths
    BY DEF SharingsListed
  <2>1. len[d] \in Lengths /\ len[d] \in Nat
    BY ThresholdAssumption
  <2> DEFINE s == sharing[d]
  <2>2. s = [p \in 1 .. len[d] |-> [of |-> <<d>>, part |-> p]]
    BY <1>1
  <2>3. s = [p \in 1 .. len[d] |-> s[p]]
    BY <2>2
  <2> HIDE DEF s
  <2>4. Listed(s) /\ Len(s) = len[d]
    BY <2>1, <2>3, ListedFunction
  <2> QED BY <2>1, <2>4 DEF s
<1>3. KeptAreBlocks
  <2>1. sharechunk_matrix = [d \in 0 .. N - 1 |-> <<>>]
    BY DEF Init
  <2>2. \E f : sharechunk_matrix = [d \in 0 .. N - 1 |-> f[d]]
    <3> DEFINE f == sharechunk_matrix
    <3>1. f = [d \in 0 .. N - 1 |-> f[d]]
      BY <2>1
    <3> QED BY <3>1
  <2>3. ASSUME NEW d \in 0 .. N - 1, NEW i \in DOMAIN sharechunk_matrix[d] PROVE FALSE
    <3>1. sharechunk_matrix[d] = <<>> /\ DOMAIN <<>> = {}
      BY <2>1
    <3> QED BY <3>1
  <2> QED BY <2>2, <2>3 DEF KeptAreBlocks
<1>4. RelaysAreTheDealers
  BY DEF Init, RelaysAreTheDealers
<1>5. HandledAreKept /\ RecoveredBytes /\ BuffersOfBlocks
  BY DEF Init, HandledAreKept, RecoveredBytes, BuffersOfBlocks
<1> QED BY <1>2, <1>3, <1>4, <1>5 DEF WireInv

-----------------------------------------------------------------------------
(* The messages.                                                           *)

\* A message that is there was made by a dealer, reads as it was made, and proves
\* its chunk.
LEMMA SentAreDealt ==
  ASSUME WireInv, NEW s \in sent
  PROVE  \E d \in DealerIds, i \in 0 .. N - 1 :
           /\ Unframed(s) = DealtMessage(sharing[d], d, i)
           /\ s = Framed(Unframed(s))
           /\ Proven(Unframed(s))
<1>1. s \in UNION {deliver_chunk(d) : d \in DealerIds}
  BY DEF WireInv, RelaysAreTheDealers
<1>2. PICK d \in DealerIds : s \in deliver_chunk(d)
  BY <1>1
<1>3. PICK i \in 0 .. N - 1 : s = Framed(DealtMessage(sharing[d], d, i))
  BY <1>2, DealtMessages
<1>4. Listed(sharing[d]) /\ Len(sharing[d]) \in Lengths
  BY DEF WireInv, SharingsListed
<1> DEFINE bytes == sharing[d]
           m == DealtMessage(bytes, d, i)
<1>5. Unframed(Framed(m)) = m /\ Proven(m)
  BY <1>4, DealtMessageReads
<1> QED BY <1>3, <1>5

\* A message that reads as dealer d's chunk i, and proves it.
IsDealt(m, d, i) == m = DealtMessage(sharing[d], d, i) /\ Proven(m)

\* What handling it does to the rows.
RowStored(m, d, i) ==
  /\ m.replicaID = d /\ m.idx = i /\ m.round = 0
  /\ m.chunk = Blocks(sharing[d], d)[i + 1]
  /\ d \in 0 .. N - 1
  /\ DOMAIN Kept(m) = DOMAIN sharechunk_matrix[d] \cup {i}
  /\ \A q \in DOMAIN Kept(m) :
       q \in 0 .. N - 1 /\ Kept(m)[q] = Blocks(sharing[d], d)[q + 1]

\* A row is still one of the dealer's blocks when the chunk at hand is in it.
LEMMA StoreRows ==
  ASSUME WireInv, NEW d \in DealerIds, NEW i \in 0 .. N - 1, NEW m, IsDealt(m, d, i)
  PROVE  RowStored(m, d, i)
<1>0. m = DealtMessage(sharing[d], d, i) /\ Proven(m)
  BY DEF IsDealt
<1>1. m.replicaID = d /\ m.idx = i /\ m.round = 0 /\ m.chunk = Blocks(sharing[d], d)[i + 1]
  BY <1>0 DEF DealtMessage
<1>2. d \in 0 .. N - 1
  BY ThresholdAssumption
<1> DEFINE row == sharechunk_matrix[d]
<1>3. \A q \in DOMAIN row : q \in 0 .. N - 1 /\ row[q] = Blocks(sharing[d], d)[q + 1]
  BY <1>2 DEF WireInv, KeptAreBlocks
<1>4. Kept(m) = IF i \notin DOMAIN row THEN Put(row, i, m.chunk) ELSE row
  BY <1>0, <1>1 DEF Kept
<1> HIDE DEF row
<1>5. CASE i \in DOMAIN row
  <2>1. Kept(m) = row
    BY <1>4, <1>5
  <2> QED BY <1>1, <1>2, <1>3, <1>5, <2>1 DEF row, RowStored
<1>6. CASE i \notin DOMAIN row
  <2> DEFINE new == Put(row, i, m.chunk)
  <2>1. DOMAIN new = DOMAIN row \cup {i} /\ new[i] = m.chunk
        /\ \A q \in DOMAIN row : new[q] = row[q]
    BY <1>6 DEF Put
  <2>2. Kept(m) = new
    BY <1>4, <1>6
  <2> HIDE DEF new
  <2>3. \A q \in DOMAIN new : q \in 0 .. N - 1 /\ new[q] = Blocks(sharing[d], d)[q + 1]
    <3> SUFFICES ASSUME NEW q \in DOMAIN new
                 PROVE  q \in 0 .. N - 1 /\ new[q] = Blocks(sharing[d], d)[q + 1]
      OBVIOUS
    <3>1. CASE q = i
      BY <1>1, <2>1, <3>1
    <3>2. CASE q \in DOMAIN row
      BY <1>3, <2>1, <3>2
    <3> QED BY <2>1, <3>1, <3>2
  <2> QED BY <1>1, <1>2, <2>1, <2>2, <2>3 DEF row, RowStored
<1> QED BY <1>5, <1>6

\* Storing a chunk leaves all that was said of the rows, and of what is sent, true.
LEMMA StoreInv ==
  ASSUME WireInv, NEW s \in sent, Store(Unframed(s))
  PROVE  (SharingsListed /\ RelaysAreTheDealers /\ KeptAreBlocks /\ HandledAreKept)'
<1> DEFINE m == Unframed(s)
<1>1. PICK d \in DealerIds, i \in 0 .. N - 1 : IsDealt(m, d, i) /\ s = Framed(m)
  BY SentAreDealt DEF IsDealt
<1>2. Store(m)
  OBVIOUS
<1> HIDE DEF m
<1>3. /\ m.replicaID = d /\ m.idx = i
      /\ d \in 0 .. N - 1
      /\ DOMAIN Kept(m) = DOMAIN sharechunk_matrix[d] \cup {i}
      /\ \A q \in DOMAIN Kept(m) :
           q \in 0 .. N - 1 /\ Kept(m)[q] = Blocks(sharing[d], d)[q + 1]
  <2>1. RowStored(m, d, i)
    BY <1>1, StoreRows
  <2> QED BY <2>1 DEF RowStored
<1>4. sharing' = sharing
  BY <1>2 DEF Store
<1>5. SharingsListed'
  BY <1>4 DEF WireInv, SharingsListed
<1>6. RelaysAreTheDealers'
  <2>1. sent' = sent \/ sent' = sent \cup {Framed(m)}
    BY <1>2 DEF Store
  <2>2. sent' = sent
    BY <1>1, <2>1
  <2>3. \A e \in DealerIds : deliver_chunk(e)' = deliver_chunk(e)
    BY <1>4 DEF deliver_chunk
  <2> QED BY <2>2, <2>3 DEF WireInv, RelaysAreTheDealers
<1>7. PICK f : sharechunk_matrix = [e \in 0 .. N - 1 |-> f[e]]
  BY DEF WireInv, KeptAreBlocks
<1>8. sharechunk_matrix' = [sharechunk_matrix EXCEPT ![d] = Kept(m)]
  BY <1>2, <1>3 DEF Store
<1>9. /\ sharechunk_matrix'[d] = Kept(m)
      /\ \A e \in 0 .. N - 1 : e # d => sharechunk_matrix'[e] = sharechunk_matrix[e]
  BY <1>3, <1>7, <1>8
<1>10. KeptAreBlocks'
  <2>1. \E g : sharechunk_matrix' = [e \in 0 .. N - 1 |-> g[e]]
    <3> DEFINE g == sharechunk_matrix'
    <3>1. g = [e \in 0 .. N - 1 |-> g[e]]
      BY <1>7, <1>8
    <3> QED BY <3>1
  <2>2. ASSUME NEW e \in 0 .. N - 1, NEW q \in DOMAIN sharechunk_matrix'[e]
        PROVE  /\ e \in DealerIds /\ q \in 0 .. N - 1
               /\ sharechunk_matrix'[e][q] = Blocks(sharing[e], e)[q + 1]
    <3>1. CASE e = d
      BY <1>3, <1>9, <3>1
    <3>2. CASE e # d
      BY <1>9, <3>2 DEF WireInv, KeptAreBlocks
    <3> QED BY <3>1, <3>2
  <2>3. ASSUME NEW e, NEW b PROVE Blocks(sharing[e], e)' = Blocks(sharing[e], e)
    BY <1>4
  <2>4. \A e \in 0 .. N - 1 : \A q \in DOMAIN sharechunk_matrix'[e] :
          /\ e \in DealerIds /\ q \in 0 .. N - 1
          /\ sharechunk_matrix'[e][q] = Blocks(sharing'[e], e)[q + 1]
    BY <1>4, <2>2
  <2> QED BY <2>1, <2>4 DEF KeptAreBlocks
<1>11. HandledAreKept'
  <2>1. handled' = handled \cup {<<d, i>>}
    BY <1>2, <1>3 DEF Store
  <2>2. ASSUME NEW h \in handled'
        PROVE  h[1] \in 0 .. N - 1 /\ h[2] \in DOMAIN sharechunk_matrix'[h[1]]
    <3>1. CASE h = <<d, i>>
      BY <1>3, <1>9, <3>1
    <3>2. CASE h \in handled
      <4>1. h[1] \in 0 .. N - 1 /\ h[2] \in DOMAIN sharechunk_matrix[h[1]]
        BY <3>2 DEF WireInv, HandledAreKept
      <4> QED BY <1>3, <1>9, <4>1
    <3> QED BY <2>1, <3>1, <3>2
  <2> QED BY <2>2 DEF HandledAreKept
<1> QED BY <1>5, <1>6, <1>10, <1>11

\* A row that is decoded holds the blocks of dealer 0.
IsDecoded(m) ==
  /\ 0 \in DealerIds
  /\ Need(m) = BlockLength(0)
  /\ Extra(Decoded(DecodeRow(m))) = sharing[0]

\* It is dealer 0's whoever dealt the chunk that caused the decoding: the row of the
\* round is decoded, and that of the dealer only if they are the same.
LEMMA DecodedRow ==
  ASSUME WireInv, NEW d \in DealerIds, NEW i \in 0 .. N - 1,
         NEW m, IsDealt(m, d, i), 0 .. K - 1 \subseteq DOMAIN DecodeRow(m)
  PROVE  IsDecoded(m)
<1> DEFINE row == DecodeRow(m)
<1>1. /\ m.replicaID = d /\ m.idx = i /\ m.round = 0 /\ d \in 0 .. N - 1
      /\ \A q \in DOMAIN Kept(m) :
           q \in 0 .. N - 1 /\ Kept(m)[q] = Blocks(sharing[d], d)[q + 1]
  <2>1. RowStored(m, d, i)
    BY StoreRows
  <2> QED BY <2>1 DEF RowStored
<1>2. K \in Nat \ {0} /\ N \in Nat \ {0} /\ K <= N /\ Limit \in Nat
  BY NumbersFit
<1>3. \A q \in DOMAIN row : 0 \in DealerIds /\ row[q] = Blocks(sharing[0], 0)[q + 1]
  <2>1. CASE d = 0
    <3>1. row = Kept(m)
      BY <1>1, <2>1 DEF DecodeRow
    <3> QED BY <1>1, <2>1, <3>1
  <2>2. CASE d # 0
    <3>1. row = sharechunk_matrix[0]
      BY <1>1, <2>2 DEF DecodeRow
    <3>2. 0 \in 0 .. N - 1
      BY <1>2
    <3> QED BY <3>1, <3>2 DEF WireInv, KeptAreBlocks
  <2> QED BY <2>1, <2>2
<1>4. 0 .. K - 1 \subseteq DOMAIN row
  OBVIOUS
<1> HIDE DEF row
<1> DEFINE bytes == sharing[0]
           s == Stream(bytes)
<1>5. 0 \in DealerIds
  BY <1>2, <1>3, <1>4
<1>6. Listed(bytes) /\ Len(bytes) \in Lengths /\ Len(bytes) \in Nat /\ Len(bytes) < Limit
  <2>1. Listed(bytes) /\ Len(bytes) \in Lengths
    BY <1>5 DEF WireInv, SharingsListed
  <2>2. Len(bytes) \in Nat /\ IntSize \in Nat
    BY <2>1, ListedDomain, WidthAssumption
  <2> DEFINE n == IntSize + Len(bytes)
             z == E!newsize(n, K)
  <2>3. n \in Nat /\ n = IntSize + Len(bytes)
    BY <2>2
  <2>4. z < Limit
    BY <2>1, LimitAssumption
  <2> HIDE DEF n
  <2>5. n <= z /\ z \in Nat
    BY <2>3, BlockSizes
  <2> HIDE DEF z
  <2>6. Len(bytes) < Limit
    BY <1>2, <2>2, <2>3, <2>4, <2>5
  <2> QED BY <2>1, <2>2, <2>6
<1>7. Listed(s)
  BY <1>6, NumberListed, Joining DEF Stream
<1>8. \A b \in 1 .. K : row[b - 1] = E!encode(s, K)[b] /\ row[b - 1].size = Len(s)
  <2> SUFFICES ASSUME NEW b \in 1 .. K
               PROVE  row[b - 1] = E!encode(s, K)[b] /\ row[b - 1].size = Len(s)
    OBVIOUS
  <2>1. b \in 1 .. N /\ b <= K /\ b - 1 \in 0 .. K - 1 /\ (b - 1) + 1 = b
    BY <1>2
  <2>2. row[b - 1] = Blocks(bytes, 0)[b]
    BY <1>3, <1>4, <2>1
  <2>3. Blocks(bytes, 0)[b].size = Len(s) /\ Blocks(bytes, 0)[b] = E!encode(s, K)[b]
    BY <1>6, <2>1, BlockOf
  <2> QED BY <2>2, <2>3
<1>9. Decoded(row) = s
  BY <1>7, <1>8, DecodedStream
<1>10. Extra(s) = bytes
  BY <1>6, ExtraBytes DEF Stream
<1>11. Need(m) = BlockLength(0)
  <2>1. 1 \in 1 .. K /\ 1 - 1 = 0
    BY <1>2
  <2>2. row[0].size = Len(s)
    BY <1>8, <2>1
  <2> QED BY <2>2, DecodeSizes DEF Need, BlockLength, row
<1> QED BY <1>5, <1>9, <1>10, <1>11 DEF row, IsDecoded

\* A step stores a chunk of one dealer and, at the threshold, decodes.
LEMMA NextWire == WireInv /\ [on_receive_shareChunk]_vars => WireInv'
<1> SUFFICES ASSUME WireInv, [on_receive_shareChunk]_vars PROVE WireInv'
  OBVIOUS
<1>1. CASE UNCHANGED vars
  <2>1. SharingsListed' /\ HandledAreKept' /\ RecoveredBytes' /\ KeptAreBlocks'
    BY <1>1 DEF vars, WireInv, SharingsListed, HandledAreKept, RecoveredBytes, KeptAreBlocks
  <2>2. RelaysAreTheDealers'
    <3>1. \A e \in DealerIds : deliver_chunk(e)' = deliver_chunk(e)
      BY <1>1 DEF vars, deliver_chunk
    <3> QED BY <1>1, <3>1 DEF vars, WireInv, RelaysAreTheDealers
  <2>3. BuffersOfBlocks'
    BY <1>1 DEF vars, WireInv, BuffersOfBlocks, BlockLength
  <2> QED BY <2>1, <2>2, <2>3 DEF WireInv
<1>2. CASE on_receive_shareChunk
  <2>1. PICK s \in sent :
          OnlyStore(Unframed(s)) \/ DecodeNull(Unframed(s)) \/ Decode(Unframed(s))
    BY <1>2 DEF on_receive_shareChunk
  <2> DEFINE m == Unframed(s)
  <2>2. PICK d \in DealerIds, i \in 0 .. N - 1 : IsDealt(m, d, i)
    BY SentAreDealt DEF IsDealt
  <2>3. Store(m)
    BY <2>1 DEF OnlyStore, DecodeNull, Decode
  <2>4. (SharingsListed /\ RelaysAreTheDealers /\ KeptAreBlocks /\ HandledAreKept)'
    BY <2>3, StoreInv
  <2>5. sharing' = sharing
    BY <2>3 DEF Store
  <2> HIDE DEF m
  <2>6. m.replicaID = d /\ m.chunk = Blocks(sharing[d], d)[i + 1]
    <3>1. RowStored(m, d, i)
      BY <2>2, StoreRows
    <3> QED BY <3>1 DEF RowStored
  <2>7. CASE OnlyStore(m) \/ DecodeNull(m)
    <3>1. sharing_map' = sharing_map /\ buffers' = buffers
      BY <2>7 DEF OnlyStore, DecodeNull
    <3>2. RecoveredBytes' /\ BuffersOfBlocks'
      BY <2>5, <3>1 DEF WireInv, RecoveredBytes, BuffersOfBlocks, BlockLength
    <3> QED BY <2>4, <3>2 DEF WireInv
  <2>8. CASE Decode(m)
    <3>1. 0 \in DealerIds /\ Need(m) = BlockLength(0)
          /\ Extra(Decoded(DecodeRow(m))) = sharing[0]
      <4>1. 0 .. K - 1 \subseteq DOMAIN DecodeRow(m)
        BY <2>8 DEF Decode
      <4>2. IsDecoded(m)
        BY <2>2, <4>1, DecodedRow
      <4> QED BY <4>2 DEF IsDecoded
    <3>2. Room(m) = BlockLength(d)
      <4> DEFINE bytes == sharing[d]
                 c == Blocks(bytes, d)[i + 1]
      <4>1. Listed(bytes)
        BY DEF WireInv, SharingsListed
      <4>2. i + 1 \in 1 .. N
        BY NumbersFit
      <4>3. Len(c.data) = E!blocksize(Len(Stream(bytes)), K)
        BY <4>1, <4>2, BlockOf
      <4> QED BY <2>6, <4>3 DEF Room, BlockLength
    <3>3. RecoveredBytes'
      <4>1. \/ sharing_map' = sharing_map
            \/ sharing_map' = Put(sharing_map, d, sharing[0])
        BY <2>6, <2>8, <3>1 DEF Decode
      <4>2. \A e \in DOMAIN sharing_map : sharing_map[e] = sharing[0]
        BY DEF WireInv, RecoveredBytes
      <4>3. \A e \in DOMAIN sharing_map' : sharing_map'[e] = sharing[0]
        BY <4>1, <4>2 DEF Put
      <4> QED BY <2>5, <4>3 DEF RecoveredBytes
    <3>4. BuffersOfBlocks'
      <4>1. buffers' = buffers \cup
                         {[origin |-> d, room |-> BlockLength(d), need |-> BlockLength(0)]}
        BY <2>6, <2>8, <3>1, <3>2 DEF Decode
      <4>2. \A e : BlockLength(e)' = BlockLength(e)
        BY <2>5 DEF BlockLength
      <4>3. ASSUME NEW b \in buffers'
            PROVE  /\ b.origin \in DealerIds /\ 0 \in DealerIds
                   /\ b.room = BlockLength(b.origin) /\ b.need = BlockLength(0)
        <5>1. CASE b \in buffers
          BY <5>1 DEF WireInv, BuffersOfBlocks
        <5>2. CASE b = [origin |-> d, room |-> BlockLength(d), need |-> BlockLength(0)]
          BY <3>1, <5>2
        <5> QED BY <4>1, <5>1, <5>2
      <4> QED BY <2>5, <4>3 DEF BuffersOfBlocks, BlockLength
    <3> QED BY <2>4, <3>3, <3>4 DEF WireInv
  <2>9. OnlyStore(m) \/ DecodeNull(m) \/ Decode(m)
    BY <2>1 DEF m
  <2> QED BY <2>7, <2>8, <2>9
<1> QED BY <1>1, <1>2

\* The invariant holds in every state.
LEMMA Inductive == Spec => []WireInv
BY InitWire, NextWire, PTL DEF Spec

-----------------------------------------------------------------------------
\* What the invariant says of the buffers.
LEMMA BuffersFit == WireInv => BuffersFitTheirEncoding
<1> SUFFICES ASSUME WireInv, NEW b \in buffers
             PROVE  /\ b.origin = 0 => b.room = b.need
                    /\ b.room < b.need => Len(sharing[b.origin]) < Len(sharing[0])
  BY DEF BuffersFitTheirEncoding
<1> DEFINE o == b.origin
<1>1. o \in DealerIds /\ 0 \in DealerIds /\ b.room = BlockLength(o) /\ b.need = BlockLength(0)
  BY DEF WireInv, BuffersOfBlocks
<1> HIDE DEF o
<1>2. ASSUME NEW d \in DealerIds
      PROVE  Len(sharing[d]) \in Nat /\ Len(Stream(sharing[d])) = IntSize + Len(sharing[d])
  <2> DEFINE s == sharing[d]
  <2>1. Listed(s)
    BY DEF WireInv, SharingsListed
  <2> HIDE DEF s
  <2>2. Len(s) \in Nat
    BY <2>1, ListedDomain
  <2>3. Listed(LittleEndian(Len(s))) /\ Len(LittleEndian(Len(s))) = IntSize
    BY <2>2, NumberListed
  <2>4. Len(Stream(s)) = IntSize + Len(s)
    BY <2>1, <2>3, Joining DEF Stream
  <2> QED BY <2>2, <2>4 DEF s
<1>3. ASSUME BlockLength(o) < BlockLength(0) PROVE Len(sharing[o]) < Len(sharing[0])
  <2> DEFINE m == Len(sharing[0])
             n == Len(sharing[o])
  <2>1. m \in Nat /\ n \in Nat /\ IntSize \in Nat
        /\ Len(Stream(sharing[0])) = IntSize + m /\ Len(Stream(sharing[o])) = IntSize + n
    BY <1>1, <1>2, WidthAssumption
  <2> HIDE DEF m, n
  <2>2. E!blocksize(IntSize + n, K) < E!blocksize(IntSize + m, K)
    BY <1>3, <2>1 DEF BlockLength
  <2>3. E!blocksize(IntSize + n, K) \in Nat /\ E!blocksize(IntSize + m, K) \in Nat
    BY <2>1, BlockSizes
  <2>4. SUFFICES ASSUME m <= n PROVE FALSE
    BY <2>1 DEF m, n
  <2>5. IntSize + m \in Nat /\ IntSize + n \in Nat /\ IntSize + m <= IntSize + n
    BY <2>1, <2>4
  <2>6. E!blocksize(IntSize + m, K) <= E!blocksize(IntSize + n, K)
    BY <2>5, BlockSizeMonotonic
  <2> QED BY <2>2, <2>3, <2>6
<1> QED BY <1>1, <1>3 DEF o

-----------------------------------------------------------------------------
\* DrgCore.cpp:164, on_receive_shareChunk: every chunk that a dealer makes is accepted by
\* whoever receives it, in whatever order, since its proof holds.
THEOREM DealtAreProven == Spec => []DealtChunksAreProven
<1>1. WireInv => DealtChunksAreProven
  BY DEF WireInv, HandledAreKept, DealtChunksAreProven
<1> QED BY <1>1, Inductive, PTL

\* DrgCore.cpp:164: what is read and framed again for the relay is the dealer's message.
THEOREM RelaysKept == Spec => []RelaysAreTheDealers
<1>1. WireInv => RelaysAreTheDealers
  BY DEF WireInv
<1> QED BY <1>1, Inductive, PTL

\* Erasure::decode, Extra: a sharing is parsed from exactly the bytes that dealer 0
\* serialized, whichever dealer's chunk completed the threshold.
THEOREM BytesRecovered == Spec => []RecoveredBytes
<1>1. WireInv => RecoveredBytes
  BY DEF WireInv
<1> QED BY <1>1, Inductive, PTL

\* Erasure::decode: the coding buffers, as long as the chunk at hand, fit the encoding
\* that is decoded, unless that chunk is of a dealer with a shorter sharing.
THEOREM BuffersFitted == Spec => []BuffersFitTheirEncoding
BY BuffersFit, Inductive, PTL
=============================================================================
