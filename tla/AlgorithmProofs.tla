---------------------------- MODULE AlgorithmProofs ----------------------------
(***************************************************************************)
(* Proofs about the lottery, the hash of a challenge and the text of the   *)
(* PVSS objects, for every size of a byte, of an output and of a block,    *)
(* every split into calls, and vectors of every length.                    *)
(*                                                                         *)
(* The hash: division with remainder is unique, so digits with carries are *)
(* the quotients of the number they count, and shifted by three places its *)
(* bytes; a sequence is known by its elements, so blocks cut as the bytes  *)
(* come are those of all the bytes; and the invariant says that what was   *)
(* compressed and what waits are the message, and that it is counted.      *)
(*                                                                         *)
(* The text: the scripts of the eleven classes agree step by step, so that *)
(* by TextClassProofs objects of a class read back when those of the       *)
(* classes inside them do; from fields up this is shown of four levels.    *)
(* The invariant says that the stream is the text of what is pending.      *)
(***************************************************************************)
EXTENDS Lottery, Picosha, TextStreams, SequenceTheorems, TLAPS

(***************************************************************************)
(* The lottery.                                                            *)
(***************************************************************************)
\* Inductive for the lottery: while the comparison is open, no byte before i is greater.
LotteryInv ==
  /\ TypeOK
  /\ DealsEndInZeros
  /\ outcome = "open" => i <= len /\ \A k \in 1 .. i - 1 : hash[k] <= difficulty[k]

\* A new output leaves nothing to show.
LEMMA DrawInv == ASSUME vrf_hash PROVE LotteryInv'
  BY LenAssumption DEF vrf_hash, LotteryInv, TypeOK, DealsEndInZeros

\* One round keeps the invariant, for any base and length.
LEMMA CompareInv == ASSUME LotteryInv, Compare PROVE LotteryInv'
<1> USE LenAssumption, VrfByteAssumption
<1>1. hash \in Outputs /\ i \in 1 .. len /\ hash' = hash /\ i' = i + 1 /\ outcome = "open"
  BY DEF LotteryInv, TypeOK, Compare
<1>2. /\ \A k \in 1 .. len : hash[k] \in 0 .. VrfByte - 1
      /\ VrfByte \div 2 \in Nat
      /\ \A k \in 1 .. len : difficulty[k] = IF k = 1 THEN VrfByte \div 2 ELSE 0
  BY <1>1 DEF Outputs, difficulty
<1>3. CASE hash[i] > difficulty[i]
  <2>1. outcome' = "none"
    BY <1>3 DEF Compare
  <2>2. ~ (hash[1] <= VrfByte \div 2 /\ \A k \in 2 .. len : hash[k] = 0)
    BY <1>1, <1>2, <1>3
  <2> QED BY <1>1, <2>1, <2>2 DEF LotteryInv, TypeOK, DealsEndInZeros
<1>4. CASE ~ hash[i] > difficulty[i] /\ i = len
  <2>1. outcome' = "deal"
    BY <1>4 DEF Compare
  <2>2. \A k \in 1 .. len : hash[k] <= difficulty[k]
    BY <1>1, <1>2, <1>4 DEF LotteryInv
  <2>3. hash[1] <= VrfByte \div 2 /\ \A k \in 2 .. len : hash[k] = 0
    BY <1>2, <2>2
  <2> QED BY <1>1, <2>1, <2>3 DEF LotteryInv, TypeOK, DealsEndInZeros
<1>5. CASE ~ hash[i] > difficulty[i] /\ i # len
  <2>1. outcome' = "open"
    BY <1>5 DEF Compare
  <2>2. (\A k \in 1 .. i - 1 : hash[k] <= difficulty[k])'
    BY <1>1, <1>2, <1>5 DEF LotteryInv
  <2>3. i' <= len /\ i' \in 1 .. len + 1
    BY <1>1, <1>5
  <2> QED BY <1>1, <2>1, <2>2, <2>3 DEF LotteryInv, TypeOK, DealsEndInZeros
<1> QED BY <1>3, <1>4, <1>5

\* For every base and every length of an output, an output that deals is zero
\* behind its first byte (DrgCore.hpp:126, unsigned_char_compare).
THEOREM DealsTakeZeros == LotterySpec => [](TypeOK /\ DealsEndInZeros)
<1>1. Init => LotteryInv
  BY LenAssumption DEF Init, LotteryInv, TypeOK, DealsEndInZeros
<1>2. LotteryInv /\ [LotteryNext]_lotteryVars => LotteryInv'
  <2> SUFFICES ASSUME LotteryInv, [LotteryNext]_lotteryVars PROVE LotteryInv'
    OBVIOUS
  <2>1. CASE Compare
    BY <2>1, CompareInv
  <2>2. CASE on_receive_start
    BY <2>2, DrawInv DEF on_receive_start
  <2>3. CASE UNCHANGED lotteryVars
    BY <2>3 DEF lotteryVars, LotteryInv, TypeOK, DealsEndInZeros
  <2> QED BY <2>1, <2>2, <2>3 DEF LotteryNext
<1>3. LotteryInv => TypeOK /\ DealsEndInZeros
  BY DEF LotteryInv
<1> QED BY <1>1, <1>2, <1>3, PTL DEF LotterySpec

(***************************************************************************)
(* Division with remainder, and digits.                                    *)
(***************************************************************************)
\* A number has a quotient and a remainder.
LEMMA Division ==
  ASSUME NEW a \in Nat, NEW d \in Nat \ {0}
  PROVE  /\ a \div d \in Nat
         /\ a % d \in 0 .. d - 1
         /\ a = d * (a \div d) + (a % d)
OBVIOUS

\* They are the only ones.
LEMMA DivisionUnique ==
  ASSUME NEW d \in Nat \ {0}, NEW q \in Nat, NEW r \in 0 .. d - 1
  PROVE  (d * q + r) \div d = q /\ (d * q + r) % d = r
<1> DEFINE a == d * q + r
           q2 == a \div d
           r2 == a % d
<1>1. a \in Nat
  OBVIOUS
<1>2. q2 \in Nat /\ r2 \in 0 .. d - 1 /\ a = d * q2 + r2
  <2> HIDE DEF a
  <2> QED BY <1>1, Division
<1>3. d * (q - q2) = r2 - r
  <2> HIDE DEF q2, r2
  <2> QED BY <1>2
<1> HIDE DEF a, q2, r2
<1>4. q - q2 < 1
  <2> SUFFICES ASSUME q - q2 >= 1 PROVE FALSE
    BY <1>2
  <2>1. d * (q - q2) >= d
    BY <1>2
  <2>2. QED
    BY <1>2, <1>3, <2>1
<1>5. q - q2 > -1
  <2> SUFFICES ASSUME q2 - q >= 1 PROVE FALSE
    BY <1>2
  <2>1. d * (q2 - q) >= d
    BY <1>2
  <2>2. d * (q2 - q) = r - r2
    BY <1>2, <1>3
  <2>3. QED
    BY <1>2, <2>1, <2>2
<1>6. q = q2
  BY <1>2, <1>4, <1>5
<1>7. QED
  BY <1>2, <1>3, <1>6 DEF a, q2, r2

\* Dividing twice is dividing by the product, and the remainder by the product
\* holds both remainders.
LEMMA DivisionTwice ==
  ASSUME NEW a \in Nat, NEW d \in Nat \ {0}
  PROVE  /\ (a \div d) \div d = a \div (d * d)
         /\ (a % (d * d)) % d = a % d
         /\ (a % (d * d)) \div d = (a \div d) % d
<1> DEFINE q == a \div d
           r == a % d
           u == q \div d
           v == q % d
<1>1. q \in Nat /\ r \in 0 .. d - 1 /\ a = d * q + r
  BY Division
<1>2. u \in Nat /\ v \in 0 .. d - 1 /\ q = d * u + v
  <2> HIDE DEF q
  <2> QED BY <1>1, Division
<1> HIDE DEF q, r, u, v
<1>3. d * d \in Nat \ {0} /\ d * v + r \in 0 .. (d * d) - 1
  <2>1. d * d \in Nat \ {0}
    OBVIOUS
  <2>2. d * v <= d * (d - 1)
    BY <1>2
  <2>3. d * (d - 1) = d * d - d
    OBVIOUS
  <2>4. d * v \in Nat
    BY <1>2
  <2>5. QED
    BY <1>1, <2>1, <2>2, <2>3, <2>4
<1>4. a = (d * d) * u + (d * v + r)
  <2>1. d * q = d * (d * u) + d * v
    BY <1>2
  <2>2. d * (d * u) = (d * d) * u
    BY <1>2
  <2>3. d * v \in Nat /\ (d * d) * u \in Nat
    BY <1>2
  <2>4. QED
    BY <1>1, <2>1, <2>2, <2>3
<1>5. a \div (d * d) = u /\ a % (d * d) = d * v + r
  <2> DEFINE dd == d * d
             w == d * v + r
  <2>1. dd \in Nat \ {0} /\ w \in 0 .. dd - 1 /\ a = dd * u + w
    BY <1>3, <1>4
  <2> HIDE DEF dd, w
  <2>2. a \div dd = u /\ a % dd = w
    BY <1>2, <2>1, DivisionUnique
  <2>3. QED
    BY <2>2 DEF dd, w
<1>6. (d * v + r) \div d = v /\ (d * v + r) % d = r
  BY <1>1, <1>2, DivisionUnique
<1>7. QED
  BY <1>5, <1>6 DEF q, r, u, v

\* q holds the quotients of n by d, d * d, ...; each is that of the one before.
Quotients(q, n, d, m) ==
  /\ q \in [1 .. m -> Nat]
  /\ q[1] = n
  /\ \A k \in 1 .. m - 1 : q[k + 1] = q[k] \div d

\* The digits are those of n.
DigitsOf(digits, n) ==
  /\ digits \in [1 .. 4 -> Nat]
  /\ \E q : Quotients(q, n, Digit, 5) /\ \A k \in 1 .. 4 : digits[k] = q[k] % Digit

\* A two-byte digit holds a multiple of 8.
LEMMA DigitSize ==
  /\ Digit \in Nat \ {0} /\ Byte \in Nat \ {0}
  /\ Digit \div 8 \in Nat \ {0} /\ Digit = 8 * (Digit \div 8)
<1>1. Byte \in Nat \ {0} /\ Digit \in Nat \ {0}
  BY ShaAssumption DEF Digit
<1>2. Digit % 8 = 0
  BY ShaAssumption DEF Digit
<1>3. QED
  BY <1>1, <1>2

\* The carries of add_to_data_length.
LEMMA Carries ==
  ASSUME NEW digits \in [1 .. 4 -> Nat], NEW n \in Nat
  PROVE  \E c \in [1 .. 5 -> Nat] :
           /\ c[1] = n
           /\ \A k \in 1 .. 4 : c[k + 1] = (digits[k] + c[k]) \div Digit
           /\ add_to_data_length(digits, n) = [k \in 1 .. 4 |-> (digits[k] + c[k]) % Digit]
<1> DEFINE c2 == (digits[1] + n) \div Digit
           c3 == (digits[2] + c2) \div Digit
           c4 == (digits[3] + c3) \div Digit
           c5 == (digits[4] + c4) \div Digit
           w == [k \in 1 .. 5 |-> IF k = 1 THEN n ELSE IF k = 2 THEN c2 ELSE
                                  IF k = 3 THEN c3 ELSE IF k = 4 THEN c4 ELSE c5]
<1>1. w = [k \in 1 .. 5 |-> IF k = 1 THEN n ELSE (digits[k - 1] + w[k - 1]) \div Digit]
  <2>1. ASSUME NEW k \in 1 .. 5
        PROVE  w[k] = IF k = 1 THEN n ELSE (digits[k - 1] + w[k - 1]) \div Digit
    <3>1. k = 1 \/ k = 2 \/ k = 3 \/ k = 4 \/ k = 5
      OBVIOUS
    <3>2. w[1] = n /\ w[2] = c2 /\ w[3] = c3 /\ w[4] = c4 /\ w[5] = c5
      OBVIOUS
    <3> HIDE DEF w
    <3>3. QED
      BY <3>1, <3>2
  <2>2. w = [k \in 1 .. 5 |-> w[k]]
    OBVIOUS
  <2> HIDE DEF w
  <2>3. QED
    BY <2>1, <2>2
<1>2. PICK c : /\ c = [k \in 1 .. 5 |-> IF k = 1 THEN n ELSE (digits[k - 1] + c[k - 1]) \div Digit]
               /\ add_to_data_length(digits, n) = [k \in 1 .. 4 |-> (digits[k] + c[k]) % Digit]
  <2> HIDE DEF w
  <2> QED BY <1>1 DEF add_to_data_length
<1>3. c[1] = n /\ \A k \in 1 .. 4 : c[k + 1] = (digits[k] + c[k]) \div Digit
  <2>1. c[1] = n
    BY <1>2
  <2>2. ASSUME NEW k \in 1 .. 4 PROVE c[k + 1] = (digits[k] + c[k]) \div Digit
    <3>1. k + 1 \in 1 .. 5 /\ k + 1 # 1 /\ (k + 1) - 1 = k
      OBVIOUS
    <3>2. c[k + 1] = IF k + 1 = 1 THEN n
                     ELSE (digits[(k + 1) - 1] + c[(k + 1) - 1]) \div Digit
      BY <1>2, <3>1
    <3>3. QED
      BY <3>1, <3>2
  <2>3. QED
    BY <2>1, <2>2
<1>4. c \in [1 .. 5 -> Nat]
  <2>1. \A k \in 1 .. 4 : c[k] \in Nat => c[k + 1] \in Nat
    <3>1. ASSUME NEW k \in 1 .. 4, c[k] \in Nat PROVE c[k + 1] \in Nat
      <4>1. digits[k] + c[k] \in Nat
        BY <3>1
      <4>2. QED
        BY <1>3, <4>1, Division, DigitSize
    <3>2. QED
      BY <3>1
  <2>2. c[1] \in Nat
    BY <1>3
  <2>3. c[2] \in Nat
    BY <2>1, <2>2
  <2>4. c[3] \in Nat
    BY <2>1, <2>3
  <2>5. c[4] \in Nat
    BY <2>1, <2>4
  <2>6. c[5] \in Nat
    BY <2>1, <2>5
  <2>7. \A k \in 1 .. 5 : c[k] \in Nat
    BY <2>2, <2>3, <2>4, <2>5, <2>6
  <2>8. c = [k \in 1 .. 5 |-> c[k]]
    BY <1>2
  <2>9. QED
    BY <2>7, <2>8
<1>5. QED
  BY <1>2, <1>3, <1>4

\* What exceeds a digit is added to the quotient.
LEMMA CarryStep ==
  ASSUME NEW a \in Nat, NEW b \in Nat, NEW d \in Nat \ {0}
  PROVE  /\ (a + b) \div d = (a \div d) + (((a % d) + b) \div d)
         /\ (a + b) % d = ((a % d) + b) % d
<1> DEFINE q == a \div d
           r == a % d
<1>1. q \in Nat /\ r \in Nat /\ a = d * q + r
  <2>1. q \in Nat /\ r \in 0 .. d - 1 /\ a = d * q + r
    BY Division
  <2> HIDE DEF q, r
  <2>2. QED
    BY <2>1
<1> HIDE DEF q, r
<1> DEFINE x == r + b
           u == x \div d
           v == x % d
<1>2. x \in Nat
  BY <1>1
<1>3. u \in Nat /\ v \in 0 .. d - 1 /\ x = d * u + v
  <2> HIDE DEF x
  <2> QED BY <1>2, Division
<1>4. a + b = d * q + x
  BY <1>1
<1> HIDE DEF x, u, v
<1>5. d * q + d * u = d * (q + u) /\ d * q \in Nat /\ d * u \in Nat
  BY <1>1, <1>3
<1>6. a + b = d * (q + u) + v
  BY <1>1, <1>2, <1>3, <1>4, <1>5
<1> DEFINE qu == q + u
<1>7. qu \in Nat /\ a + b = d * qu + v
  BY <1>1, <1>3, <1>6
<1> HIDE DEF qu
<1>8. (a + b) \div d = qu /\ (a + b) % d = v
  BY <1>3, <1>7, DivisionUnique
<1>9. QED
  BY <1>8 DEF q, r, x, u, v, qu

\* add_to_data_length adds, modulo what four digits hold.
LEMMA LengthAdded ==
  ASSUME NEW digits, NEW l \in Nat, NEW n \in Nat, DigitsOf(digits, l)
  PROVE  DigitsOf(add_to_data_length(digits, n), l + n)
<1>1. PICK q : Quotients(q, l, Digit, 5) /\ \A k \in 1 .. 4 : digits[k] = q[k] % Digit
  BY DEF DigitsOf
<1>2. digits \in [1 .. 4 -> Nat]
  BY DEF DigitsOf
<1>3. PICK c \in [1 .. 5 -> Nat] :
        /\ c[1] = n
        /\ \A k \in 1 .. 4 : c[k + 1] = (digits[k] + c[k]) \div Digit
        /\ add_to_data_length(digits, n) = [k \in 1 .. 4 |-> (digits[k] + c[k]) % Digit]
  BY <1>2, Carries
<1>4. q \in [1 .. 5 -> Nat] /\ q[1] = l /\ \A k \in 1 .. 4 : q[k + 1] = q[k] \div Digit
  BY <1>1 DEF Quotients
<1> DEFINE s == [k \in 1 .. 5 |-> q[k] + c[k]]
<1>5. ASSUME NEW k \in 1 .. 4
      PROVE  s[k + 1] = s[k] \div Digit /\ (digits[k] + c[k]) % Digit = s[k] % Digit
  <2>1. q[k] \in Nat /\ c[k] \in Nat /\ digits[k] = q[k] % Digit /\ q[k + 1] = q[k] \div Digit
    BY <1>1, <1>3, <1>4
  <2>2. c[k + 1] = (digits[k] + c[k]) \div Digit
    BY <1>3
  <2>3. /\ (q[k] + c[k]) \div Digit = (q[k] \div Digit) + (((q[k] % Digit) + c[k]) \div Digit)
        /\ (q[k] + c[k]) % Digit = ((q[k] % Digit) + c[k]) % Digit
    BY <2>1, DigitSize, CarryStep, ZenonT(60)
  <2>4. s[k] = q[k] + c[k] /\ s[k + 1] = q[k + 1] + c[k + 1]
    BY <1>3, <1>4
  <2> HIDE DEF s
  <2>5. QED
    BY <2>1, <2>2, <2>3, <2>4
<1>6. Quotients(s, l + n, Digit, 5)
  <2>1. s \in [1 .. 5 -> Nat] /\ s[1] = l + n
    BY <1>3, <1>4
  <2> HIDE DEF s
  <2>2. QED
    BY <1>5, <2>1 DEF Quotients
<1> DEFINE sum == add_to_data_length(digits, n)
<1>7. \A k \in 1 .. 4 : sum[k] = s[k] % Digit
  <2>1. \A k \in 1 .. 4 : sum[k] = (digits[k] + c[k]) % Digit
    BY <1>3
  <2> HIDE DEF s, sum
  <2>2. QED
    BY <1>5, <2>1
<1>8. sum \in [1 .. 4 -> Nat]
  <2>1. \A k \in 1 .. 4 : (digits[k] + c[k]) % Digit \in Nat
    <3>1. SUFFICES ASSUME NEW k \in 1 .. 4 PROVE (digits[k] + c[k]) % Digit \in Nat
      OBVIOUS
    <3>2. digits[k] + c[k] \in Nat
      BY <1>2, <1>3
    <3>3. QED
      BY <3>2, DigitSize
  <2>2. QED
    BY <1>3, <2>1
<1> HIDE DEF s, sum
<1>9. DigitsOf(sum, l + n)
  BY <1>6, <1>7, <1>8 DEF DigitsOf
<1>10. QED
  BY <1>9 DEF sum

\* The digits of no bytes.
LEMMA NoLength == DigitsOf(<<0, 0, 0, 0>>, 0)
<1> DEFINE q == [k \in 1 .. 5 |-> 0]
           z == <<0, 0, 0, 0>>
<1>1. 0 \div Digit = 0 /\ 0 % Digit = 0
  BY DigitSize
<1>2. Quotients(q, 0, Digit, 5)
  BY <1>1 DEF Quotients
<1>3. z \in [1 .. 4 -> Nat] /\ \A k \in 1 .. 4 : z[k] = 0 /\ q[k] = 0
  OBVIOUS
<1> HIDE DEF q, z
<1>4. DigitsOf(z, 0)
  BY <1>1, <1>2, <1>3 DEF DigitsOf
<1>5. QED
  BY <1>4 DEF z

(***************************************************************************)
(* The length in bits, as finish writes it.                                *)
(***************************************************************************)
\* Eight times a number, and what was shifted out of the digit below: its
\* digit, and what is left for the digits above.
LEMMA ShiftStep ==
  ASSUME NEW a \in Nat, NEW e \in Nat \ {0}, NEW c \in 0 .. 7
  PROVE  LET d == 8 * e
         IN  /\ (8 * a + c) \div d = 8 * (a \div d) + ((a % d) \div e)
             /\ (8 * a + c) % d = (((a % d) * 8) % d) + c
             /\ (a % d) \div e \in 0 .. 7
<1> DEFINE d == 8 * e
           q == a \div d
           x == a % d
           u == x \div e
           v == x % e
<1>1. d \in Nat \ {0}
  OBVIOUS
<1>2. q \in Nat /\ x \in 0 .. d - 1 /\ a = d * q + x
  <2> HIDE DEF d
  <2> QED BY <1>1, Division
<1>3. x \in Nat
  BY <1>1, <1>2
<1>4. u \in Nat /\ v \in 0 .. e - 1 /\ x = e * u + v
  <2> HIDE DEF x
  <2> QED BY <1>3, Division
<1> HIDE DEF q, x, u, v
<1>5. u \in 0 .. 7
  <2>1. e * u < e * 8
    BY <1>2, <1>4
  <2>2. SUFFICES ASSUME u >= 8 PROVE FALSE
    BY <1>4
  <2>3. e * u >= e * 8
    BY <1>4, <2>2
  <2>4. QED
    BY <1>4, <2>1, <2>3
<1>6. 8 * v \in 0 .. d - 1 /\ 8 * v + c \in 0 .. d - 1
  BY <1>4
<1>7. x * 8 = d * u + 8 * v
  BY <1>4
<1>8. 8 * a + c = d * (8 * q + u) + (8 * v + c)
  <2>1. 8 * a = d * (8 * q) + x * 8
    BY <1>2
  <2>2. d * (8 * q) + d * u = d * (8 * q + u)
    BY <1>2, <1>4
  <2>3. QED
    BY <1>2, <1>4, <1>7, <2>1, <2>2
<1>9. (x * 8) % d = 8 * v
  <2> DEFINE w == 8 * v
  <2>1. w \in 0 .. d - 1 /\ x * 8 = d * u + w
    BY <1>6, <1>7
  <2> HIDE DEF d, w
  <2>2. (d * u + w) % d = w
    BY <1>1, <1>4, <2>1, DivisionUnique
  <2>3. QED
    BY <2>1, <2>2 DEF w
<1>10. (8 * a + c) \div d = 8 * q + u /\ (8 * a + c) % d = 8 * v + c
  <2> DEFINE w == 8 * v + c
             p == 8 * q + u
  <2>1. w \in 0 .. d - 1 /\ p \in Nat /\ 8 * a + c = d * p + w
    BY <1>2, <1>4, <1>6, <1>8
  <2> HIDE DEF d, w, p
  <2>2. (d * p + w) \div d = p /\ (d * p + w) % d = w
    BY <1>1, <2>1, DivisionUnique
  <2>3. QED
    BY <2>1, <2>2 DEF w, p
<1>11. QED
  BY <1>5, <1>9, <1>10 DEF q, x, u

\* The bytes of a number are the remainders of its quotients.
LEMMA BigEndianBytes ==
  ASSUME NEW r, NEW n \in Nat, Quotients(r, n, Byte, 8)
  PROVE  BigEndian(n) = [k \in 1 .. 8 |-> r[9 - k] % Byte]
<1>1. r \in [1 .. 8 -> Nat] /\ r[1] = n /\ \A k \in 1 .. 7 : r[k + 1] = r[k] \div Byte
  BY DEF Quotients
<1> DEFINE w == [k \in 1 .. 8 |-> r[9 - k]]
<1>2. w = [k \in 1 .. 8 |-> IF k = 8 THEN n ELSE w[k + 1] \div Byte]
  <2>1. ASSUME NEW k \in 1 .. 8
        PROVE  w[k] = IF k = 8 THEN n ELSE w[k + 1] \div Byte
    <3>1. w[k] = r[9 - k]
      OBVIOUS
    <3>2. CASE k = 8
      BY <1>1, <3>1, <3>2
    <3>3. CASE k # 8
      <4>1. k + 1 \in 1 .. 8 /\ 9 - (k + 1) = 8 - k /\ 8 - k \in 1 .. 7 /\ (8 - k) + 1 = 9 - k
        BY <3>3
      <4>2. w[k + 1] = r[8 - k]
        BY <4>1
      <4>3. r[9 - k] = r[8 - k] \div Byte
        BY <1>1, <4>1
      <4> HIDE DEF w
      <4>4. QED
        BY <3>1, <3>3, <4>2, <4>3
    <3>4. QED
      BY <3>2, <3>3
  <2>2. w = [k \in 1 .. 8 |-> w[k]]
    OBVIOUS
  <2> HIDE DEF w
  <2>3. QED
    BY <2>1, <2>2
<1>3. PICK rest : /\ rest = [k \in 1 .. 8 |-> IF k = 8 THEN n ELSE rest[k + 1] \div Byte]
                  /\ BigEndian(n) = [k \in 1 .. 8 |-> rest[k] % Byte]
  <2>1. \E f : f = [k \in 1 .. 8 |-> IF k = 8 THEN n ELSE f[k + 1] \div Byte]
    BY <1>2
  <2> HIDE DEF w
  <2>2. QED
    BY <2>1 DEF BigEndian
<1>4. \A k \in 1 .. 8 : rest[k] = r[9 - k]
  <2>1. rest[8] = r[1]
    BY <1>1, <1>3
  <2>2. ASSUME NEW k \in 1 .. 7, rest[k + 1] = r[8 - k] PROVE rest[k] = r[9 - k]
    <3>1. rest[k] = rest[k + 1] \div Byte
      BY <1>3
    <3>2. 8 - k \in 1 .. 7 /\ (8 - k) + 1 = 9 - k
      OBVIOUS
    <3>3. r[9 - k] = r[8 - k] \div Byte
      BY <1>1, <3>2
    <3>4. QED
      BY <2>2, <3>1, <3>3
  <2>3. rest[7] = r[2]
    BY <2>1, <2>2
  <2>4. rest[6] = r[3]
    BY <2>2, <2>3
  <2>5. rest[5] = r[4]
    BY <2>2, <2>4
  <2>6. rest[4] = r[5]
    BY <2>2, <2>5
  <2>7. rest[3] = r[6]
    BY <2>2, <2>6
  <2>8. rest[2] = r[7]
    BY <2>2, <2>7
  <2>9. rest[1] = r[8]
    BY <2>2, <2>8
  <2>10. QED
    BY <2>1, <2>3, <2>4, <2>5, <2>6, <2>7, <2>8, <2>9
<1>5. QED
  BY <1>3, <1>4

\* What an index of a byte of the length says of the digit it is from.
LEMMA ByteOfDigit ==
  ASSUME NEW b \in 1 .. 8
  PROVE  \E k \in 1 .. 4 :
           \/ /\ b = 9 - 2 * k /\ b % 2 = 1 /\ (9 - b) \div 2 = k
           \/ /\ b = 10 - 2 * k /\ b % 2 # 1 /\ (10 - b) \div 2 = k
<1>1. b = 1 \/ b = 2 \/ b = 3 \/ b = 4 \/ b = 5 \/ b = 6 \/ b = 7 \/ b = 8
  OBVIOUS
<1>2. QED
  BY <1>1

\* The quotients by two bytes are each second one of those by one byte.
LEMMA BytesOfDigits ==
  ASSUME NEW s, NEW n \in Nat, Quotients(s, n, Digit, 5)
  PROVE  \E r : /\ Quotients(r, n, Byte, 8)
                /\ \A k \in 1 .. 4 : r[2 * k - 1] = s[k] /\ r[2 * k] = s[k] \div Byte
<1>1. s \in [1 .. 5 -> Nat] /\ s[1] = n /\ \A k \in 1 .. 4 : s[k + 1] = s[k] \div Digit
  BY DEF Quotients
<1> DEFINE r == [j \in 1 .. 8 |-> IF j % 2 = 1 THEN s[(j + 1) \div 2] ELSE s[j \div 2] \div Byte]
<1>2. ASSUME NEW k \in 1 .. 4
      PROVE  r[2 * k - 1] = s[k] /\ r[2 * k] = s[k] \div Byte
  <2>1. k = 1 \/ k = 2 \/ k = 3 \/ k = 4
    OBVIOUS
  <2>2. QED
    BY <2>1
<1>3. \A j \in 1 .. 8 : \E k \in 1 .. 4 : j = 2 * k - 1 \/ j = 2 * k
  OBVIOUS
<1>4. \A k \in 1 .. 4 : s[k] \in Nat /\ s[k] \div Byte \in Nat
  <2>1. SUFFICES ASSUME NEW k \in 1 .. 4 PROVE s[k] \in Nat /\ s[k] \div Byte \in Nat
    OBVIOUS
  <2>2. s[k] \in Nat
    BY <1>1
  <2>3. QED
    BY <2>2, DigitSize, Division
<1>5. r = [j \in 1 .. 8 |-> r[j]]
  OBVIOUS
<1> HIDE DEF r
<1>6. r \in [1 .. 8 -> Nat]
  <2>1. \A j \in 1 .. 8 : r[j] \in Nat
    BY <1>2, <1>3, <1>4
  <2>2. QED
    BY <1>5, <2>1
<1>7. \A j \in 1 .. 7 : r[j + 1] = r[j] \div Byte
  <2>1. ASSUME NEW k \in 1 .. 4 PROVE r[2 * k] = r[2 * k - 1] \div Byte
    BY <1>2
  <2>2. ASSUME NEW k \in 1 .. 3 PROVE r[2 * k + 1] = r[2 * k] \div Byte
    <3>1. k \in 1 .. 4 /\ k + 1 \in 1 .. 4 /\ 2 * (k + 1) - 1 = 2 * k + 1
      OBVIOUS
    <3>2. r[2 * k] = s[k] \div Byte /\ r[2 * k + 1] = s[k + 1] /\ s[k] \in Nat
      BY <1>2, <1>4, <3>1
    <3>3. (s[k] \div Byte) \div Byte = s[k] \div (Byte * Byte)
      BY <3>2, DigitSize, DivisionTwice
    <3>4. s[k + 1] = s[k] \div Digit
      BY <1>1
    <3>5. QED
      BY <3>2, <3>3, <3>4 DEF Digit
  <2>3. SUFFICES ASSUME NEW j \in 1 .. 7 PROVE r[j + 1] = r[j] \div Byte
    OBVIOUS
  <2>4. CASE \E k \in 1 .. 4 : j = 2 * k - 1
    <3>1. PICK k \in 1 .. 4 : j = 2 * k - 1
      BY <2>4
    <3>2. j + 1 = 2 * k
      BY <3>1
    <3>3. QED
      BY <2>1, <3>1, <3>2
  <2>5. CASE \E k \in 1 .. 3 : j = 2 * k
    BY <2>2, <2>5
  <2>6. (\E k \in 1 .. 4 : j = 2 * k - 1) \/ (\E k \in 1 .. 3 : j = 2 * k)
    OBVIOUS
  <2>7. QED
    BY <2>4, <2>5, <2>6
<1>8. r[1] = n
  BY <1>1, <1>2
<1>9. Quotients(r, n, Byte, 8)
  BY <1>6, <1>7, <1>8 DEF Quotients
<1>10. QED
  BY <1>2, <1>9

\* What write_data_bit_length writes is eight times the length, the most
\* significant byte first.
LEMMA LengthWritten ==
  ASSUME NEW digits, NEW n \in Nat, DigitsOf(digits, n)
  PROVE  write_data_bit_length(digits) = BigEndian(8 * n)
<1>1. PICK q : Quotients(q, n, Digit, 5) /\ \A k \in 1 .. 4 : digits[k] = q[k] % Digit
  BY DEF DigitsOf
<1>2. q \in [1 .. 5 -> Nat] /\ q[1] = n /\ \A k \in 1 .. 4 : q[k + 1] = q[k] \div Digit
  BY <1>1 DEF Quotients
<1> DEFINE carry(k) == IF k = 1 THEN 0 ELSE digits[k - 1] \div (Digit \div 8)
           bits(k)  == ((digits[k] * 8) % Digit) + carry(k)
           s == [k \in 1 .. 5 |-> 8 * q[k] + carry(k)]
<1>3. ASSUME NEW k \in 1 .. 4, carry(k) \in 0 .. 7
      PROVE  /\ carry(k + 1) \in 0 .. 7
             /\ 8 * q[k + 1] + carry(k + 1) = (8 * q[k] + carry(k)) \div Digit
             /\ bits(k) = (8 * q[k] + carry(k)) % Digit
  <2> DEFINE e == Digit \div 8
             c == carry(k)
             a == q[k]
  <2>1. e \in Nat \ {0} /\ Digit = 8 * e /\ c \in 0 .. 7 /\ a \in Nat
    BY <1>2, <1>3, DigitSize
  <2>2. carry(k + 1) = (a % Digit) \div e
    <3>1. k + 1 # 1 /\ (k + 1) - 1 = k
      OBVIOUS
    <3>2. carry(k + 1) = digits[k] \div e
      BY <3>1
    <3> HIDE DEF carry, e
    <3>3. QED
      BY <1>1, <3>2
  <2>3. bits(k) = (((a % Digit) * 8) % Digit) + c /\ q[k + 1] = a \div Digit
    BY <1>1, <1>2
  <2> HIDE DEF e, c, a, bits
  <2>4. /\ (8 * a + c) \div Digit = 8 * (a \div Digit) + ((a % Digit) \div e)
        /\ (8 * a + c) % Digit = (((a % Digit) * 8) % Digit) + c
        /\ (a % Digit) \div e \in 0 .. 7
    BY <2>1, ShiftStep
  <2> HIDE DEF carry
  <2>5. QED
    BY <2>2, <2>3, <2>4 DEF a, c
<1>4. \A k \in 1 .. 5 : carry(k) \in 0 .. 7
  <2>1. carry(1) \in 0 .. 7
    OBVIOUS
  <2> HIDE DEF carry
  <2>2. carry(2) \in 0 .. 7
    BY <1>3, <2>1
  <2>3. carry(3) \in 0 .. 7
    BY <1>3, <2>2
  <2>4. carry(4) \in 0 .. 7
    BY <1>3, <2>3
  <2>5. carry(5) \in 0 .. 7
    BY <1>3, <2>4
  <2>6. QED
    BY <2>1, <2>2, <2>3, <2>4, <2>5
<1>5. \A k \in 1 .. 5 : s[k] = 8 * q[k] + carry(k)
  OBVIOUS
<1>6. s \in [1 .. 5 -> Nat]
  <2>1. ASSUME NEW k \in 1 .. 5 PROVE 8 * q[k] + carry(k) \in Nat
    <3>1. q[k] \in Nat /\ carry(k) \in 0 .. 7
      BY <1>2, <1>4
    <3> HIDE DEF carry
    <3>2. QED
      BY <3>1
  <2> HIDE DEF carry
  <2>2. QED
    BY <2>1
<1>7. s[1] = 8 * n
  BY <1>2, <1>5
<1> HIDE DEF s
<1>8. write_data_bit_length(digits) =
        [b \in 1 .. 8 |-> IF b % 2 = 1 THEN bits((9 - b) \div 2) \div Byte
                                       ELSE bits((10 - b) \div 2) % Byte]
  BY DEF write_data_bit_length
<1> HIDE DEF carry, bits
<1>9. \A k \in 1 .. 4 : s[k + 1] = s[k] \div Digit /\ bits(k) = s[k] % Digit
  BY <1>3, <1>4, <1>5
<1>10. 8 * n \in Nat /\ Quotients(s, 8 * n, Digit, 5)
  BY <1>6, <1>7, <1>9 DEF Quotients
<1>11. PICK r : /\ Quotients(r, 8 * n, Byte, 8)
                /\ \A k \in 1 .. 4 : r[2 * k - 1] = s[k] /\ r[2 * k] = s[k] \div Byte
  BY <1>10, BytesOfDigits
<1>12. BigEndian(8 * n) = [b \in 1 .. 8 |-> r[9 - b] % Byte]
  BY <1>10, <1>11, BigEndianBytes
<1>13. ASSUME NEW b \in 1 .. 8
       PROVE  (IF b % 2 = 1 THEN bits((9 - b) \div 2) \div Byte ELSE bits((10 - b) \div 2) % Byte)
                = r[9 - b] % Byte
  <2>1. PICK k \in 1 .. 4 :
           \/ /\ b = 9 - 2 * k /\ b % 2 = 1 /\ (9 - b) \div 2 = k
           \/ /\ b = 10 - 2 * k /\ b % 2 # 1 /\ (10 - b) \div 2 = k
    BY ByteOfDigit
  <2>2. s[k] \in Nat
    BY <1>6
  <2>3. bits(k) % Byte = s[k] % Byte /\ bits(k) \div Byte = (s[k] \div Byte) % Byte
    <3>1. bits(k) = s[k] % (Byte * Byte)
      BY <1>9 DEF Digit
    <3>2. /\ (s[k] % (Byte * Byte)) % Byte = s[k] % Byte
          /\ (s[k] % (Byte * Byte)) \div Byte = (s[k] \div Byte) % Byte
      BY <2>2, DigitSize, DivisionTwice
    <3>3. QED
      BY <3>1, <3>2
  <2>4. r[2 * k - 1] = s[k] /\ r[2 * k] = s[k] \div Byte
    BY <1>11
  <2>5. CASE b = 9 - 2 * k /\ b % 2 = 1 /\ (9 - b) \div 2 = k
    <3>1. 9 - b = 2 * k
      BY <2>5
    <3>2. QED
      BY <2>3, <2>4, <2>5, <3>1
  <2>6. CASE b = 10 - 2 * k /\ b % 2 # 1 /\ (10 - b) \div 2 = k
    <3>1. 9 - b = 2 * k - 1
      BY <2>6
    <3>2. QED
      BY <2>3, <2>4, <2>6, <3>1
  <2>7. QED
    BY <2>1, <2>5, <2>6
<1>14. QED
  BY <1>8, <1>12, <1>13

(***************************************************************************)
(* Blocks of a sequence.                                                   *)
(***************************************************************************)
\* The b-th block of s.
BlockOf(s, b) == SubSeq(s, (b - 1) * Block + 1, b * Block)

\* bs are the first blocks of s.
BlocksOf(bs, s) ==
  /\ Len(bs) * Block <= Len(s)
  /\ \A b \in 1 .. Len(bs) : bs[b] = BlockOf(s, b)

\* A part of a sequence, by its elements.
LEMMA PartOf ==
  ASSUME NEW s \in Seq(Int), NEW a \in Nat, NEW n \in Nat, a + n <= Len(s)
  PROVE  /\ SubSeq(s, a + 1, a + n) \in Seq(Int)
         /\ Len(SubSeq(s, a + 1, a + n)) = n
         /\ \A k \in 1 .. n : SubSeq(s, a + 1, a + n)[k] = s[a + k]
<1>1. \A j \in a + 1 .. a + n : s[j] \in Int
  OBVIOUS
<1> DEFINE t == SubSeq(s, a + 1, a + n)
<1>2. /\ t \in Seq(Int)
      /\ Len(t) = IF a + 1 <= a + n THEN (a + n) - (a + 1) + 1 ELSE 0
      /\ \A k \in 1 .. (a + n) - (a + 1) + 1 : t[k] = s[(a + 1) + k - 1]
  BY <1>1, SubSeqProperties
<1> HIDE DEF t
<1>3. Len(t) = n
  BY <1>2
<1>4. \A k \in 1 .. n : t[k] = s[a + k]
  <2>1. \A k \in 1 .. n : k \in 1 .. (a + n) - (a + 1) + 1 /\ (a + 1) + k - 1 = a + k
    OBVIOUS
  <2>2. QED
    BY <1>2, <2>1
<1>5. QED
  BY <1>2, <1>3, <1>4 DEF t

\* A sequence with those elements is that part.
LEMMA PartUnique ==
  ASSUME NEW s \in Seq(Int), NEW a \in Nat, NEW t \in Seq(Int), a + Len(t) <= Len(s),
         \A k \in 1 .. Len(t) : t[k] = s[a + k]
  PROVE  t = SubSeq(s, a + 1, a + Len(t))
<1> DEFINE n == Len(t)
           u == SubSeq(s, a + 1, a + n)
<1>1. n \in Nat /\ a + n <= Len(s)
  OBVIOUS
<1>2. u \in Seq(Int) /\ Len(u) = n /\ \A k \in 1 .. n : u[k] = s[a + k]
  <2> HIDE DEF n
  <2> QED BY <1>1, PartOf
<1> HIDE DEF u
<1>3. t = u
  BY <1>2, SeqEqual
<1>4. QED
  BY <1>3 DEF u

\* Where a block begins and ends.
LEMMA BlockBounds ==
  ASSUME NEW b \in Nat \ {0}
  PROVE  /\ Block \in Nat \ {0} /\ Block > 8
         /\ (b - 1) * Block \in Nat
         /\ b * Block = (b - 1) * Block + Block
BY ShaAssumption

\* A block, by its elements.
LEMMA BlockElements ==
  ASSUME NEW s \in Seq(Int), NEW b \in Nat \ {0}, b * Block <= Len(s)
  PROVE  /\ BlockOf(s, b) \in Seq(Int)
         /\ Len(BlockOf(s, b)) = Block
         /\ \A k \in 1 .. Block : BlockOf(s, b)[k] = s[(b - 1) * Block + k]
<1> DEFINE a == (b - 1) * Block
<1>1. a \in Nat /\ b * Block = a + Block /\ Block \in Nat /\ a + Block <= Len(s)
  BY BlockBounds
<1>2. BlockOf(s, b) = SubSeq(s, a + 1, a + Block)
  BY <1>1 DEF BlockOf
<1> DEFINE t == SubSeq(s, a + 1, a + Block)
<1> HIDE DEF a
<1>3. t \in Seq(Int) /\ Len(t) = Block /\ \A k \in 1 .. Block : t[k] = s[a + k]
  BY <1>1, PartOf
<1> HIDE DEF t
<1>4. BlockOf(s, b) = t
  BY <1>2 DEF t
<1>5. QED
  BY <1>3, <1>4 DEF a

\* A sequence with those elements is that block.
LEMMA BlockUnique ==
  ASSUME NEW s \in Seq(Int), NEW b \in Nat \ {0}, b * Block <= Len(s),
         NEW t \in Seq(Int), Len(t) = Block,
         \A k \in 1 .. Block : t[k] = s[(b - 1) * Block + k]
  PROVE  t = BlockOf(s, b)
<1> DEFINE u == BlockOf(s, b)
<1>1. u \in Seq(Int) /\ Len(u) = Block /\ \A k \in 1 .. Block : u[k] = s[(b - 1) * Block + k]
  BY BlockElements
<1> HIDE DEF u
<1>2. \A k \in 1 .. Len(t) : t[k] = u[k]
  BY <1>1
<1>3. t = u
  BY <1>1, <1>2, SeqEqual
<1>4. QED
  BY <1>3 DEF u

\* Blocks begin one after the other.
LEMMA BlocksInOrder ==
  ASSUME NEW m \in Nat, NEW n \in Nat
  PROVE  /\ m * Block \in Nat /\ n * Block \in Nat
         /\ (m + n) * Block = m * Block + n * Block
         /\ m <= n => m * Block <= n * Block
<1>1. Block \in Nat
  BY ShaAssumption
<1>2. m * Block \in Nat /\ n * Block \in Nat /\ (m + n) * Block = m * Block + n * Block
  BY <1>1
<1>3. ASSUME m <= n PROVE m * Block <= n * Block
  <2>1. n - m \in Nat /\ (n - m) * Block \in Nat /\ n * Block = m * Block + (n - m) * Block
    BY <1>1, <1>3
  <2>2. QED
    BY <1>2, <2>1
<1>4. QED
  BY <1>2, <1>3

\* The blocks of s stay when more follows.
LEMMA BlocksKept ==
  ASSUME NEW s \in Seq(Int), NEW t \in Seq(Int), NEW bs, Len(bs) \in Nat, BlocksOf(bs, s)
  PROVE  BlocksOf(bs, s \o t)
<1>1. /\ s \o t \in Seq(Int) /\ Len(s \o t) = Len(s) + Len(t) /\ Len(s) \in Nat /\ Len(t) \in Nat
      /\ \A k \in 1 .. Len(s) : (s \o t)[k] = s[k]
  BY ConcatProperties
<1>2. ASSUME NEW b \in 1 .. Len(bs) PROVE bs[b] = BlockOf(s \o t, b)
  <2>1. b \in Nat \ {0} /\ b * Block <= Len(bs) * Block
    <3>1. b \in Nat /\ b <= Len(bs)
      OBVIOUS
    <3>2. QED
      BY <3>1, BlocksInOrder
  <2>2. Len(bs) * Block <= Len(s) /\ Len(bs) * Block \in Nat /\ b * Block \in Nat
    BY <2>1, ShaAssumption DEF BlocksOf
  <2>3. b * Block <= Len(s) /\ b * Block <= Len(s \o t)
    BY <1>1, <2>1, <2>2
  <2> DEFINE u == BlockOf(s, b)
             a == (b - 1) * Block
  <2>4. u \in Seq(Int) /\ Len(u) = Block /\ \A k \in 1 .. Block : u[k] = s[a + k]
    BY <2>1, <2>3, BlockElements
  <2>5. a \in Nat /\ b * Block = a + Block /\ Block \in Nat
    BY <2>1, BlockBounds
  <2> HIDE DEF u
  <2>6. \A k \in 1 .. Block : u[k] = (s \o t)[a + k]
    <3>1. \A k \in 1 .. Block : a + k \in 1 .. Len(s)
      <4> HIDE DEF a
      <4> QED BY <1>1, <2>3, <2>5
    <3> HIDE DEF a
    <3>2. QED
      BY <1>1, <2>4, <3>1
  <2>7. u = BlockOf(s \o t, b)
    BY <1>1, <2>1, <2>3, <2>4, <2>6, BlockUnique
  <2>8. QED
    BY <2>7 DEF BlocksOf, u
<1>3. Len(bs) * Block <= Len(s \o t)
  BY <1>1, ShaAssumption DEF BlocksOf
<1>4. QED
  BY <1>2, <1>3 DEF BlocksOf

\* The blocks of what follows the first blocks are the next blocks.
LEMMA BlocksFollow ==
  ASSUME NEW s \in Seq(Int), NEW t \in Seq(Int),
         NEW bs \in Seq(Seq(Int)), BlocksOf(bs, s),
         NEW cs \in Seq(Seq(Int)), BlocksOf(cs, t),
         Len(s) = Len(bs) * Block + Len(t),
         \A k \in 1 .. Len(t) : t[k] = s[Len(bs) * Block + k]
  PROVE  BlocksOf(bs \o cs, s)
<1> DEFINE m == Len(bs)
           n == Len(cs)
           all == bs \o cs
<1>1. /\ all \in Seq(Seq(Int)) /\ Len(all) = m + n /\ m \in Nat /\ n \in Nat
      /\ \A b \in 1 .. m + n : all[b] = IF b <= m THEN bs[b] ELSE cs[b - m]
  BY ConcatProperties
<1>2. m * Block \in Nat /\ n * Block \in Nat /\ (m + n) * Block = m * Block + n * Block
  BY <1>1, BlocksInOrder
<1>3. n * Block <= Len(t) /\ Len(t) \in Nat /\ Len(s) \in Nat
  BY DEF BlocksOf
<1> HIDE DEF all, m, n
<1>4. Len(all) * Block <= Len(s)
  BY <1>1, <1>2, <1>3 DEF m
<1>5. ASSUME NEW b \in 1 .. m PROVE all[b] = BlockOf(s, b)
  <2>1. b \in 1 .. m + n /\ b <= m
    BY <1>1, <1>5
  <2>2. all[b] = bs[b]
    BY <1>1, <2>1
  <2>3. QED
    BY <1>5, <2>2 DEF BlocksOf, m
<1>6. ASSUME NEW b \in 1 .. n PROVE all[m + b] = BlockOf(s, m + b)
  <2>1. all[m + b] = cs[b]
    <3>1. m + b \in 1 .. m + n /\ ~ (m + b <= m) /\ (m + b) - m = b
      BY <1>1, <1>6
    <3>2. QED
      BY <1>1, <3>1
  <2>2. cs[b] = BlockOf(t, b)
    BY <1>6 DEF BlocksOf, n
  <2>3. b \in Nat \ {0} /\ m + b \in Nat \ {0} /\ b * Block <= n * Block
    <3>1. b \in Nat \ {0} /\ m + b \in Nat \ {0} /\ b <= n
      BY <1>1, <1>6
    <3>2. QED
      BY <1>1, <3>1, BlocksInOrder
  <2>4. b * Block \in Nat /\ (m + b) * Block = m * Block + b * Block
    BY <1>1, <2>3, BlocksInOrder
  <2>5. b * Block <= Len(t) /\ (m + b) * Block <= Len(s)
    BY <1>2, <1>3, <2>3, <2>4 DEF m
  <2> DEFINE u == BlockOf(t, b)
             a == (b - 1) * Block
             c == ((m + b) - 1) * Block
             mB == m * Block
             bB == b * Block
             e == (m + b) * Block
  <2>6. u \in Seq(Int) /\ Len(u) = Block /\ \A k \in 1 .. Block : u[k] = t[a + k]
    BY <2>3, <2>5, BlockElements
  <2>7. /\ a \in Nat /\ bB = a + Block /\ c \in Nat /\ e = c + Block /\ Block \in Nat
        /\ mB \in Nat /\ bB \in Nat /\ e = mB + bB /\ bB <= Len(t)
    BY <1>2, <2>3, <2>4, <2>5, BlockBounds
  <2> HIDE DEF u, a, c, mB, bB, e
  <2>8. c = mB + a
    BY <2>7
  <2>9. \A k \in 1 .. Block : u[k] = s[c + k]
    <3>1. SUFFICES ASSUME NEW k \in 1 .. Block PROVE t[a + k] = s[c + k]
      BY <2>6
    <3>2. a + k \in 1 .. Len(t) /\ c + k = mB + (a + k)
      BY <1>3, <2>7, <2>8
    <3>3. \A l \in 1 .. Len(t) : t[l] = s[mB + l]
      BY DEF m, mB
    <3>4. QED
      BY <3>2, <3>3
  <2>10. u = BlockOf(s, m + b)
    BY <1>2, <2>3, <2>5, <2>6, <2>9, BlockUnique DEF c
  <2>11. QED
    BY <2>1, <2>2, <2>10 DEF u
<1>7. \A b \in 1 .. m + n : all[b] = BlockOf(s, b)
  <2>1. SUFFICES ASSUME NEW b \in 1 .. m + n PROVE all[b] = BlockOf(s, b)
    OBVIOUS
  <2>2. CASE b <= m
    <3>1. b \in 1 .. m
      BY <1>1, <2>2
    <3>2. QED
      BY <1>5, <3>1
  <2>3. CASE ~ b <= m
    <3>1. b - m \in 1 .. n /\ m + (b - m) = b
      BY <1>1, <2>3
    <3>2. QED
      BY <1>6, <3>1
  <2>4. QED
    BY <2>2, <2>3
<1>8. QED
  BY <1>1, <1>4, <1>7 DEF BlocksOf, all

\* What process compresses and keeps of the bytes it has: their blocks, and
\* less than a block.
LEMMA CutAndRest ==
  ASSUME NEW t \in Seq(Int)
  PROVE  /\ Cut(t) \in Seq(Seq(Int))
         /\ BlocksOf(Cut(t), t)
         /\ Rest(t) \in Seq(Int)
         /\ Len(Rest(t)) < Block
         /\ Len(t) = Len(Cut(t)) * Block + Len(Rest(t))
         /\ \A k \in 1 .. Len(Rest(t)) : Rest(t)[k] = t[Len(Cut(t)) * Block + k]
<1> DEFINE w == Whole(t)
           r == Len(t) % Block
           a == w * Block
           c == Cut(t)
           e == Rest(t)
<1>1. Len(t) \in Nat /\ Block \in Nat \ {0}
  BY ShaAssumption
<1>2. w \in Nat /\ r \in 0 .. Block - 1 /\ Len(t) = Block * w + r
  BY <1>1, Division DEF Whole
<1>3. a \in Nat /\ Len(t) = a + r /\ r \in Nat
  <2> HIDE DEF w, r
  <2> QED BY <1>1, <1>2
<1>4. c = [b \in 1 .. w |-> BlockOf(t, b)]
  BY DEF Cut, BlockOf
<1>5. e = SubSeq(t, a + 1, a + r)
  <2>1. e = SubSeq(t, a + 1, Len(t))
    BY DEF Rest
  <2> HIDE DEF a, r, e
  <2>2. QED
    BY <1>3, <2>1
<1> HIDE DEF w, r, a, c, e
<1>6. \A b \in 1 .. w : BlockOf(t, b) \in Seq(Int)
  <2>1. SUFFICES ASSUME NEW b \in 1 .. w PROVE BlockOf(t, b) \in Seq(Int)
    OBVIOUS
  <2>2. b \in Nat \ {0} /\ b \in Nat /\ b <= w /\ w \in Nat
    BY <1>2
  <2>5. b * Block <= w * Block
    BY <2>2, BlocksInOrder
  <2>3. b * Block <= Len(t)
    <3>1. b * Block \in Nat /\ w * Block = a
      BY <1>2, <2>2, BlocksInOrder DEF a
    <3>2. QED
      BY <1>3, <2>5, <3>1
  <2>4. QED
    BY <2>2, <2>3, BlockElements
<1>7. c \in Seq(Seq(Int)) /\ Len(c) = w /\ \A b \in 1 .. w : c[b] = BlockOf(t, b)
  BY <1>2, <1>4, <1>6
<1>8. Len(c) * Block = a
  BY <1>7 DEF a
<1>9. BlocksOf(c, t)
  BY <1>3, <1>7, <1>8 DEF BlocksOf
<1>10. e \in Seq(Int) /\ Len(e) = r /\ \A k \in 1 .. r : e[k] = t[a + k]
  BY <1>3, <1>5, PartOf
<1>11. Len(e) < Block /\ Len(t) = Len(c) * Block + Len(e)
  <2>1. Len(e) = r
    BY <1>10
  <2>2. r < Block
    BY <1>1, <1>2
  <2>3. QED
    BY <1>3, <1>8, <2>1, <2>2
<1>12. \A k \in 1 .. Len(e) : e[k] = t[Len(c) * Block + k]
  BY <1>8, <1>10
<1>13. QED
  BY <1>7, <1>9, <1>10, <1>11, <1>12 DEF c, e

\* What the bytes of blocks and a rest are, when more bytes come.
LEMMA MoreBytes ==
  ASSUME NEW s \in Seq(Int), NEW new \in Seq(Int), NEW bs \in Seq(Seq(Int)),
         NEW bf \in Seq(Int), BlocksOf(bs, s), Len(s) = Len(bs) * Block + Len(bf),
         \A k \in 1 .. Len(bf) : bf[k] = s[Len(bs) * Block + k]
  PROVE  LET all == s \o new
             t == bf \o new
         IN  /\ BlocksOf(bs, all)
             /\ Len(all) = Len(bs) * Block + Len(t)
             /\ \A k \in 1 .. Len(t) : t[k] = all[Len(bs) * Block + k]
<1> DEFINE all == s \o new
           t == bf \o new
           a == Len(bs) * Block
<1>1. /\ Len(all) = Len(s) + Len(new)
      /\ \A k \in 1 .. Len(s) + Len(new) : all[k] = IF k <= Len(s) THEN s[k] ELSE new[k - Len(s)]
  BY ConcatProperties, ZenonT(60)
<1>2. /\ Len(t) = Len(bf) + Len(new)
      /\ \A k \in 1 .. Len(bf) + Len(new) : t[k] = IF k <= Len(bf) THEN bf[k] ELSE new[k - Len(bf)]
  BY ConcatProperties
<1>3. Len(bs) \in Nat /\ Len(bf) \in Nat /\ Len(new) \in Nat /\ Len(s) \in Nat
  OBVIOUS
<1>4. a \in Nat /\ Len(s) = a + Len(bf)
  BY <1>3, BlocksInOrder
<1>5. \A k \in 1 .. Len(bf) : bf[k] = s[a + k]
  OBVIOUS
<1>6. BlocksOf(bs, all)
  BY <1>3, BlocksKept
<1> HIDE DEF all, t, a
<1>10. Len(all) = Len(s) + Len(new) /\ Len(t) = Len(bf) + Len(new)
  BY <1>1, <1>2
<1>7. Len(all) = a + Len(t)
  BY <1>3, <1>4, <1>10
<1>8. ASSUME NEW k \in 1 .. Len(t) PROVE t[k] = all[a + k]
  <2>1. /\ a + k \in 1 .. Len(s) + Len(new) /\ k \in 1 .. Len(bf) + Len(new)
        /\ k \in Nat /\ a + k \in Nat
    BY <1>3, <1>4, <1>10
  <2>2. CASE k <= Len(bf)
    <3>1. k \in 1 .. Len(bf) /\ a + k <= Len(s)
      BY <1>3, <1>4, <1>10, <2>2
    <3>2. all[a + k] = s[a + k] /\ t[k] = bf[k]
      BY <1>1, <1>2, <2>1, <2>2, <3>1
    <3>3. QED
      BY <1>5, <3>1, <3>2
  <2>3. CASE ~ (k <= Len(bf))
    <3>1. ~ (a + k <= Len(s)) /\ (a + k) - Len(s) = k - Len(bf)
      <4>1. ASSUME NEW x \in Nat, NEW y \in Nat, y = a + x, ~ (k <= x)
            PROVE  ~ (a + k <= y) /\ (a + k) - y = k - x
        BY <1>4, <2>1, <4>1
      <4>2. QED
        BY <1>3, <1>4, <2>3, <4>1
    <3>2. all[a + k] = new[(a + k) - Len(s)]
      BY <1>1, <2>1, <3>1
    <3>3. t[k] = new[k - Len(bf)]
      BY <1>2, <2>1, <2>3
    <3>4. QED
      BY <3>1, <3>2, <3>3
  <2>4. QED
    BY <2>2, <2>3
<1>9. QED
  BY <1>6, <1>7, <1>8 DEF all, t, a

\* The padding of a buffer.
Frame(x, z, l) == (Append(x, marker) \o Zeros(z)) \o l

\* Zeros are zeros.
LEMMA ZerosElements ==
  ASSUME NEW z \in Nat
  PROVE  Zeros(z) \in Seq(Int) /\ Len(Zeros(z)) = z /\ \A k \in 1 .. z : Zeros(z)[k] = zero
<1>1. zero \in Int
  BY DEF zero
<1> HIDE DEF zero
<1>2. QED
  BY <1>1 DEF Zeros

\* A padding, by its elements.
LEMMA FrameElements ==
  ASSUME NEW x \in Seq(Int), NEW z \in Nat, NEW l \in Seq(Int)
  PROVE  /\ Frame(x, z, l) \in Seq(Int)
         /\ Len(Frame(x, z, l)) = Len(x) + 1 + z + Len(l)
         /\ \A k \in 1 .. Len(x) + 1 + z + Len(l) : Frame(x, z, l)[k] =
              IF k <= Len(x) THEN x[k]
              ELSE IF k = Len(x) + 1 THEN marker
              ELSE IF k <= Len(x) + 1 + z THEN zero
              ELSE l[k - (Len(x) + 1 + z)]
<1> DEFINE u == Append(x, marker)
           zs == Zeros(z)
           v == u \o zs
           f == v \o l
<1>1. marker \in Int
  BY DEF marker
<1> HIDE DEF marker
<1>2. /\ u \in Seq(Int) /\ Len(u) = Len(x) + 1 /\ Len(x) \in Nat /\ Len(l) \in Nat
      /\ (\A k \in 1 .. Len(x) : u[k] = x[k]) /\ u[Len(x) + 1] = marker
  BY <1>1, AppendProperties
<1>3. zs \in Seq(Int) /\ Len(zs) = z /\ \A k \in 1 .. z : zs[k] = zero
  BY ZerosElements
<1> HIDE DEF u, zs
<1>4. /\ v \in Seq(Int) /\ Len(v) = Len(u) + Len(zs)
      /\ \A k \in 1 .. Len(u) + Len(zs) : v[k] = IF k <= Len(u) THEN u[k] ELSE zs[k - Len(u)]
  BY <1>2, <1>3, ConcatProperties
<1> HIDE DEF v
<1>10. v \in Seq(Int)
  BY <1>4
<1>5. /\ f \in Seq(Int) /\ Len(f) = Len(v) + Len(l)
      /\ \A k \in 1 .. Len(v) + Len(l) : f[k] = IF k <= Len(v) THEN v[k] ELSE l[k - Len(v)]
  BY <1>10, ConcatProperties
<1> HIDE DEF f
<1>6. ASSUME NEW k \in 1 .. Len(x) + 1 + z + Len(l)
      PROVE  f[k] = IF k <= Len(x) THEN x[k]
                    ELSE IF k = Len(x) + 1 THEN marker
                    ELSE IF k <= Len(x) + 1 + z THEN zero
                    ELSE l[k - (Len(x) + 1 + z)]
  <2>1. Len(v) = Len(x) + 1 + z /\ k \in 1 .. Len(v) + Len(l)
    BY <1>2, <1>3, <1>4
  <2>2. CASE k <= Len(x)
    <3>1. k <= Len(v) /\ k <= Len(u) /\ k \in 1 .. Len(x) /\ k \in 1 .. Len(u) + Len(zs)
      BY <1>2, <1>3, <2>1, <2>2
    <3>2. f[k] = v[k] /\ v[k] = u[k] /\ u[k] = x[k]
      BY <1>2, <1>4, <1>5, <2>1, <3>1
    <3>3. QED
      BY <2>2, <3>2
  <2>3. CASE k = Len(x) + 1
    <3>1. k <= Len(v) /\ k <= Len(u) /\ k \in 1 .. Len(u) + Len(zs) /\ ~ (k <= Len(x))
      BY <1>2, <1>3, <2>1, <2>3
    <3>2. f[k] = v[k] /\ v[k] = u[k] /\ u[k] = marker
      BY <1>2, <1>4, <1>5, <2>1, <2>3, <3>1
    <3>3. QED
      BY <2>3, <3>1, <3>2
  <2>4. CASE k > Len(x) + 1 /\ k <= Len(x) + 1 + z
    <3>1. k <= Len(v) /\ ~ (k <= Len(u)) /\ k \in 1 .. Len(u) + Len(zs) /\ k - Len(u) \in 1 .. z
      BY <1>2, <1>3, <2>1, <2>4
    <3>2. f[k] = v[k] /\ v[k] = zs[k - Len(u)] /\ zs[k - Len(u)] = zero
      BY <1>3, <1>4, <1>5, <2>1, <3>1
    <3>3. ~ (k <= Len(x)) /\ k # Len(x) + 1
      BY <1>2, <2>4
    <3>4. QED
      BY <2>4, <3>2, <3>3
  <2>5. CASE k > Len(x) + 1 + z
    <3>1. ~ (k <= Len(v)) /\ ~ (k <= Len(x)) /\ k # Len(x) + 1 /\ ~ (k <= Len(x) + 1 + z)
      BY <1>2, <2>1, <2>5
    <3>2. f[k] = l[k - Len(v)]
      BY <1>5, <2>1, <3>1
    <3>3. QED
      BY <2>1, <3>1, <3>2
  <2>6. QED
    BY <1>2, <2>2, <2>3, <2>4, <2>5
<1>7. Len(f) = Len(x) + 1 + z + Len(l)
  BY <1>2, <1>3, <1>4, <1>5
<1>8. f = Frame(x, z, l)
  BY DEF f, v, u, zs, Frame
<1>9. QED
  BY <1>5, <1>6, <1>7, <1>8

\* bs are the whole blocks of s, and bf is the rest of it.
Split(bs, bf, s) ==
  /\ BlocksOf(bs, s)
  /\ Len(s) = Len(bs) * Block + Len(bf)
  /\ \A k \in 1 .. Len(bf) : bf[k] = s[Len(bs) * Block + k]

\* One call of process cuts what waits and what comes into blocks and a rest.
LEMMA ProcessSplits ==
  ASSUME NEW s \in Seq(Int), NEW new \in Seq(Int), NEW bs \in Seq(Seq(Int)),
         NEW bf \in Seq(Int), Split(bs, bf, s)
  PROVE  /\ bs \o Cut(bf \o new) \in Seq(Seq(Int))
         /\ Rest(bf \o new) \in Seq(Int)
         /\ Len(Rest(bf \o new)) < Block
         /\ Split(bs \o Cut(bf \o new), Rest(bf \o new), s \o new)
<1> DEFINE all == s \o new
           t   == bf \o new
           c   == Cut(t)
           e   == Rest(t)
           a   == Len(bs) * Block
           d   == Len(c) * Block
<1>1. all \in Seq(Int) /\ t \in Seq(Int)
  BY ConcatProperties
<1>2. /\ BlocksOf(bs, all)
      /\ Len(all) = a + Len(t)
      /\ \A k \in 1 .. Len(t) : t[k] = all[a + k]
  BY MoreBytes, ZenonT(60) DEF Split
<1> HIDE DEF all, t
<1>3. /\ c \in Seq(Seq(Int)) /\ BlocksOf(c, t)
      /\ e \in Seq(Int) /\ Len(e) < Block
      /\ Len(t) = d + Len(e)
      /\ \A k \in 1 .. Len(e) : e[k] = t[d + k]
  BY <1>1, CutAndRest
<1> HIDE DEF c, e
<1>4. BlocksOf(bs \o c, all)
  BY <1>1, <1>2, <1>3, BlocksFollow
<1>5. bs \o c \in Seq(Seq(Int)) /\ Len(bs \o c) = Len(bs) + Len(c)
  BY <1>3, ConcatProperties
<1>6. /\ Len(bs) \in Nat /\ Len(c) \in Nat /\ Len(e) \in Nat /\ Len(t) \in Nat
  BY <1>1, <1>3
<1>7. a \in Nat /\ d \in Nat /\ Len(bs \o c) * Block = a + d
  BY <1>5, <1>6, BlocksInOrder
<1> HIDE DEF a, d
<1>8. Len(all) = (a + d) + Len(e)
  <2>1. Len(all) = a + Len(t) /\ Len(t) = d + Len(e)
    BY <1>2, <1>3
  <2>2. QED
    BY <1>6, <1>7, <2>1
<1>9. ASSUME NEW k \in 1 .. Len(e) PROVE e[k] = all[(a + d) + k]
  <2>1. d + k \in 1 .. Len(t) /\ a + (d + k) = (a + d) + k
    <3>1. Len(t) = d + Len(e)
      BY <1>3
    <3>2. QED
      BY <1>6, <1>7, <3>1
  <2>2. e[k] = t[d + k]
    BY <1>3
  <2>3. t[d + k] = all[a + (d + k)]
    BY <1>2, <2>1
  <2>4. QED
    BY <2>1, <2>2, <2>3
<1>10. Split(bs \o c, e, all)
  BY <1>4, <1>7, <1>8, <1>9 DEF Split
<1>11. QED
  BY <1>3, <1>5, <1>10 DEF all, t, c, e

\* f is x and then g.
Joined(f, x, g) == f = x \o g

\* A padding is what was there and the padding of nothing.
LEMMA FrameOfNothing ==
  ASSUME NEW x \in Seq(Int), NEW z \in Nat, NEW l \in Seq(Int),
         NEW o \in Seq(Int), Len(o) = 0
  PROVE  /\ Frame(o, z, l) \in Seq(Int)
         /\ Joined(Frame(x, z, l), x, Frame(o, z, l))
<1> DEFINE f == Frame(x, z, l)
           g == Frame(o, z, l)
           h == x \o g
           tail == 1 + z + Len(l)
<1>1. Len(x) \in Nat /\ Len(l) \in Nat
  OBVIOUS
<1>2. /\ f \in Seq(Int) /\ Len(f) = Len(x) + 1 + z + Len(l)
      /\ \A k \in 1 .. Len(x) + 1 + z + Len(l) : f[k] =
              IF k <= Len(x) THEN x[k]
              ELSE IF k = Len(x) + 1 THEN marker
              ELSE IF k <= Len(x) + 1 + z THEN zero
              ELSE l[k - (Len(x) + 1 + z)]
  BY FrameElements, ZenonT(60)
<1>3. /\ g \in Seq(Int) /\ Len(g) = Len(o) + 1 + z + Len(l)
      /\ \A k \in 1 .. Len(o) + 1 + z + Len(l) : g[k] =
              IF k <= Len(o) THEN o[k]
              ELSE IF k = Len(o) + 1 THEN marker
              ELSE IF k <= Len(o) + 1 + z THEN zero
              ELSE l[k - (Len(o) + 1 + z)]
  BY FrameElements, ZenonT(60)
<1> HIDE DEF f, g
<1>4. /\ Len(g) = tail
      /\ \A k \in 1 .. tail : g[k] = IF k = 1 THEN marker ELSE
                                     IF k <= 1 + z THEN zero ELSE l[k - (1 + z)]
  <2>1. Len(o) + 1 + z + Len(l) = tail /\ tail \in Nat
    BY <1>1
  <2>2. Len(g) = tail
    BY <1>3, <2>1
  <2>3. ASSUME NEW k \in 1 .. tail
        PROVE  g[k] = IF k = 1 THEN marker ELSE IF k <= 1 + z THEN zero ELSE l[k - (1 + z)]
    <3>1. k \in 1 .. Len(o) + 1 + z + Len(l)
      BY <2>1
    <3>2. /\ ~ (k <= Len(o)) /\ Len(o) + 1 = 1
          /\ Len(o) + 1 + z = 1 + z
      BY <1>1, <2>1
    <3>3. g[k] = IF k <= Len(o) THEN o[k]
                 ELSE IF k = Len(o) + 1 THEN marker
                 ELSE IF k <= Len(o) + 1 + z THEN zero
                 ELSE l[k - (Len(o) + 1 + z)]
      BY <1>3, <3>1
    <3> HIDE DEF tail
    <3>4. QED
      BY <3>2, <3>3
  <2>4. QED
    BY <2>2, <2>3
<1>5. /\ h \in Seq(Int) /\ Len(h) = Len(x) + Len(g)
      /\ \A k \in 1 .. Len(x) + Len(g) : h[k] = IF k <= Len(x) THEN x[k] ELSE g[k - Len(x)]
  BY <1>3, ConcatProperties, ZenonT(60)
<1> HIDE DEF h
<1>6. tail \in Nat /\ Len(x) + tail = Len(x) + 1 + z + Len(l)
  BY <1>1
<1>7. Len(f) = Len(h)
  BY <1>2, <1>4, <1>5, <1>6
<1>8. ASSUME NEW k \in 1 .. Len(f) PROVE f[k] = h[k]
  <2>1. k \in 1 .. Len(x) + 1 + z + Len(l) /\ k \in 1 .. Len(x) + Len(g)
    BY <1>2, <1>4, <1>6
  <2>2. CASE k <= Len(x)
    <3>1. f[k] = x[k]
      BY <1>2, <2>1, <2>2
    <3>2. h[k] = x[k]
      BY <1>5, <2>1, <2>2
    <3>3. QED
      BY <3>1, <3>2
  <2>3. CASE ~ (k <= Len(x))
    <3> DEFINE j == k - Len(x)
    <3>1. h[k] = g[j]
      BY <1>5, <2>1, <2>3
    <3>2. j \in 1 .. tail
      BY <1>1, <2>1, <2>3
    <3>3. g[j] = IF j = 1 THEN marker ELSE IF j <= 1 + z THEN zero ELSE l[j - (1 + z)]
      BY <1>4, <3>2
    <3>4. f[k] = IF k = Len(x) + 1 THEN marker ELSE
                 IF k <= Len(x) + 1 + z THEN zero ELSE l[k - (Len(x) + 1 + z)]
      BY <1>2, <2>1, <2>3
    <3>5. /\ (k = Len(x) + 1) <=> (j = 1)
          /\ (k <= Len(x) + 1 + z) <=> (j <= 1 + z)
          /\ k - (Len(x) + 1 + z) = j - (1 + z)
      BY <1>1, <2>1
    <3> HIDE DEF j
    <3>6. QED
      BY <3>1, <3>3, <3>4, <3>5
  <2>4. QED
    BY <2>2, <2>3
<1>9. f = h
  BY <1>2, <1>5, <1>7, <1>8, SeqEqual
<1>10. QED
  BY <1>3, <1>9 DEF f, g, h, Joined

(***************************************************************************)
(* The last blocks, and the invariant.                                     *)
(***************************************************************************)
\* One block that is all of s.
LEMMA OneBlock ==
  ASSUME NEW s \in Seq(Int), Len(s) = Block
  PROVE  <<s>> \in Seq(Seq(Int)) /\ Len(<<s>>) * Block = Len(s) /\ BlocksOf(<<s>>, s)
<1>1. Block \in Nat /\ 1 * Block = Block /\ (1 - 1) * Block = 0
  BY ShaAssumption
<1>2. 1 \in Nat \ {0} /\ 1 * Block <= Len(s)
  BY <1>1
<1>3. \A k \in 1 .. Block : s[k] = s[(1 - 1) * Block + k]
  BY <1>1
<1>4. s = BlockOf(s, 1)
  BY <1>2, <1>3, BlockUnique
<1>5. <<s>> \in Seq(Seq(Int)) /\ Len(<<s>>) = 1 /\ <<s>>[1] = s
  OBVIOUS
<1>6. \A b \in 1 .. 1 : <<s>>[b] = BlockOf(s, b)
  <2>1. \A b \in 1 .. 1 : b = 1
    OBVIOUS
  <2>2. QED
    BY <1>4, <1>5, <2>1
<1>7. QED
  BY <1>1, <1>2, <1>5, <1>6 DEF BlocksOf

\* Two blocks that are all of s.
LEMMA TwoBlocks ==
  ASSUME NEW s \in Seq(Int), NEW u \in Seq(Int), NEW v \in Seq(Int),
         Len(u) = Block, Len(v) = Block, Len(s) = Block + Block,
         \A k \in 1 .. Block : s[k] = u[k] /\ s[Block + k] = v[k]
  PROVE  <<u, v>> \in Seq(Seq(Int)) /\ Len(<<u, v>>) * Block = Len(s) /\ BlocksOf(<<u, v>>, s)
<1>1. /\ Block \in Nat /\ 1 * Block = Block /\ 2 * Block = Block + Block
      /\ (1 - 1) * Block = 0 /\ (2 - 1) * Block = Block
  BY ShaAssumption
<1>2. /\ 1 \in Nat \ {0} /\ 1 * Block <= Len(s)
      /\ 2 \in Nat \ {0} /\ 2 * Block <= Len(s)
  BY <1>1
<1>3. \A k \in 1 .. Block : u[k] = s[(1 - 1) * Block + k] /\ v[k] = s[(2 - 1) * Block + k]
  BY <1>1, SMTT(60)
<1>4. u = BlockOf(s, 1)
  BY <1>2, <1>3, BlockUnique
<1>5. v = BlockOf(s, 2)
  BY <1>2, <1>3, BlockUnique
<1>6. <<u, v>> \in Seq(Seq(Int)) /\ Len(<<u, v>>) = 2 /\ <<u, v>>[1] = u /\ <<u, v>>[2] = v
  OBVIOUS
<1>7. \A b \in 1 .. 2 : <<u, v>>[b] = BlockOf(s, b)
  <2>1. \A b \in 1 .. 2 : b = 1 \/ b = 2
    OBVIOUS
  <2>2. QED
    BY <1>4, <1>5, <1>6, <2>1
<1>8. QED
  BY <1>1, <1>2, <1>6, <1>7 DEF BlocksOf

\* What finish compresses, when the marker and the length fit in one block.
LEMMA LastBlock ==
  ASSUME NEW x \in Seq(Int), NEW l \in Seq(Int), Len(l) = 8, NEW z \in Nat,
         Len(x) <= Block - 9, z = Block - 9 - Len(x)
  PROVE  /\ last_blocks(x, l) = <<Frame(x, z, l)>>
         /\ Len(Frame(x, z, l)) = Block
<1>1. Len(x) \in Nat /\ Block \in Nat
  BY ShaAssumption
<1>2. Block - 8 - Len(x) - 1 = z /\ ~ (Len(x) > Block - 9)
  BY <1>1
<1>3. last_blocks(x, l) = <<(Append(x, marker) \o Zeros(z)) \o l>>
  BY <1>2 DEF last_blocks
<1>4. Len(Frame(x, z, l)) = Len(x) + 1 + z + Len(l)
  BY FrameElements, ZenonT(60)
<1>5. Len(x) + 1 + z + 8 = Block
  BY <1>1
<1>6. QED
  BY <1>3, <1>4, <1>5 DEF Frame

\* What finish compresses, when the length needs a block of its own.
LEMMA LastTwoBlocks ==
  ASSUME NEW x \in Seq(Int), NEW l \in Seq(Int), Len(l) = 8, NEW z \in Nat,
         Len(x) < Block, ~ (Len(x) <= Block - 9), z = 2 * Block - 9 - Len(x)
  PROVE  LET u == Append(x, marker) \o Zeros(Block - Len(x) - 1)
             v == Zeros(Block - 8) \o l
             s == Frame(x, z, l)
         IN  /\ last_blocks(x, l) = <<u, v>>
             /\ u \in Seq(Int) /\ v \in Seq(Int) /\ s \in Seq(Int)
             /\ Len(u) = Block /\ Len(v) = Block /\ Len(s) = Block + Block
             /\ \A k \in 1 .. Block : s[k] = u[k] /\ s[Block + k] = v[k]
<1> DEFINE y == Block - Len(x) - 1
           w == Block - 8
           zy == Zeros(y)
           zw == Zeros(w)
           ma == Append(x, marker)
           u == ma \o zy
           v == zw \o l
           s == Frame(x, z, l)
<1>1. Len(x) \in Nat /\ Block \in Nat /\ y \in Nat /\ w \in Nat /\ Len(x) > Block - 9
  BY ShaAssumption
<1>2. last_blocks(x, l) = <<u, v>>
  BY <1>1 DEF last_blocks
<1>3. /\ Len(x) + 1 + y = Block /\ w + 8 = Block
      /\ Len(x) + 1 + z + 8 = Block + Block
      /\ Len(x) + 1 + z = Block + w
  BY <1>1
<1> HIDE DEF y, w
<1>4. zy \in Seq(Int) /\ Len(zy) = y /\ \A k \in 1 .. y : zy[k] = zero
  BY <1>1, ZerosElements
<1>5. zw \in Seq(Int) /\ Len(zw) = w /\ \A k \in 1 .. w : zw[k] = zero
  BY <1>1, ZerosElements
<1>6. /\ ma \in Seq(Int) /\ Len(ma) = Len(x) + 1
      /\ (\A k \in 1 .. Len(x) : ma[k] = x[k]) /\ ma[Len(x) + 1] = marker
  <2>1. marker \in Int
    BY DEF marker
  <2> HIDE DEF marker
  <2>2. QED
    BY <2>1, AppendProperties
<1> HIDE DEF zy, zw, ma
<1>7. /\ u \in Seq(Int) /\ Len(u) = Len(ma) + Len(zy)
      /\ \A k \in 1 .. Len(ma) + Len(zy) : u[k] = IF k <= Len(ma) THEN ma[k] ELSE zy[k - Len(ma)]
  BY <1>4, <1>6, ConcatProperties, ZenonT(60)
<1>8. /\ v \in Seq(Int) /\ Len(v) = Len(zw) + Len(l)
      /\ \A k \in 1 .. Len(zw) + Len(l) : v[k] = IF k <= Len(zw) THEN zw[k] ELSE l[k - Len(zw)]
  BY <1>5, ConcatProperties
<1>9. /\ s \in Seq(Int) /\ Len(s) = Len(x) + 1 + z + Len(l)
      /\ \A k \in 1 .. Len(x) + 1 + z + Len(l) : s[k] =
              IF k <= Len(x) THEN x[k]
              ELSE IF k = Len(x) + 1 THEN marker
              ELSE IF k <= Len(x) + 1 + z THEN zero
              ELSE l[k - (Len(x) + 1 + z)]
  BY FrameElements, ZenonT(60)
<1> HIDE DEF u, v, s
<1>10. Len(ma) + Len(zy) = Block /\ Len(ma) = Len(x) + 1
  BY <1>3, <1>4, <1>6
<1>11. Len(u) = Block
  BY <1>7, <1>10
<1>12. Len(zw) + Len(l) = Block /\ Len(zw) = w
  BY <1>3, <1>5
<1>13. Len(v) = Block
  BY <1>8, <1>12
<1>14. Len(s) = Block + Block /\ Len(x) + 1 + z + Len(l) = Block + Block
  BY <1>3, <1>9
<1>15. ASSUME NEW k \in 1 .. Block PROVE s[k] = u[k]
  <2>1. /\ k \in 1 .. Len(x) + 1 + z + Len(l) /\ k \in 1 .. Len(ma) + Len(zy)
        /\ k <= Len(x) + 1 + z /\ k \in Nat
    <3>1. k \in 1 .. Block + Block /\ k <= Block + w
      BY <1>1
    <3>2. QED
      BY <1>3, <1>10, <1>14, <3>1
  <2>2. u[k] = IF k <= Len(ma) THEN ma[k] ELSE zy[k - Len(ma)]
    BY <1>7, <2>1
  <2>3. s[k] = IF k <= Len(x) THEN x[k] ELSE IF k = Len(x) + 1 THEN marker ELSE zero
    BY <1>9, <2>1
  <2>4. CASE k <= Len(x)
    <3>1. k \in 1 .. Len(x) /\ k <= Len(ma)
      BY <1>1, <1>10, <2>1, <2>4
    <3>2. ma[k] = x[k]
      BY <1>6, <3>1
    <3>3. QED
      BY <2>2, <2>3, <2>4, <3>1, <3>2
  <2>5. CASE k = Len(x) + 1
    <3>1. ~ (k <= Len(x)) /\ k <= Len(ma)
      BY <1>1, <1>10, <2>5
    <3>2. ma[k] = marker
      BY <1>6, <2>5
    <3>3. QED
      BY <2>2, <2>3, <2>5, <3>1, <3>2
  <2>6. CASE k > Len(x) + 1
    <3>1. ~ (k <= Len(x)) /\ k # Len(x) + 1 /\ ~ (k <= Len(ma))
      BY <1>1, <1>10, <2>1, <2>6
    <3>2. k - Len(ma) \in 1 .. y
      BY <1>1, <1>3, <1>10, <2>1, <2>6
    <3>3. zy[k - Len(ma)] = zero
      BY <1>4, <3>2
    <3>4. QED
      BY <2>2, <2>3, <3>1, <3>3
  <2>7. QED
    BY <1>1, <2>1, <2>4, <2>5, <2>6
<1>16. ASSUME NEW k \in 1 .. Block PROVE s[Block + k] = v[k]
  <2> DEFINE j == Block + k
  <2>1. /\ j \in 1 .. Len(x) + 1 + z + Len(l) /\ k \in 1 .. Len(zw) + Len(l)
        /\ j \in Nat /\ k \in Nat
    <3>1. j \in 1 .. Block + Block
      BY <1>1
    <3> HIDE DEF j
    <3>2. QED
      BY <1>1, <1>12, <1>14, <3>1
  <2>2. ~ (j <= Len(x)) /\ j # Len(x) + 1
    BY <1>1
  <2>3. (j <= Len(x) + 1 + z) <=> (k <= w)
    BY <1>1, <1>3
  <2>4. j - (Len(x) + 1 + z) = k - w
    BY <1>1, <1>3
  <2> HIDE DEF j
  <2>5. s[j] = IF j <= Len(x) + 1 + z THEN zero ELSE l[j - (Len(x) + 1 + z)]
    BY <1>9, <2>1, <2>2
  <2>6. v[k] = IF k <= w THEN zw[k] ELSE l[k - w]
    BY <1>8, <1>12, <2>1
  <2>7. k <= w => zw[k] = zero
    BY <1>1, <1>5, <2>1
  <2>8. s[j] = v[k]
    BY <2>3, <2>4, <2>5, <2>6, <2>7
  <2>9. QED
    BY <2>8 DEF j
<1>17. QED
  BY <1>2, <1>7, <1>8, <1>9, <1>11, <1>13, <1>14, <1>15, <1>16
     DEF u, v, s, ma, zy, zw, y, w

\* Whatever waits, finish compresses the blocks of its padding.
LEMMA LastBlocks ==
  ASSUME NEW x \in Seq(Int), NEW l \in Seq(Int), Len(l) = 8, NEW z \in Nat, Len(x) < Block,
         z = IF Len(x) <= Block - 9 THEN Block - 9 - Len(x) ELSE 2 * Block - 9 - Len(x)
  PROVE  /\ last_blocks(x, l) \in Seq(Seq(Int))
         /\ BlocksOf(last_blocks(x, l), Frame(x, z, l))
         /\ Len(Frame(x, z, l)) = Len(last_blocks(x, l)) * Block
<1>1. Frame(x, z, l) \in Seq(Int)
  BY FrameElements
<1> DEFINE s == Frame(x, z, l)
           b == last_blocks(x, l)
<1>2. CASE Len(x) <= Block - 9
  <2>1. b = <<s>> /\ Len(s) = Block
    BY <1>2, LastBlock
  <2> HIDE DEF s, b
  <2>2. s \in Seq(Int)
    BY <1>1 DEF s
  <2>3. <<s>> \in Seq(Seq(Int)) /\ Len(<<s>>) * Block = Len(s) /\ BlocksOf(<<s>>, s)
    BY <2>1, <2>2, OneBlock
  <2>4. QED
    BY <2>1, <2>3 DEF s, b
<1>3. CASE ~ (Len(x) <= Block - 9)
  <2> DEFINE u == Append(x, marker) \o Zeros(Block - Len(x) - 1)
             v == Zeros(Block - 8) \o l
  <2>1. /\ b = <<u, v>>
        /\ u \in Seq(Int) /\ v \in Seq(Int) /\ s \in Seq(Int)
        /\ Len(u) = Block /\ Len(v) = Block /\ Len(s) = Block + Block
        /\ \A k \in 1 .. Block : s[k] = u[k] /\ s[Block + k] = v[k]
    BY <1>3, LastTwoBlocks, ZenonT(60)
  <2> HIDE DEF s, b, u, v
  <2>2. /\ <<u, v>> \in Seq(Seq(Int)) /\ Len(<<u, v>>) * Block = Len(s)
        /\ BlocksOf(<<u, v>>, s)
    BY <2>1, TwoBlocks
  <2>3. QED
    BY <2>1, <2>2 DEF s, b
<1>4. QED
  BY <1>2, <1>3

\* The zeros that SHA-256 prescribes are those that fill what waits.
LEMMA ZerosPrescribed ==
  ASSUME NEW m \in Nat, NEW r \in Nat, r < Block
  PROVE  (Block - ((m * Block + r + 9) % Block)) % Block =
           IF r <= Block - 9 THEN Block - 9 - r ELSE 2 * Block - 9 - r
<1>1. Block \in Nat /\ Block > 8 /\ Block \in Nat \ {0}
  BY ShaAssumption
<1>2. ASSUME NEW q \in Nat, NEW p \in 0 .. Block - 1
      PROVE  (q * Block + p) % Block = p
  <2>1. (Block * q + p) % Block = p
    BY <1>1, DivisionUnique
  <2>2. Block * q = q * Block
    BY <1>1
  <2>3. QED
    BY <2>1, <2>2
<1>3. m * Block \in Nat /\ (m + 1) * Block = m * Block + Block
  BY <1>1
<1>4. m + 1 \in Nat
  OBVIOUS
<1>5. CASE r < Block - 9
  <2> DEFINE p == r + 9
  <2>1. p \in 0 .. Block - 1 /\ m * Block + r + 9 = m * Block + p
    BY <1>1, <1>3, <1>5
  <2>2. Block - p \in 0 .. Block - 1 /\ Block - p = Block - 9 - r
    BY <1>1, <1>5
  <2> HIDE DEF p
  <2>3. (m * Block + p) % Block = p
    BY <1>2, <2>1
  <2>4. (Block - p) % Block = Block - p
    <3>1. (0 * Block + (Block - p)) % Block = Block - p
      BY <1>2, <2>2
    <3>2. 0 * Block + (Block - p) = Block - p
      BY <1>1, <2>2
    <3>3. QED
      BY <3>1, <3>2
  <2>5. r <= Block - 9
    BY <1>1, <1>5
  <2>6. QED
    BY <2>1, <2>2, <2>3, <2>4, <2>5
<1>6. CASE r = Block - 9
  <2>1. m * Block + r + 9 = (m + 1) * Block + 0 /\ 0 \in 0 .. Block - 1
    BY <1>1, <1>3, <1>6
  <2>2. ((m + 1) * Block + 0) % Block = 0
    BY <1>2, <1>4, <2>1
  <2>3. (Block - 0) % Block = 0
    <3>1. (1 * Block + 0) % Block = 0
      BY <1>2, <2>1
    <3>2. 1 * Block + 0 = Block - 0
      BY <1>1
    <3>3. QED
      BY <3>1, <3>2
  <2>4. r <= Block - 9 /\ Block - 9 - r = 0
    BY <1>1, <1>6
  <2>5. QED
    BY <2>1, <2>2, <2>3, <2>4
<1>7. CASE r > Block - 9
  <2> DEFINE p == r + 9 - Block
  <2>1. p \in 0 .. Block - 1 /\ m * Block + r + 9 = (m + 1) * Block + p
    BY <1>1, <1>3, <1>7
  <2>2. Block - p \in 0 .. Block - 1 /\ Block - p = 2 * Block - 9 - r
    BY <1>1, <1>7
  <2> HIDE DEF p
  <2>3. ((m + 1) * Block + p) % Block = p
    BY <1>2, <1>4, <2>1
  <2>4. (Block - p) % Block = Block - p
    <3>1. (0 * Block + (Block - p)) % Block = Block - p
      BY <1>2, <2>2
    <3>2. 0 * Block + (Block - p) = Block - p
      BY <1>1, <2>2
    <3>3. QED
      BY <3>1, <3>2
  <2>5. ~ (r <= Block - 9)
    BY <1>1, <1>7
  <2>6. QED
    BY <2>1, <2>2, <2>3, <2>4, <2>5
<1>8. QED
  BY <1>1, <1>5, <1>6, <1>7

\* The length as SHA-256 prescribes it is eight bytes.
LEMMA LengthBytes ==
  ASSUME NEW digits, NEW n \in Nat, DigitsOf(digits, n)
  PROVE  BigEndian(8 * n) \in Seq(Int) /\ Len(BigEndian(8 * n)) = 8
<1> DEFINE l == write_data_bit_length(digits)
           carry(k) == IF k = 1 THEN 0 ELSE digits[k - 1] \div (Digit \div 8)
           bits(k)  == ((digits[k] * 8) % Digit) + carry(k)
           f(b)     == IF b % 2 = 1 THEN bits((9 - b) \div 2) \div Byte
                                    ELSE bits((10 - b) \div 2) % Byte
<1>1. \A k \in 1 .. 4 : digits[k] \in Nat
  BY DEF DigitsOf
<1>2. ASSUME NEW k \in 1 .. 4 PROVE bits(k) \in Nat
  <2>1. (digits[k] * 8) % Digit \in Nat
    <3> DEFINE x == digits[k] * 8
    <3>1. x \in Nat
      BY <1>1
    <3> HIDE DEF x
    <3>2. x % Digit \in 0 .. Digit - 1 /\ Digit \in Nat
      BY <3>1, DigitSize, Division
    <3>3. x % Digit \in Nat
      BY <3>2
    <3>4. QED
      BY <3>3 DEF x
  <2>2. carry(k) \in Nat
    <3>1. CASE k = 1
      BY <3>1
    <3>2. CASE k # 1
      <4>1. digits[k - 1] \in Nat
        <5>1. k - 1 \in 1 .. 4
          BY <3>2
        <5>2. QED
          BY <1>1, <5>1
      <4>2. digits[k - 1] \div (Digit \div 8) \in Nat
        BY <4>1, DigitSize, Division
      <4>3. QED
        BY <3>2, <4>2
    <3>3. QED
      BY <3>1, <3>2
  <2> HIDE DEF carry
  <2>3. QED
    BY <2>1, <2>2
<1> HIDE DEF bits, carry
<1>3. ASSUME NEW b \in 1 .. 8 PROVE f(b) \in Int
  <2>1. PICK k \in 1 .. 4 :
           \/ /\ b = 9 - 2 * k /\ b % 2 = 1 /\ (9 - b) \div 2 = k
           \/ /\ b = 10 - 2 * k /\ b % 2 # 1 /\ (10 - b) \div 2 = k
    BY ByteOfDigit
  <2>2. bits(k) \in Nat
    BY <1>2
  <2>3. bits(k) \div Byte \in Int /\ bits(k) % Byte \in Int
    <3> DEFINE x == bits(k)
    <3> HIDE DEF x
    <3>1. x \in Nat
      BY <2>2 DEF x
    <3>2. x \div Byte \in Nat /\ x % Byte \in 0 .. Byte - 1 /\ Byte \in Nat
      BY <3>1, DigitSize, Division
    <3>3. QED
      BY <3>2 DEF x
  <2>4. f(b) = bits(k) \div Byte \/ f(b) = bits(k) % Byte
    BY <2>1
  <2> HIDE DEF f
  <2>5. QED
    BY <2>3, <2>4
<1>4. l = [b \in 1 .. 8 |-> f(b)]
  BY DEF write_data_bit_length, f, bits, carry
<1> HIDE DEF f, l
<1>5. l \in Seq(Int) /\ Len(l) = 8
  BY <1>3, <1>4
<1>6. QED
  BY <1>5, LengthWritten DEF l

\* finish: what was compressed and the last blocks are those of the padded message.
LEMMA FinishPads ==
  ASSUME NEW s \in Seq(Int), NEW bs \in Seq(Seq(Int)), NEW bf \in Seq(Int),
         Split(bs, bf, s), Len(bf) < Block,
         NEW digits, DigitsOf(digits, Len(s))
  PROVE  LET all == bs \o last_blocks(bf, write_data_bit_length(digits))
         IN  /\ all \in Seq(Seq(Int))
             /\ Len(Padded(s)) = Len(all) * Block
             /\ \A b \in DOMAIN all : all[b] = BlockOf(Padded(s), b)
<1> DEFINE l  == BigEndian(8 * Len(s))
           z  == (Block - ((Len(s) + 9) % Block)) % Block
           ls == last_blocks(bf, l)
           al == bs \o ls
           o  == <<>>
           nw == Frame(o, z, l)
           f  == Frame(s, z, l)
           t  == Frame(bf, z, l)
           a  == Len(bs) * Block
<1>1. Len(s) \in Nat /\ Len(bs) \in Nat /\ Len(bf) \in Nat /\ o \in Seq(Int) /\ Len(o) = 0
  BY EmptySeq
<1>2. write_data_bit_length(digits) = l /\ l \in Seq(Int) /\ Len(l) = 8
  BY <1>1, LengthWritten, LengthBytes
<1>3. Padded(s) = f
  BY DEF Padded, Frame
<1> HIDE DEF l, o
<1>4. z = IF Len(bf) <= Block - 9 THEN Block - 9 - Len(bf) ELSE 2 * Block - 9 - Len(bf)
  <2>1. Len(s) = Len(bs) * Block + Len(bf)
    BY DEF Split
  <2>2. Len(s) + 9 = Len(bs) * Block + Len(bf) + 9
    BY <2>1
  <2>3. (Block - ((Len(bs) * Block + Len(bf) + 9) % Block)) % Block =
           IF Len(bf) <= Block - 9 THEN Block - 9 - Len(bf) ELSE 2 * Block - 9 - Len(bf)
    BY <1>1, ZerosPrescribed
  <2>4. QED
    BY <2>2, <2>3
<1> HIDE DEF z
<1>5. z \in Nat
  <2>1. Block \in Nat /\ Block > 8
    BY ShaAssumption
  <2>2. QED
    BY <1>1, <1>4, <2>1
<1>6. /\ ls \in Seq(Seq(Int)) /\ BlocksOf(ls, t) /\ Len(t) = Len(ls) * Block
  BY <1>2, <1>4, <1>5, LastBlocks
<1>7. nw \in Seq(Int) /\ f = s \o nw /\ t = bf \o nw
  <2>2. o \in Seq(Int) /\ Len(o) = 0 /\ l \in Seq(Int) /\ z \in Nat
    BY <1>1, <1>2, <1>5
  <2> HIDE DEF nw, f, t
  <2>3. /\ Frame(o, z, l) \in Seq(Int)
        /\ Joined(Frame(s, z, l), s, Frame(o, z, l))
        /\ Joined(Frame(bf, z, l), bf, Frame(o, z, l))
    BY <2>2, FrameOfNothing
  <2>4. QED
    BY <2>3 DEF nw, f, t, Joined
<1>8. f \in Seq(Int) /\ t \in Seq(Int)
  BY <1>2, <1>5, FrameElements
<1> HIDE DEF nw, ls, t, f
<1>9. /\ BlocksOf(bs, f)
      /\ Len(f) = a + Len(t)
      /\ \A k \in 1 .. Len(t) : t[k] = f[a + k]
  <2>1. /\ BlocksOf(bs, s \o nw)
        /\ Len(s \o nw) = a + Len(bf \o nw)
        /\ \A k \in 1 .. Len(bf \o nw) : (bf \o nw)[k] = (s \o nw)[a + k]
    BY <1>7, MoreBytes, ZenonT(60) DEF Split
  <2>2. QED
    BY <1>7, <2>1
<1>10. BlocksOf(al, f)
  BY <1>6, <1>8, <1>9, BlocksFollow
<1>11. al \in Seq(Seq(Int)) /\ Len(al) = Len(bs) + Len(ls) /\ Len(ls) \in Nat
  BY <1>6, ConcatProperties
<1>12. Len(f) = Len(al) * Block
  <2>1. Len(al) * Block = a + Len(ls) * Block
    BY <1>1, <1>11, BlocksInOrder
  <2>2. QED
    BY <1>6, <1>9, <2>1
<1> HIDE DEF al
<1>13. \A b \in DOMAIN al : al[b] = BlockOf(f, b)
  <2>1. DOMAIN al = 1 .. Len(al)
    BY <1>11
  <2>2. QED
    BY <1>10, <2>1 DEF BlocksOf
<1>14. al = bs \o last_blocks(bf, write_data_bit_length(digits))
  BY <1>2 DEF al, ls
<1>15. QED
  BY <1>3, <1>11, <1>12, <1>13, <1>14

\* The bytes that are processed are numbers.
LEMMA BytesProcessed ==
  ASSUME NEW m \in Nat, NEW n \in Nat
  PROVE  /\ [k \in 1 .. n |-> MessageByte(m + k)] \in Seq(Int)
         /\ Len([k \in 1 .. n |-> MessageByte(m + k)]) = n
<1>1. \A k \in 1 .. n : MessageByte(m + k) \in Int
  BY ShaAssumption DEF MessageByte
<1>2. QED
  BY <1>1

\* The message so far is what was compressed and what waits, and is counted.
Streamed ==
  /\ message \in Seq(Int)
  /\ buffer_ \in Seq(Int)
  /\ blocks \in Seq(Seq(Int))
  /\ DigitsOf(data_length_digits_, Len(message))
  /\ ~ finished => Len(buffer_) < Block /\ Split(blocks, buffer_, message)

\* Nothing is compressed, nothing waits, and nothing is counted.
LEMMA NothingStreamed ==
  ASSUME NEW s, NEW bs, s = <<>>, bs = <<>>
  PROVE  /\ s \in Seq(Int) /\ bs \in Seq(Seq(Int)) /\ Len(s) = 0
         /\ Len(s) < Block /\ Split(bs, s, s)
<1>1. s \in Seq(Int) /\ Len(s) = 0 /\ bs \in Seq(Seq(Int)) /\ Len(bs) = 0
  BY EmptySeq
<1>2. Block \in Nat /\ 0 < Block /\ 0 * Block = 0
  BY ShaAssumption
<1>3. BlocksOf(bs, s)
  BY <1>1, <1>2 DEF BlocksOf
<1>4. QED
  BY <1>1, <1>2, <1>3 DEF Split

\* init, and again, which calls it.
LEMMA BeginStreamed == init => Streamed
<1> SUFFICES ASSUME init PROVE Streamed
  OBVIOUS
<1>1. DigitsOf(data_length_digits_, 0)
  BY NoLength DEF init
<1>2. message = <<>> /\ buffer_ = message /\ blocks = <<>>
  BY DEF init
<1>3. /\ message \in Seq(Int) /\ blocks \in Seq(Seq(Int)) /\ Len(message) = 0
      /\ Len(message) < Block /\ Split(blocks, message, message)
  BY <1>2, NothingStreamed
<1>4. QED
  BY <1>1, <1>2, <1>3 DEF Streamed

\* A call of process.
LEMMA ProcessStreamed ==
  ASSUME Streamed, NEW n \in Nat, process(n)
  PROVE  Streamed' /\ ~ finished'
<1> DEFINE bytes == [k \in 1 .. n |-> MessageByte(Len(message) + k)]
<1>1. /\ message' = message \o bytes
      /\ data_length_digits_' = add_to_data_length(data_length_digits_, n)
      /\ blocks' = blocks \o Cut(buffer_ \o bytes)
      /\ buffer_' = Rest(buffer_ \o bytes)
      /\ ~ finished /\ finished' = finished
  BY DEF process
<1>2. /\ message \in Seq(Int) /\ buffer_ \in Seq(Int) /\ blocks \in Seq(Seq(Int))
      /\ DigitsOf(data_length_digits_, Len(message))
      /\ Split(blocks, buffer_, message) /\ Len(message) \in Nat
  BY <1>1 DEF Streamed
<1>3. bytes \in Seq(Int) /\ Len(bytes) = n
  BY <1>2, BytesProcessed
<1> HIDE DEF bytes
<1>4. /\ blocks' \in Seq(Seq(Int)) /\ buffer_' \in Seq(Int) /\ Len(buffer_') < Block
      /\ Split(blocks', buffer_', message')
  BY <1>1, <1>2, <1>3, ProcessSplits
<1>5. message' \in Seq(Int) /\ Len(message') = Len(message) + n
  BY <1>1, <1>2, <1>3, ConcatProperties
<1>6. DigitsOf(data_length_digits_', Len(message'))
  BY <1>1, <1>2, <1>5, LengthAdded
<1>7. QED
  BY <1>1, <1>4, <1>5, <1>6 DEF Streamed

\* finish.
LEMMA FinishStreamed ==
  ASSUME Streamed, finish
  PROVE  Streamed' /\ BlocksOfThePaddedMessage'
<1> DEFINE all == blocks \o last_blocks(buffer_, write_data_bit_length(data_length_digits_))
<1>1. /\ blocks' = all /\ finished' = TRUE /\ ~ finished
      /\ message' = message /\ buffer_' = buffer_ /\ data_length_digits_' = data_length_digits_
  BY DEF finish
<1>2. /\ message \in Seq(Int) /\ buffer_ \in Seq(Int) /\ blocks \in Seq(Seq(Int))
      /\ DigitsOf(data_length_digits_, Len(message))
      /\ Split(blocks, buffer_, message) /\ Len(buffer_) < Block
  BY <1>1 DEF Streamed
<1>3. /\ all \in Seq(Seq(Int))
      /\ Len(Padded(message)) = Len(all) * Block
      /\ \A b \in DOMAIN all : all[b] = BlockOf(Padded(message), b)
  BY <1>2, FinishPads
<1> HIDE DEF all
<1>4. Streamed'
  BY <1>1, <1>2, <1>3 DEF Streamed
<1>5. Padded(message') = Padded(message)
  BY <1>1
<1>6. /\ Len(Padded(message)) = Len(blocks') * Block
      /\ \A b \in DOMAIN blocks' :
           blocks'[b] = SubSeq(Padded(message), (b - 1) * Block + 1, b * Block)
  BY <1>1, <1>3 DEF BlockOf
<1>7. BlocksOfThePaddedMessage'
  BY <1>1, <1>6 DEF BlocksOfThePaddedMessage
<1>8. QED
  BY <1>4, <1>7

\* However the bytes come, what is compressed is the padded message, block by
\* block (picosha2, hash256_one_by_one::process and finish).
THEOREM StreamedIsThePadded == ShaSpec => [](Streamed /\ BlocksOfThePaddedMessage)
<1> DEFINE Inv == Streamed /\ BlocksOfThePaddedMessage
<1>1. init => Inv
  <2> SUFFICES ASSUME init PROVE Inv
    OBVIOUS
  <2>1. ~ finished
    BY DEF init
  <2>2. QED
    BY <2>1, BeginStreamed DEF BlocksOfThePaddedMessage
<1>2. Inv /\ [ShaNext]_shaVars => Inv'
  <2> SUFFICES ASSUME Inv, [ShaNext]_shaVars PROVE Inv'
    OBVIOUS
  <2>1. CASE finish
    BY <2>1, FinishStreamed
  <2>2. CASE again
    <3>1. init'
      BY <2>2 DEF again, init
    <3>2. Streamed'
      BY <3>1, BeginStreamed, PTL
    <3>3. ~ finished'
      BY <2>2 DEF again
    <3>4. QED
      BY <3>2, <3>3 DEF BlocksOfThePaddedMessage
  <2>3. ASSUME NEW n \in CallSizes, process(n) PROVE Inv'
    <3>1. n \in Nat
      BY ShaAssumption
    <3>2. Streamed' /\ ~ finished'
      BY <2>3, <3>1, ProcessStreamed
    <3>3. QED
      BY <3>2 DEF BlocksOfThePaddedMessage
  <2>4. CASE UNCHANGED shaVars
    <3>1. /\ message' = message /\ buffer_' = buffer_ /\ blocks' = blocks
          /\ data_length_digits_' = data_length_digits_ /\ finished' = finished
      BY <2>4 DEF shaVars
    <3>2. Streamed'
      BY <3>1 DEF Streamed
    <3>3. Padded(message') = Padded(message)
      BY <3>1
    <3>4. BlocksOfThePaddedMessage'
      BY <3>1, <3>3 DEF BlocksOfThePaddedMessage
    <3>5. QED
      BY <3>2, <3>4
  <2>5. QED
    BY <2>1, <2>2, <2>3, <2>4 DEF ShaNext
<1>3. QED
  BY <1>1, <1>2, PTL DEF ShaSpec

(***************************************************************************)
(* The text of the objects.                                                *)
(***************************************************************************)
\* A field is any token that is not a newline.
FieldValues(t) == Seq(Nat) \ {newline}

Parts1 == {"group", "number"}
Parts2 == Parts1 \cup {"Dleq", "DleqDual"}
Parts3 == Parts2 \cup {"Decomposition"}
Parts4 == Parts3 \cup {"Aggregate"}

P1 == INSTANCE TextClassProofs WITH
  PartFresh <- FieldFresh, PartSample <- FieldSample, PartText <- FieldText,
  PartParse <- Field, Parts <- Parts1, PartValues <- FieldValues
P2 == INSTANCE TextClassProofs WITH
  PartFresh <- OfFields!Fresh, PartSample <- OfFields!Sample, PartText <- OfFields!Text,
  PartParse <- OfFields!Parse, Parts <- Parts2, PartValues <- P1!Values
P3 == INSTANCE TextClassProofs WITH
  PartFresh <- OfProofs!Fresh, PartSample <- OfProofs!Sample, PartText <- OfProofs!Text,
  PartParse <- OfProofs!Parse, Parts <- Parts3, PartValues <- P2!Values
P4 == INSTANCE TextClassProofs WITH
  PartFresh <- OfDecompositions!Fresh, PartSample <- OfDecompositions!Sample,
  PartText <- OfDecompositions!Text, PartParse <- OfDecompositions!Parse,
  Parts <- Parts4, PartValues <- P3!Values

\* The objects that TextClassProofs speaks of are those of TextStreams: of fields,
LEMMA Same1 ==
  /\ \A t : P1!Fresh(t) = OfFields!Fresh(t)
  /\ \A t, n, tag : P1!Sample(t, n, tag) = OfFields!Sample(t, n, tag)
  /\ \A t, v : P1!Text(t, v) = OfFields!Text(t, v)
  /\ \A t, r : P1!Parse(t, r) = OfFields!Parse(t, r)
<1>1. \A t : P1!Fresh(t) = OfFields!Fresh(t)
  BY DEF P1!Fresh, OfFields!Fresh, P1!Types, OfFields!Types, P1!Names, OfFields!Names,
         P1!Step, OfFields!Step, P1!Place, OfFields!Place
<1>2. \A t, n, tag : P1!Sample(t, n, tag) = OfFields!Sample(t, n, tag)
  BY DEF P1!Sample, OfFields!Sample, P1!Types, OfFields!Types, P1!Names, OfFields!Names,
         P1!Step, OfFields!Step, P1!Place, OfFields!Place
<1>3. \A t, v : P1!Text(t, v) = OfFields!Text(t, v)
  BY SMTT(60) DEF P1!Text, OfFields!Text, P1!Types, OfFields!Types, P1!StepText,
         OfFields!StepText, P1!VectorText, OfFields!VectorText, P1!FlattenSeq,
         OfFields!FlattenSeq, P1!newline, OfFields!newline
<1>4. \A t, r : P1!Parse(t, r) = OfFields!Parse(t, r)
  BY DEF P1!Parse, OfFields!Parse, P1!Types, OfFields!Types, P1!Do, OfFields!Do,
         P1!Member, OfFields!Member, P1!Vector, OfFields!Vector, P1!Sized,
         OfFields!Sized, P1!Elements, OfFields!Elements, P1!Element, OfFields!Element,
         P1!Before, OfFields!Before, P1!Count, OfFields!Count, P1!Kept, OfFields!Kept,
         P1!Last, OfFields!Last, P1!consume_NEWLINE, OfFields!consume_NEWLINE,
         P1!Failed, OfFields!Failed, P1!newline, OfFields!newline
<1> QED BY <1>1, <1>2, <1>3, <1>4

\* of proofs,
LEMMA Same2 ==
  /\ \A t : P2!Fresh(t) = OfProofs!Fresh(t)
  /\ \A t, n, tag : P2!Sample(t, n, tag) = OfProofs!Sample(t, n, tag)
  /\ \A t, v : P2!Text(t, v) = OfProofs!Text(t, v)
  /\ \A t, r : P2!Parse(t, r) = OfProofs!Parse(t, r)
<1>1. \A t : P2!Fresh(t) = OfProofs!Fresh(t)
  BY DEF P2!Fresh, OfProofs!Fresh, P2!Types, OfProofs!Types, P2!Names, OfProofs!Names,
         P2!Step, OfProofs!Step, P2!Place, OfProofs!Place
<1>2. \A t, n, tag : P2!Sample(t, n, tag) = OfProofs!Sample(t, n, tag)
  BY DEF P2!Sample, OfProofs!Sample, P2!Types, OfProofs!Types, P2!Names, OfProofs!Names,
         P2!Step, OfProofs!Step, P2!Place, OfProofs!Place
<1>3. \A t, v : P2!Text(t, v) = OfProofs!Text(t, v)
  BY SMTT(60) DEF P2!Text, OfProofs!Text, P2!Types, OfProofs!Types, P2!StepText,
         OfProofs!StepText, P2!VectorText, OfProofs!VectorText, P2!FlattenSeq,
         OfProofs!FlattenSeq, P2!newline, OfProofs!newline
<1>4. \A t, r : P2!Parse(t, r) = OfProofs!Parse(t, r)
  BY DEF P2!Parse, OfProofs!Parse, P2!Types, OfProofs!Types, P2!Do, OfProofs!Do,
         P2!Member, OfProofs!Member, P2!Vector, OfProofs!Vector, P2!Sized,
         OfProofs!Sized, P2!Elements, OfProofs!Elements, P2!Element, OfProofs!Element,
         P2!Before, OfProofs!Before, P2!Count, OfProofs!Count, P2!Kept, OfProofs!Kept,
         P2!Last, OfProofs!Last, P2!consume_NEWLINE, OfProofs!consume_NEWLINE,
         P2!Failed, OfProofs!Failed, P2!newline, OfProofs!newline
<1> QED BY <1>1, <1>2, <1>3, <1>4

\* of decompositions
LEMMA Same3 ==
  /\ \A t : P3!Fresh(t) = OfDecompositions!Fresh(t)
  /\ \A t, n, tag : P3!Sample(t, n, tag) = OfDecompositions!Sample(t, n, tag)
  /\ \A t, v : P3!Text(t, v) = OfDecompositions!Text(t, v)
  /\ \A t, r : P3!Parse(t, r) = OfDecompositions!Parse(t, r)
<1>1. \A t : P3!Fresh(t) = OfDecompositions!Fresh(t)
  BY DEF P3!Fresh, OfDecompositions!Fresh, P3!Types, OfDecompositions!Types, P3!Names,
         OfDecompositions!Names, P3!Step, OfDecompositions!Step, P3!Place,
         OfDecompositions!Place
<1>2. \A t, n, tag : P3!Sample(t, n, tag) = OfDecompositions!Sample(t, n, tag)
  BY DEF P3!Sample, OfDecompositions!Sample, P3!Types, OfDecompositions!Types, P3!Names,
         OfDecompositions!Names, P3!Step, OfDecompositions!Step, P3!Place,
         OfDecompositions!Place
<1>3. \A t, v : P3!Text(t, v) = OfDecompositions!Text(t, v)
  BY DEF P3!Text, OfDecompositions!Text, P3!Types, OfDecompositions!Types, P3!StepText,
         OfDecompositions!StepText, P3!VectorText, OfDecompositions!VectorText,
         P3!FlattenSeq, OfDecompositions!FlattenSeq, P3!newline,
         OfDecompositions!newline
<1>4. \A t, r : P3!Parse(t, r) = OfDecompositions!Parse(t, r)
  BY DEF P3!Parse, OfDecompositions!Parse, P3!Types, OfDecompositions!Types, P3!Do,
         OfDecompositions!Do, P3!Member, OfDecompositions!Member, P3!Vector,
         OfDecompositions!Vector, P3!Sized, OfDecompositions!Sized, P3!Elements,
         OfDecompositions!Elements, P3!Element, OfDecompositions!Element, P3!Before,
         OfDecompositions!Before, P3!Count, OfDecompositions!Count, P3!Kept,
         OfDecompositions!Kept, P3!Last, OfDecompositions!Last, P3!consume_NEWLINE,
         OfDecompositions!consume_NEWLINE, P3!Failed, OfDecompositions!Failed,
         P3!newline, OfDecompositions!newline
<1> QED BY <1>1, <1>2, <1>3, <1>4

\* and of aggregates.
LEMMA Same4 ==
  /\ \A t : P4!Fresh(t) = OfAggregates!Fresh(t)
  /\ \A t, n, tag : P4!Sample(t, n, tag) = OfAggregates!Sample(t, n, tag)
  /\ \A t, v : P4!Text(t, v) = OfAggregates!Text(t, v)
  /\ \A t, r : P4!Parse(t, r) = OfAggregates!Parse(t, r)
<1>1. \A t : P4!Fresh(t) = OfAggregates!Fresh(t)
  BY DEF P4!Fresh, OfAggregates!Fresh, P4!Types, OfAggregates!Types, P4!Names,
         OfAggregates!Names, P4!Step, OfAggregates!Step, P4!Place, OfAggregates!Place
<1>2. \A t, n, tag : P4!Sample(t, n, tag) = OfAggregates!Sample(t, n, tag)
  BY DEF P4!Sample, OfAggregates!Sample, P4!Types, OfAggregates!Types, P4!Names,
         OfAggregates!Names, P4!Step, OfAggregates!Step, P4!Place, OfAggregates!Place
<1>3. \A t, v : P4!Text(t, v) = OfAggregates!Text(t, v)
  BY DEF P4!Text, OfAggregates!Text, P4!Types, OfAggregates!Types, P4!StepText,
         OfAggregates!StepText, P4!VectorText, OfAggregates!VectorText, P4!FlattenSeq,
         OfAggregates!FlattenSeq, P4!newline, OfAggregates!newline
<1>4. \A t, r : P4!Parse(t, r) = OfAggregates!Parse(t, r)
  BY DEF P4!Parse, OfAggregates!Parse, P4!Types, OfAggregates!Types, P4!Do,
         OfAggregates!Do, P4!Member, OfAggregates!Member, P4!Vector,
         OfAggregates!Vector, P4!Sized, OfAggregates!Sized, P4!Elements,
         OfAggregates!Elements, P4!Element, OfAggregates!Element, P4!Before,
         OfAggregates!Before, P4!Count, OfAggregates!Count, P4!Kept, OfAggregates!Kept,
         P4!Last, OfAggregates!Last, P4!consume_NEWLINE, OfAggregates!consume_NEWLINE,
         P4!Failed, OfAggregates!Failed, P4!newline, OfAggregates!newline
<1> QED BY <1>1, <1>2, <1>3, <1>4

-----------------------------------------------------------------------------
\* A field that is written is read, past no newline.
LEMMA FieldsRead == P1!PartsRead
<1>1. ASSUME NEW t, NEW v \in FieldValues(t), NEW old, NEW s \in Seq(Seq(Nat))
      PROVE  /\ FieldText(t, v) \in Seq(Seq(Nat))
             /\ Field(t, [v |-> old, rest |-> FieldText(t, v) \o s, ok |-> TRUE])
                  = [v |-> v, rest |-> s, ok |-> TRUE]
  <2> DEFINE u == <<v>> \o s
  <2>1. v \in Seq(Nat) /\ v # newline
    BY DEF FieldValues
  <2>2. u \in Seq(Seq(Nat)) /\ u # <<>> /\ Head(u) = v /\ Tail(u) = s /\ u[1] = v /\ Len(u) > 0
    <3> DEFINE T == Seq(Nat)
    <3>1. v \in T /\ s \in Seq(T)
      BY <2>1
    <3> HIDE DEF T
    <3>2. u \in Seq(T) /\ u # <<>> /\ Head(u) = v /\ Tail(u) = s /\ u[1] = v /\ Len(u) > 0
      BY <3>1
    <3> HIDE DEF u
    <3> QED BY <3>2 DEF T
  <2> HIDE DEF u
  <2>3. Spaceless(u) = u
    <3> DEFINE Blank(k) == /\ \A j \in 1 .. k : u[j] = newline
                           /\ k < Len(u) => u[k + 1] # newline
               n        == CHOOSE k \in 0 .. Len(u) : Blank(k)
    <3>1. Len(u) \in Nat
      BY <2>2
    <3>2. Blank(0)
      BY <2>1, <2>2
    <3>3. ASSUME NEW k \in 0 .. Len(u), Blank(k) PROVE k = 0
      BY <2>1, <2>2, <3>3
    <3>4. n = 0
      <4> HIDE DEF Blank
      <4>1. 0 \in 0 .. Len(u)
        BY <3>1
      <4> QED BY <3>2, <3>3, <4>1
    <3>5. Spaceless(u) = SubSeq(u, n + 1, Len(u))
      BY DEF Spaceless
    <3>6. SubSeq(u, 0 + 1, Len(u)) = u
      BY <2>2
    <3> HIDE DEF n
    <3> QED BY <3>4, <3>5, <3>6
  <2>4. ASSUME NEW ok PROVE
          LET r == [v |-> old, rest |-> u, ok |-> ok]
          IN  Field(t, r) = [v |-> v, rest |-> s, ok |-> ok]
    BY <2>1, <2>2, <2>3 DEF Field
  <2>5. FieldText(t, v) \in Seq(Seq(Nat)) /\ FieldText(t, v) \o s = u
    BY <2>1 DEF FieldText, u
  <2>6. Field(t, [v |-> old, rest |-> u, ok |-> TRUE]) = [v |-> v, rest |-> s, ok |-> TRUE]
    BY <2>4
  <2> QED BY <2>5, <2>6
<1>2. \A n \in Nat : <<n>> \in Seq(Nat) \ {newline}
  BY DEF newline
<1>3. ASSUME NEW t PROVE P1!PartReads(t)
  <2>1. FieldFresh(t) \in FieldValues(t)
    BY <1>2 DEF FieldFresh, FieldValues
  <2>2. \A n \in Nat, tag \in P1!Fields : FieldSample(t, n, tag) \in FieldValues(t)
    BY DEF FieldSample, FieldValues, P1!Fields, P1!Tokens, P1!newline, newline
  <2>3. \A v \in FieldValues(t) : FieldText(t, v) \in Seq(Seq(Nat))
    <3>1. <<>> \in Seq(Seq(Nat))
      OBVIOUS
    <3> QED BY <1>1, <3>1
  <2>4. \A v, old \in FieldValues(t), s \in Seq(Seq(Nat)) :
           Field(t, [v |-> old, rest |-> FieldText(t, v) \o s, ok |-> TRUE])
             = [v |-> v, rest |-> s, ok |-> TRUE]
    BY <1>1, ZenonT(60)
  <2> QED BY <2>1, <2>2, <2>3, <2>4 DEF P1!PartReads, P1!Streams, P1!Tokens, P1!Given, P1!Reading
<1> QED BY <1>2, <1>3 DEF P1!PartsRead, Parts1, FieldValues

-----------------------------------------------------------------------------
(* The scripts of a writer and a reader agree.                             *)

\* The reader's step r takes what the writer's step w puts, a part of a type of ts or
\* a vector of them, in a member of names; vectors are read as how says.
StepAgrees(w, r, ts, names, how) ==
  /\ r.name = w.name /\ r.of = w.of
  /\ \/ w.does = "line" /\ r.does = "line" /\ w.name = ""
     \/ /\ w.name # "" /\ w.name \in names /\ w.of \in ts
        /\ \/ w.does = "part" /\ r.does = "part"
           \/ /\ w.does = "vector" /\ r.does \in how
              /\ r.does \in {"cleared", "appended", "resized"}
           \/ w.does = "maybe" /\ r.does = "maybe" /\ "maybe" \in how

\* Two steps are of two members.
Apart(w, u) == w.name = u.name => w.name = ""

Agree(ws, rs, ts, names, how) ==
  /\ \E S : ws \in Seq(S) /\ rs \in Seq(S)
  /\ Len(rs) = Len(ws)
  /\ \A p \in 1 .. Len(ws) : StepAgrees(ws[p], rs[p], ts, names, how)
  /\ \A p, q \in 1 .. Len(ws) : p < q => Apart(ws[p], ws[q])

\* An odd line is that of the part in the middle of the lines up to it.
LEMMA Halves ==
  ASSUME NEW n \in Nat, NEW k \in 1 .. 2 * n, k % 2 = 1
  PROVE  (k + 1) \div 2 \in 1 .. n /\ k = 2 * ((k + 1) \div 2) - 1
<1> DEFINE q == k \div 2
           h == (k + 1) \div 2
           r == (k + 1) % 2
<1>1. q \in Nat /\ k = 2 * q + 1
  BY Division
<1>2. h \in Nat /\ r \in 0 .. 1 /\ k + 1 = 2 * h + r
  BY Division
<1> HIDE DEF q, h, r
<1>3. r = 0 /\ h = q + 1
  BY <1>1, <1>2
<1>4. h \in 1 .. n /\ k = 2 * h - 1
  BY <1>1, <1>3
<1> QED BY <1>4 DEF h

\* A part of one of the types, in a member of names.
IsPart(step, ts, names) ==
  step.does = "part" /\ step.of \in ts /\ step.name # "" /\ step.name \in names

\* Parts on lines of their own, written and read by one script.
LEMMA PartsAgree ==
  ASSUME NEW ts, NEW names, NEW how, NEW S, NEW ps \in Seq(S),
         \A k \in 1 .. Len(ps) : IsPart(ps[k], ts, names),
         \A j, k \in 1 .. Len(ps) : j < k => Apart(ps[j], ps[k])
  PROVE  Agree(Lines(ps), Lines(ps), ts, names, how)
<1> DEFINE ws == Lines(ps)
           n  == Len(ps)
<1>1. n \in Nat
  OBVIOUS
<1>2. line.does = "line" /\ line.name = ""
  BY DEF line
<1>3. ws = [k \in 1 .. 2 * n |-> IF k % 2 = 1 THEN ps[(k + 1) \div 2] ELSE line]
  BY DEF Lines
<1> HIDE DEF ws
<1>4. ASSUME NEW k \in 1 .. 2 * n
      PROVE  \/ \E h \in 1 .. n : k = 2 * h - 1 /\ ws[k] = ps[h]
             \/ ws[k] = line
  <2>1. ws[k] = IF k % 2 = 1 THEN ps[(k + 1) \div 2] ELSE line
    BY <1>3
  <2>2. CASE k % 2 = 1
    <3>1. (k + 1) \div 2 \in 1 .. n /\ k = 2 * ((k + 1) \div 2) - 1
      BY <1>1, <2>2, Halves
    <3> QED BY <2>1, <2>2, <3>1
  <2>3. CASE k % 2 # 1
    BY <2>1, <2>3
  <2> QED BY <2>2, <2>3
<1> DEFINE T == S \cup {line}
           l == 2 * n
<1>5. \A k \in 1 .. l : ws[k] \in T
  <2>1. \A h \in 1 .. n : ps[h] \in S
    OBVIOUS
  <2> QED BY <1>4, <2>1
<1>6. ws \in Seq(T) /\ Len(ws) = l
  <2>1. l \in Nat
    BY <1>1
  <2>2. ws \in [1 .. l -> T]
    BY <1>3, <1>5
  <2> HIDE DEF T, l
  <2> QED BY <2>1, <2>2
<1>7. ASSUME NEW p \in 1 .. 2 * n PROVE StepAgrees(ws[p], ws[p], ts, names, how)
  <2>1. CASE ws[p] = line
    BY <1>2, <2>1 DEF StepAgrees
  <2>2. CASE \E h \in 1 .. n : p = 2 * h - 1 /\ ws[p] = ps[h]
    BY <2>2 DEF StepAgrees, IsPart
  <2> QED BY <1>4, <2>1, <2>2
<1>8. ASSUME NEW p \in 1 .. 2 * n, NEW q \in 1 .. 2 * n, p < q PROVE Apart(ws[p], ws[q])
  <2>1. CASE ws[p] = line
    BY <1>2, <2>1 DEF Apart
  <2>2. CASE ws[q] = line
    BY <1>2, <2>2 DEF Apart
  <2>3. CASE ws[p] # line /\ ws[q] # line
    <3>1. PICK h \in 1 .. n : p = 2 * h - 1 /\ ws[p] = ps[h]
      BY <1>4, <2>3
    <3>2. PICK j \in 1 .. n : q = 2 * j - 1 /\ ws[q] = ps[j]
      BY <1>4, <2>3
    <3>3. h < j
      BY <1>8, <3>1, <3>2
    <3> QED BY <3>1, <3>2, <3>3
  <2> QED BY <2>1, <2>2, <2>3
<1>9. Agree(ws, ws, ts, names, how)
  <2> HIDE DEF T
  <2> QED BY <1>6, <1>7, <1>8 DEF Agree
<1> QED BY <1>9 DEF ws

\* Scripts joined, of members with other names.
LEMMA JoinedAgree ==
  ASSUME NEW ts, NEW how, NEW some, NEW others, some \cap others = {},
         NEW a, NEW b, Agree(a, b, ts, some, how), NEW c, NEW d, Agree(c, d, ts, others, how)
  PROVE  Agree(a \o c, b \o d, ts, some \cup others, how)
<1> DEFINE n == Len(a)
           m == Len(c)
           w == a \o c
           r == b \o d
<1>0. PICK A, C : a \in Seq(A) /\ b \in Seq(A) /\ c \in Seq(C) /\ d \in Seq(C)
  BY DEF Agree
<1> DEFINE S == A \cup C
<1>1. /\ a \in Seq(S) /\ b \in Seq(S) /\ c \in Seq(S) /\ d \in Seq(S)
      /\ Len(b) = n /\ Len(d) = m
  <2>1. ASSUME NEW X, NEW u \in Seq(X), X \subseteq S PROVE u \in Seq(S)
    <3> DEFINE k == Len(u)
    <3>1. k \in Nat /\ u \in [1 .. k -> X]
      OBVIOUS
    <3> HIDE DEF S, k
    <3>2. u \in [1 .. k -> S]
      BY <2>1, <3>1
    <3> QED BY <3>1, <3>2
  <2>2. A \subseteq S /\ C \subseteq S
    OBVIOUS
  <2>3. Len(b) = n /\ Len(d) = m
    BY DEF Agree
  <2> HIDE DEF S
  <2> QED BY <1>0, <2>1, <2>2, <2>3
<1>2. /\ \A p \in 1 .. n : StepAgrees(a[p], b[p], ts, some, how)
      /\ \A p, q \in 1 .. n : p < q => Apart(a[p], a[q])
      /\ \A p \in 1 .. m : StepAgrees(c[p], d[p], ts, others, how)
      /\ \A p, q \in 1 .. m : p < q => Apart(c[p], c[q])
  BY DEF Agree
<1> HIDE DEF S
<1>3. /\ n \in Nat /\ m \in Nat
      /\ w \in Seq(S) /\ r \in Seq(S) /\ Len(w) = n + m /\ Len(r) = n + m
  BY <1>1
<1>4. ASSUME NEW p \in 1 .. n + m
      PROVE  \/ p \in 1 .. n /\ w[p] = a[p] /\ r[p] = b[p]
             \/ ~ p <= n /\ p - n \in 1 .. m /\ w[p] = c[p - n] /\ r[p] = d[p - n]
  BY <1>1
<1> HIDE DEF w, r, n, m
<1>5. ASSUME NEW p \in 1 .. n + m PROVE StepAgrees(w[p], r[p], ts, some \cup others, how)
  <2>1. CASE p \in 1 .. n /\ w[p] = a[p] /\ r[p] = b[p]
    <3>1. StepAgrees(w[p], r[p], ts, some, how)
      BY <1>2, <2>1
    <3> QED BY <3>1 DEF StepAgrees
  <2>2. CASE p - n \in 1 .. m /\ w[p] = c[p - n] /\ r[p] = d[p - n]
    <3>1. StepAgrees(w[p], r[p], ts, others, how)
      BY <1>2, <2>2
    <3> QED BY <3>1 DEF StepAgrees
  <2> QED BY <1>4, <2>1, <2>2
<1>6. ASSUME NEW x, NEW y, NEW u, NEW z,
             StepAgrees(x, u, ts, some, how), StepAgrees(y, z, ts, others, how)
      PROVE  Apart(x, y)
  BY <1>6 DEF StepAgrees, Apart
<1>7. ASSUME NEW p \in 1 .. n + m, NEW q \in 1 .. n + m, p < q PROVE Apart(w[p], w[q])
  <2>1. CASE p \in 1 .. n /\ w[p] = a[p] /\ q \in 1 .. n /\ w[q] = a[q]
    BY <1>2, <1>7, <2>1
  <2>2. CASE p \in 1 .. n /\ w[p] = a[p] /\ q - n \in 1 .. m /\ w[q] = c[q - n]
    BY <1>2, <1>6, <2>2
  <2>3. CASE p - n \in 1 .. m /\ w[p] = c[p - n] /\ q - n \in 1 .. m /\ w[q] = c[q - n]
    <3>1. p - n < q - n
      BY <1>3, <1>7
    <3> QED BY <1>2, <2>3, <3>1
  <2>4. ~ (~ p <= n /\ q \in 1 .. n)
    BY <1>3, <1>7
  <2> QED BY <1>4, <2>1, <2>2, <2>3, <2>4
<1>8. Agree(w, r, ts, some \cup others, how)
  <2>1. w \in Seq(S) /\ r \in Seq(S) /\ Len(r) = Len(w) /\ Len(w) = n + m
    BY <1>3
  <2> QED BY <1>5, <1>7, <2>1 DEF Agree
<1> QED BY <1>8 DEF w, r

\* Members with two names are two.
LEMMA PartStep ==
  ASSUME NEW name, NEW t, NEW ts, NEW names
  PROVE  /\ t \in ts /\ name # "" /\ name \in names => IsPart(part(name, t), ts, names)
         /\ \A other, u : name # other => Apart(part(name, t), part(other, u))
BY DEF part, IsPart, Apart

\* A vector that is read in a way its reader may.
LEMMA VectorStep ==
  ASSUME NEW name, NEW t, NEW ts, NEW names, NEW how
  PROVE  /\ t \in ts /\ name # "" /\ name \in names =>
              /\ "cleared" \in how => StepAgrees(vector(name, t), cleared(name, t), ts, names, how)
              /\ "appended" \in how => StepAgrees(vector(name, t), appended(name, t), ts, names, how)
              /\ "resized" \in how => StepAgrees(vector(name, t), resized(name, t), ts, names, how)
              /\ "maybe" \in how => StepAgrees(maybe(name, t), maybe(name, t), ts, names, how)
         /\ \A other, u : name # other => Apart(vector(name, t), vector(other, u))
BY DEF vector, cleared, appended, resized, maybe, StepAgrees, Apart

\* Parts on lines of their own, each read as it is written.
LEMMA OnePart ==
  ASSUME NEW ts, NEW names, NEW how, NEW x,
         IsPart(x, ts, names)
  PROVE  Agree(Lines(<<x>>), Lines(<<x>>), ts, names, how)
<1> DEFINE ps == <<x>>
<1>1. ps \in Seq({x}) /\ Len(ps) = 1
      /\ ps[1] = x
  OBVIOUS
<1> HIDE DEF ps
<1>2. Agree(Lines(ps), Lines(ps), ts, names, how)
  BY <1>1, PartsAgree
<1> QED BY <1>2 DEF ps

\* Two of them.
LEMMA TwoParts ==
  ASSUME NEW ts, NEW names, NEW how, NEW x, NEW y,
         IsPart(x, ts, names), IsPart(y, ts, names), Apart(x, y)
  PROVE  Agree(Lines(<<x, y>>), Lines(<<x, y>>), ts, names, how)
<1> DEFINE ps == <<x, y>>
<1>1. ps \in Seq({x, y}) /\ Len(ps) = 2
      /\ ps[1] = x /\ ps[2] = y
  OBVIOUS
<1> HIDE DEF ps
<1>2. Agree(Lines(ps), Lines(ps), ts, names, how)
  BY <1>1, PartsAgree
<1> QED BY <1>2 DEF ps

\* Three.
LEMMA ThreeParts ==
  ASSUME NEW ts, NEW names, NEW how, NEW x, NEW y, NEW z,
         IsPart(x, ts, names), IsPart(y, ts, names), IsPart(z, ts, names), Apart(x, y),
         Apart(x, z), Apart(y, z)
  PROVE  Agree(Lines(<<x, y, z>>), Lines(<<x, y, z>>), ts, names, how)
<1> DEFINE ps == <<x, y, z>>
<1>1. ps \in Seq({x, y, z}) /\ Len(ps) = 3
      /\ ps[1] = x /\ ps[2] = y /\ ps[3] = z
  OBVIOUS
<1> HIDE DEF ps
<1>2. Agree(Lines(ps), Lines(ps), ts, names, how)
  BY <1>1, PartsAgree
<1> QED BY <1>2 DEF ps

\* Six.
LEMMA SixParts ==
  ASSUME NEW ts, NEW names, NEW how, NEW a, NEW b, NEW c, NEW x, NEW y, NEW z,
         IsPart(a, ts, names), IsPart(b, ts, names), IsPart(c, ts, names),
         IsPart(x, ts, names), IsPart(y, ts, names), IsPart(z, ts, names), Apart(a, b),
         Apart(a, c), Apart(a, x), Apart(a, y), Apart(a, z), Apart(b, c), Apart(b, x),
         Apart(b, y), Apart(b, z), Apart(c, x), Apart(c, y), Apart(c, z), Apart(x, y),
         Apart(x, z), Apart(y, z)
  PROVE  Agree(Lines(<<a, b, c, x, y, z>>), Lines(<<a, b, c, x, y, z>>), ts, names, how)
<1> DEFINE ps == <<a, b, c, x, y, z>>
<1>1. ps \in Seq({a, b, c, x, y, z}) /\ Len(ps) = 6
      /\ ps[1] = a /\ ps[2] = b /\ ps[3] = c /\ ps[4] = x /\ ps[5] = y /\ ps[6] = z
  OBVIOUS
<1> HIDE DEF ps
<1>2. Agree(Lines(ps), Lines(ps), ts, names, how)
  BY <1>1, PartsAgree
<1> QED BY <1>2 DEF ps

\* Vectors, each read in one of the ways.
LEMMA OneVector ==
  ASSUME NEW ts, NEW names, NEW how, NEW v1, NEW r1,
         StepAgrees(v1, r1, ts, names, how)
  PROVE  Agree(<<v1>>, <<r1>>, ts, names, how)
<1> DEFINE S  == {v1, r1}
           ws == <<v1>>
           rs == <<r1>>
<1>1. ws \in Seq(S) /\ rs \in Seq(S) /\ Len(ws) = 1 /\ Len(rs) = 1
  OBVIOUS
<1>2. /\ ws[1] = v1 /\ rs[1] = r1
  OBVIOUS
<1> HIDE DEF S, ws, rs
<1>3. \A p \in 1 .. 1 : StepAgrees(ws[p], rs[p], ts, names, how)
  BY <1>2
<1>4. \A p, q \in 1 .. 1 : p < q => Apart(ws[p], ws[q])
  BY <1>2
<1>5. Agree(ws, rs, ts, names, how)
  BY <1>1, <1>3, <1>4 DEF Agree
<1> QED BY <1>5 DEF ws, rs

\* Three vectors.
LEMMA ThreeVectors ==
  ASSUME NEW ts, NEW names, NEW how, NEW v1, NEW v2, NEW v3, NEW r1, NEW r2, NEW r3,
         StepAgrees(v1, r1, ts, names, how), StepAgrees(v2, r2, ts, names, how),
         StepAgrees(v3, r3, ts, names, how), Apart(v1, v2), Apart(v1, v3),
         Apart(v2, v3)
  PROVE  Agree(<<v1, v2, v3>>, <<r1, r2, r3>>, ts, names, how)
<1> DEFINE S  == {v1, v2, v3, r1, r2, r3}
           ws == <<v1, v2, v3>>
           rs == <<r1, r2, r3>>
<1>1. ws \in Seq(S) /\ rs \in Seq(S) /\ Len(ws) = 3 /\ Len(rs) = 3
  OBVIOUS
<1>2. /\ ws[1] = v1 /\ rs[1] = r1 /\ ws[2] = v2 /\ rs[2] = r2
      /\ ws[3] = v3 /\ rs[3] = r3
  OBVIOUS
<1> HIDE DEF S, ws, rs
<1>3. \A p \in 1 .. 3 : StepAgrees(ws[p], rs[p], ts, names, how)
  BY <1>2
<1>4. \A p, q \in 1 .. 3 : p < q => Apart(ws[p], ws[q])
  BY <1>2
<1>5. Agree(ws, rs, ts, names, how)
  BY <1>1, <1>3, <1>4 DEF Agree
<1> QED BY <1>5 DEF ws, rs

\* Four.
LEMMA FourVectors ==
  ASSUME NEW ts, NEW names, NEW how, NEW v1, NEW v2, NEW v3, NEW v4, NEW r1, NEW r2, NEW r3, NEW r4,
         StepAgrees(v1, r1, ts, names, how), StepAgrees(v2, r2, ts, names, how),
         StepAgrees(v3, r3, ts, names, how), StepAgrees(v4, r4, ts, names, how),
         Apart(v1, v2), Apart(v1, v3), Apart(v1, v4), Apart(v2, v3), Apart(v2, v4),
         Apart(v3, v4)
  PROVE  Agree(<<v1, v2, v3, v4>>, <<r1, r2, r3, r4>>, ts, names, how)
<1> DEFINE S  == {v1, v2, v3, v4, r1, r2, r3, r4}
           ws == <<v1, v2, v3, v4>>
           rs == <<r1, r2, r3, r4>>
<1>1. ws \in Seq(S) /\ rs \in Seq(S) /\ Len(ws) = 4 /\ Len(rs) = 4
  OBVIOUS
<1>2. /\ ws[1] = v1 /\ rs[1] = r1 /\ ws[2] = v2 /\ rs[2] = r2
      /\ ws[3] = v3 /\ rs[3] = r3 /\ ws[4] = v4 /\ rs[4] = r4
  OBVIOUS
<1> HIDE DEF S, ws, rs
<1>3. \A p \in 1 .. 4 : StepAgrees(ws[p], rs[p], ts, names, how)
  BY <1>2
<1>4. \A p, q \in 1 .. 4 : p < q => Apart(ws[p], ws[q])
  BY <1>2
<1>5. Agree(ws, rs, ts, names, how)
  BY <1>1, <1>3, <1>4 DEF Agree
<1> QED BY <1>5 DEF ws, rs

\* The scripts of type t agree.
Agrees(t, ts, how) == t \in DOMAIN Writes /\ \E names : Agree(Writes[t], Reads[t], ts, names, how)

\* An optional: its value, if any, is read as an optional.
LEMMA OptionalAgrees ==
  ASSUME NEW ts, "Dleq" \in ts
  PROVE  Agrees("Optional", ts, {"maybe"})
<1> DEFINE names == {"value"}
           v1    == maybe("value", "Dleq")
           r1    == maybe("value", "Dleq")
           how   == {"maybe"}
<1>1. /\ StepAgrees(v1, r1, ts, names, how)
  BY VectorStep
<1> HIDE DEF names, v1, r1, how
<1>2. Agree(<<v1>>, <<r1>>, ts, names, how)
  BY <1>1, OneVector
<1>3. Agree(WriteOptional, ReadOptional, ts, names, how)
  BY <1>2 DEF WriteOptional, ReadOptional, names, v1, r1, how
<1>4. /\ Writes["Optional"] = WriteOptional
      /\ Reads["Optional"] = ReadOptional
      /\ "Optional" \in DOMAIN Writes
  BY DEF Writes, Reads
<1> QED BY <1>3, <1>4 DEF Agrees, how

\* A proof of two equal logarithms.
LEMMA DleqDualAgrees ==
  ASSUME NEW ts, "group" \in ts, "number" \in ts, NEW how
  PROVE  Agrees("DleqDual", ts, how)
<1> DEFINE some == {"gra", "grb", "pi"}
           a    == part("gra", "group")
           b    == part("grb", "group")
           c    == part("pi", "number")
<1>1. /\ IsPart(a, ts, some) /\ IsPart(b, ts, some) /\ IsPart(c, ts, some)
      /\ Apart(a, b) /\ Apart(a, c) /\ Apart(b, c)
  BY PartStep
<1> HIDE DEF some, a, b, c
<1>2. Agree(Lines(<<a, b, c>>),
            Lines(<<a, b, c>>), ts, some, how)
  BY <1>1, ThreeParts
<1>3. Agree(WriteDleqDual, ReadDleqDual, ts, some, how)
  BY <1>2 DEF WriteDleqDual, ReadDleqDual, some, a, b, c
<1>4. /\ Writes["DleqDual"] = WriteDleqDual
      /\ Reads["DleqDual"] = ReadDleqDual
      /\ "DleqDual" \in DOMAIN Writes
  BY DEF Writes, Reads
<1> QED BY <1>3, <1>4 DEF Agrees

\* A proof of one.
LEMMA DleqAgrees ==
  ASSUME NEW ts, "group" \in ts, "number" \in ts, NEW how
  PROVE  Agrees("Dleq", ts, how)
<1> DEFINE some == {"gr", "pi"}
           a    == part("gr", "group")
           b    == part("pi", "number")
<1>1. /\ IsPart(a, ts, some) /\ IsPart(b, ts, some) /\ Apart(a, b)
  BY PartStep
<1> HIDE DEF some, a, b
<1>2. Agree(Lines(<<a, b>>),
            Lines(<<a, b>>), ts, some, how)
  BY <1>1, TwoParts
<1>3. Agree(WriteDleq, ReadDleq, ts, some, how)
  BY <1>2 DEF WriteDleq, ReadDleq, some, a, b
<1>4. Writes["Dleq"] = WriteDleq /\ Reads["Dleq"] = ReadDleq /\ "Dleq" \in DOMAIN Writes
  BY DEF Writes, Reads
<1> QED BY <1>3, <1>4 DEF Agrees

\* A decomposition.
LEMMA DecompositionAgrees ==
  ASSUME NEW ts, "Dleq" \in ts, "group" \in ts, NEW how
  PROVE  Agrees("Decomposition", ts, how)
<1> DEFINE some == {"pi", "gs"}
           a    == part("pi", "Dleq")
           b    == part("gs", "group")
<1>1. /\ IsPart(a, ts, some) /\ IsPart(b, ts, some) /\ Apart(a, b)
  BY PartStep
<1> HIDE DEF some, a, b
<1>2. Agree(Lines(<<a, b>>),
            Lines(<<a, b>>), ts, some, how)
  BY <1>1, TwoParts
<1>3. Agree(WriteDecomposition, ReadDecomposition, ts, some, how)
  BY <1>2 DEF WriteDecomposition, ReadDecomposition, some, a, b
<1>4. /\ Writes["Decomposition"] = WriteDecomposition
      /\ Reads["Decomposition"] = ReadDecomposition
      /\ "Decomposition" \in DOMAIN Writes
  BY DEF Writes, Reads
<1> QED BY <1>3, <1>4 DEF Agrees

\* A decryption share.
LEMMA DecryptionAgrees ==
  ASSUME NEW ts, "Dleq" \in ts, "group" \in ts, "number" \in ts, NEW how
  PROVE  Agrees("Decryption", ts, how)
<1> DEFINE some == {"dec", "pi", "origin"}
           a    == part("dec", "group")
           b    == part("pi", "Dleq")
           c    == part("origin", "number")
<1>1. /\ IsPart(a, ts, some) /\ IsPart(b, ts, some) /\ IsPart(c, ts, some)
      /\ Apart(a, b) /\ Apart(a, c) /\ Apart(b, c)
  BY PartStep
<1> HIDE DEF some, a, b, c
<1>2. Agree(Lines(<<a, b, c>>),
            Lines(<<a, b, c>>), ts, some, how)
  BY <1>1, ThreeParts
<1>3. Agree(WriteDecryption, ReadDecryption, ts, some, how)
  BY <1>2 DEF WriteDecryption, ReadDecryption, some, a, b, c
<1>4. /\ Writes["Decryption"] = WriteDecryption
      /\ Reads["Decryption"] = ReadDecryption
      /\ "Decryption" \in DOMAIN Writes
  BY DEF Writes, Reads
<1> QED BY <1>3, <1>4 DEF Agrees

\* A beacon.
LEMMA BeaconAgrees ==
  ASSUME NEW ts, "group" \in ts, NEW how
  PROVE  Agrees("Beacon", ts, how)
<1> DEFINE some == {"recon", "beacon"}
           a    == part("recon", "group")
           b    == part("beacon", "group")
<1>1. /\ IsPart(a, ts, some) /\ IsPart(b, ts, some) /\ Apart(a, b)
  BY PartStep
<1> HIDE DEF some, a, b
<1>2. Agree(Lines(<<a, b>>),
            Lines(<<a, b>>), ts, some, how)
  BY <1>1, TwoParts
<1>3. Agree(WriteBeacon, ReadBeacon, ts, some, how)
  BY <1>2 DEF WriteBeacon, ReadBeacon, some, a, b
<1>4. /\ Writes["Beacon"] = WriteBeacon
      /\ Reads["Beacon"] = ReadBeacon
      /\ "Beacon" \in DOMAIN Writes
  BY DEF Writes, Reads
<1> QED BY <1>3, <1>4 DEF Agrees

\* The sizes.
LEMMA ConfigAgrees ==
  ASSUME NEW ts, "number" \in ts, NEW how
  PROVE  Agrees("Config", ts, how)
<1> DEFINE some == {"num_replicas_", "num_faults_"}
           a    == part("num_replicas_", "number")
           b    == part("num_faults_", "number")
<1>1. /\ IsPart(a, ts, some) /\ IsPart(b, ts, some) /\ Apart(a, b)
  BY PartStep
<1> HIDE DEF some, a, b
<1>2. Agree(Lines(<<a, b>>),
            Lines(<<a, b>>), ts, some, how)
  BY <1>1, TwoParts
<1>3. Agree(WriteConfig, ReadConfig, ts, some, how)
  BY <1>2 DEF WriteConfig, ReadConfig, some, a, b
<1>4. /\ Writes["Config"] = WriteConfig
      /\ Reads["Config"] = ReadConfig
      /\ "Config" \in DOMAIN Writes
  BY DEF Writes, Reads
<1> QED BY <1>3, <1>4 DEF Agrees

\* A sharing, only one of whose vectors is cleared.
LEMMA SharingAgrees ==
  ASSUME NEW ts, "Decomposition" \in ts, "DleqDual" \in ts, "group" \in ts
  PROVE  Agrees("Sharing", ts, {"cleared", "appended"})
<1> DEFINE some  == {"decomp_pi"}
           names == {"encryptions", "commitments", "dleq_proofs"}
           a     == part("decomp_pi", "Decomposition")
           v1    == vector("encryptions", "group")
           r1    == cleared("encryptions", "group")
           v2    == vector("commitments", "group")
           r2    == appended("commitments", "group")
           v3    == vector("dleq_proofs", "DleqDual")
           r3    == appended("dleq_proofs", "DleqDual")
           how   == {"cleared", "appended"}
<1>1. /\ IsPart(a, ts, some)
  BY PartStep
<1>2. /\ StepAgrees(v1, r1, ts, names, how) /\ StepAgrees(v2, r2, ts, names, how)
      /\ StepAgrees(v3, r3, ts, names, how) /\ Apart(v1, v2) /\ Apart(v1, v3)
      /\ Apart(v2, v3)
  BY VectorStep
<1>3. names \cap some = {}
  OBVIOUS
<1> HIDE DEF some, names, a, v1, r1, v2, r2, v3, r3, how
<1>4. Agree(Lines(<<a>>),
            Lines(<<a>>), ts, some, how)
  BY <1>1, OnePart
<1>5. Agree(<<v1, v2, v3>>, <<r1, r2, r3>>, ts, names, how)
  BY <1>2, ThreeVectors
<1>6. Agree(<<v1, v2, v3>> \o Lines(<<a>>),
            <<r1, r2, r3>> \o Lines(<<a>>), ts, names \cup some, how)
  BY <1>3, <1>4, <1>5, JoinedAgree
<1>7. Agree(WriteSharing, ReadSharing, ts, names \cup some, how)
  BY <1>6 DEF WriteSharing, ReadSharing, some, names, a, v1, r1, v2, r2, v3, r3, how
<1>8. /\ Writes["Sharing"] = WriteSharing
      /\ Reads["Sharing"] = ReadSharing
      /\ "Sharing" \in DOMAIN Writes
  BY DEF Writes, Reads
<1> QED BY <1>7, <1>8 DEF Agrees, how

\* An aggregate, with a line more where NDEBUG is not defined.
LEMMA AggregateAgrees ==
  ASSUME NEW ts, "Decomposition" \in ts, "group" \in ts, "number" \in ts
  PROVE  Agrees("Aggregate", ts, {"resized"})
<1> DEFINE some  == {"secret"}
           names == {"encryptions", "commitments", "decomposition", "id_vec"}
           a     == part("secret", "number")
           v1    == vector("encryptions", "group")
           r1    == resized("encryptions", "group")
           v2    == vector("commitments", "group")
           r2    == resized("commitments", "group")
           v3    == vector("decomposition", "Decomposition")
           r3    == resized("decomposition", "Decomposition")
           v4    == vector("id_vec", "number")
           r4    == resized("id_vec", "number")
           how   == {"resized"}
<1>1. /\ IsPart(a, ts, some)
  BY PartStep
<1>2. /\ StepAgrees(v1, r1, ts, names, how) /\ StepAgrees(v2, r2, ts, names, how)
      /\ StepAgrees(v3, r3, ts, names, how) /\ StepAgrees(v4, r4, ts, names, how)
      /\ Apart(v1, v2) /\ Apart(v1, v3) /\ Apart(v1, v4) /\ Apart(v2, v3)
      /\ Apart(v2, v4) /\ Apart(v3, v4)
  BY VectorStep
<1>3. names \cap some = {}
  OBVIOUS
<1> HIDE DEF some, names, a, v1, r1, v2, r2, v3, r3, v4, r4, how
<1>4. Agree(Lines(<<a>>),
            Lines(<<a>>), ts, some, how)
  BY <1>1, OnePart
<1>5. Agree(<<v1, v2, v3, v4>>, <<r1, r2, r3, r4>>, ts, names, how)
  BY <1>2, FourVectors
<1>6. Agree(<<v1, v2, v3, v4>> \o Lines(<<a>>),
            <<r1, r2, r3, r4>> \o Lines(<<a>>), ts, names \cup some, how)
  BY <1>3, <1>4, <1>5, JoinedAgree
<1>7. \E all : Agree(WriteAggregate, ReadAggregate, ts, all, how)
  <2>1. CASE Debug
    BY <2>1, <1>6 DEF WriteAggregate, ReadAggregate, secretLine, some, names, a, v1, r1,
       v2, r2, v3, r3, v4, r4, how
  <2>2. CASE ~ Debug
    <3> DEFINE vs == <<v1, v2, v3, v4>>
               rs == <<r1, r2, r3, r4>>
    <3>1. vs \o <<>> = vs /\ rs \o <<>> = rs
      <4>1. vs \in Seq({v1, v2, v3, v4}) /\ rs \in Seq({r1, r2, r3, r4})
        OBVIOUS
      <4> HIDE DEF vs, rs
      <4> QED BY <4>1
    <3>2. WriteAggregate = vs \o <<>> /\ ReadAggregate = rs \o <<>>
      BY <2>2 DEF WriteAggregate, ReadAggregate, secretLine, some, names, a, v1, r1, v2,
         r2, v3, r3, v4, r4, how
    <3> QED BY <1>5, <3>1, <3>2
  <2> QED BY <2>1, <2>2
<1>8. /\ Writes["Aggregate"] = WriteAggregate
      /\ Reads["Aggregate"] = ReadAggregate
      /\ "Aggregate" \in DOMAIN Writes
  BY DEF Writes, Reads
<1> QED BY <1>7, <1>8 DEF Agrees, how

\* A context.
LEMMA ContextAgrees ==
  ASSUME NEW ts, "group" \in ts, "number" \in ts
  PROVE  Agrees("Context", ts, {"resized"})
<1> DEFINE some  == {"g1", "g2", "h1", "h2", "secret_key", "my_id"}
           names == {"pk_map"}
           a     == part("g1", "group")
           b     == part("g2", "group")
           c     == part("h1", "group")
           x     == part("h2", "group")
           y     == part("secret_key", "number")
           z     == part("my_id", "number")
           v1    == vector("pk_map", "group")
           r1    == resized("pk_map", "group")
           how   == {"resized"}
<1>1. /\ IsPart(a, ts, some) /\ IsPart(b, ts, some) /\ IsPart(c, ts, some)
      /\ IsPart(x, ts, some) /\ IsPart(y, ts, some) /\ IsPart(z, ts, some)
      /\ Apart(a, b) /\ Apart(a, c) /\ Apart(a, x) /\ Apart(a, y) /\ Apart(a, z)
      /\ Apart(b, c) /\ Apart(b, x) /\ Apart(b, y) /\ Apart(b, z) /\ Apart(c, x)
      /\ Apart(c, y) /\ Apart(c, z) /\ Apart(x, y) /\ Apart(x, z) /\ Apart(y, z)
  BY PartStep
<1>2. /\ StepAgrees(v1, r1, ts, names, how)
  BY VectorStep
<1>3. names \cap some = {}
  OBVIOUS
<1> HIDE DEF some, names, a, b, c, x, y, z, v1, r1, how
<1>4. Agree(Lines(<<a, b, c, x, y, z>>),
            Lines(<<a, b, c, x, y, z>>), ts, some, how)
  BY <1>1, SixParts
<1>5. Agree(<<v1>>, <<r1>>, ts, names, how)
  BY <1>2, OneVector
<1>6. Agree(<<v1>> \o Lines(<<a, b, c, x, y, z>>),
            <<r1>> \o Lines(<<a, b, c, x, y, z>>), ts, names \cup some, how)
  BY <1>3, <1>4, <1>5, JoinedAgree
<1>7. Agree(WriteContext, ReadContext, ts, names \cup some, how)
  BY <1>6 DEF WriteContext, ReadContext, some, names, a, b, c, x, y, z, v1, r1, how
<1>8. /\ Writes["Context"] = WriteContext
      /\ Reads["Context"] = ReadContext
      /\ "Context" \in DOMAIN Writes
  BY DEF Writes, Reads
<1> QED BY <1>7, <1>8 DEF Agrees, how

\* The aggregates of a setup.
LEMMA SetupAgrees ==
  ASSUME NEW ts, "Aggregate" \in ts
  PROVE  Agrees("Setup", ts, {"resized"})
<1> DEFINE names == {"aggregates"}
           v1    == vector("aggregates", "Aggregate")
           r1    == resized("aggregates", "Aggregate")
           how   == {"resized"}
<1>1. /\ StepAgrees(v1, r1, ts, names, how)
  BY VectorStep
<1> HIDE DEF names, v1, r1, how
<1>2. Agree(<<v1>>, <<r1>>, ts, names, how)
  BY <1>1, OneVector
<1>3. Agree(WriteSetup, ReadSetup, ts, names, how)
  BY <1>2 DEF WriteSetup, ReadSetup, names, v1, r1, how
<1>4. /\ Writes["Setup"] = WriteSetup
      /\ Reads["Setup"] = ReadSetup
      /\ "Setup" \in DOMAIN Writes
  BY DEF Writes, Reads
<1> QED BY <1>3, <1>4 DEF Agrees, how

-----------------------------------------------------------------------------
(* Objects read back, level by level.                                      *)

\* Fields are read as they are.
LEMMA FieldsAreNoClass == "group" \notin DOMAIN Writes /\ "number" \notin DOMAIN Writes
BY DEF Writes

\* What TextClassProofs calls Scripted and Replaces, for parts of the types in ts.
StepFollows(w, r, ts) ==
  /\ r.name = w.name /\ r.of = w.of
  /\ \/ w.does = "line" /\ r.does = "line" /\ w.name = ""
     \/ /\ w.name # "" /\ w.of \in ts
        /\ \/ w.does = "part" /\ r.does = "part"
           \/ w.does = "vector" /\ r.does \in {"cleared", "appended", "resized"}
           \/ w.does = "maybe" /\ r.does = "maybe"

ScriptedOver(t, ts) ==
  /\ t \in DOMAIN Writes
  /\ Len(Writes[t]) \in Nat
  /\ DOMAIN Writes[t] = 1 .. Len(Writes[t])
  /\ Len(Reads[t]) = Len(Writes[t])
  /\ \A p \in 1 .. Len(Writes[t]) : StepFollows(Writes[t][p], Reads[t][p], ts)
  /\ \A p, q \in 1 .. Len(Writes[t]) :
       p # q /\ Writes[t][p].name = Writes[t][q].name => Writes[t][p].name = ""

ReplacesAll(t) ==
  \A p \in DOMAIN Writes[t] : Reads[t][p].does # "appended" /\ Reads[t][p].does # "maybe"

\* Scripts that agree are such scripts.
LEMMA AgreeScripted ==
  ASSUME NEW t, NEW ts, NEW how, Agrees(t, ts, how)
  PROVE  /\ ScriptedOver(t, ts)
         /\ "appended" \notin how /\ "maybe" \notin how => ReplacesAll(t)
<1>1. PICK names : Agree(Writes[t], Reads[t], ts, names, how)
  BY DEF Agrees
<1>2. /\ DOMAIN Writes[t] = 1 .. Len(Writes[t]) /\ Len(Writes[t]) \in Nat
      /\ Len(Reads[t]) = Len(Writes[t])
  <2>1. PICK S : Writes[t] \in Seq(S)
    BY <1>1 DEF Agree
  <2>2. Len(Reads[t]) = Len(Writes[t])
    BY <1>1 DEF Agree
  <2> QED BY <2>1, <2>2
<1>3. \A p \in 1 .. Len(Writes[t]) : StepAgrees(Writes[t][p], Reads[t][p], ts, names, how)
  BY <1>1 DEF Agree
<1>4. \A p \in 1 .. Len(Writes[t]) : StepFollows(Writes[t][p], Reads[t][p], ts)
  <2>1. \A w, r : StepAgrees(w, r, ts, names, how) => StepFollows(w, r, ts)
    BY DEF StepAgrees, StepFollows
  <2> QED BY <1>3, <2>1
<1>5. ASSUME NEW p \in 1 .. Len(Writes[t]), NEW q \in 1 .. Len(Writes[t]), p # q
      PROVE  Apart(Writes[t][p], Writes[t][q])
  <2>1. \A a, b \in 1 .. Len(Writes[t]) : a < b => Apart(Writes[t][a], Writes[t][b])
    BY <1>1 DEF Agree
  <2>2. CASE p < q
    BY <2>1, <2>2
  <2>3. CASE q < p
    BY <2>1, <2>3 DEF Apart
  <2> QED BY <1>5, <2>2, <2>3
<1>6. ScriptedOver(t, ts)
  <2>1. t \in DOMAIN Writes
    BY DEF Agrees
  <2> QED BY <1>2, <1>4, <1>5, <2>1 DEF ScriptedOver, Apart
<1>7. ASSUME "appended" \notin how, "maybe" \notin how PROVE ReplacesAll(t)
  <2>1. \A w, r : StepAgrees(w, r, ts, names, how) =>
                    r.does # "appended" /\ r.does # "maybe"
    BY <1>7 DEF StepAgrees
  <2> QED BY <1>2, <1>3, <2>1 DEF ReplacesAll
<1> QED BY <1>6, <1>7

\* As TextClassProofs asks it of the first level.
LEMMA Scripted1 ==
  ASSUME NEW t, NEW how, Agrees(t, Parts1, how)
  PROVE  /\ P1!Scripted(t)
         /\ "appended" \notin how /\ "maybe" \notin how => P1!Replaces(t)
BY AgreeScripted, Zenon DEF ScriptedOver, StepFollows, ReplacesAll, P1!Scripted, P1!Follows,
   P1!Types, P1!Replaces

\* Of the second,
LEMMA Scripted2 ==
  ASSUME NEW t, NEW how, Agrees(t, Parts2, how)
  PROVE  /\ P2!Scripted(t)
         /\ "appended" \notin how /\ "maybe" \notin how => P2!Replaces(t)
BY AgreeScripted, Zenon DEF ScriptedOver, StepFollows, ReplacesAll, P2!Scripted, P2!Follows,
   P2!Types, P2!Replaces

\* the third
LEMMA Scripted3 ==
  ASSUME NEW t, NEW how, Agrees(t, Parts3, how)
  PROVE  /\ P3!Scripted(t)
         /\ "appended" \notin how /\ "maybe" \notin how => P3!Replaces(t)
BY AgreeScripted, Zenon DEF ScriptedOver, StepFollows, ReplacesAll, P3!Scripted, P3!Follows,
   P3!Types, P3!Replaces

\* and the last.
LEMMA Scripted4 ==
  ASSUME NEW t, NEW how, Agrees(t, Parts4, how)
  PROVE  /\ P4!Scripted(t)
         /\ "appended" \notin how /\ "maybe" \notin how => P4!Replaces(t)
BY AgreeScripted, Zenon DEF ScriptedOver, StepFollows, ReplacesAll, P4!Scripted, P4!Follows,
   P4!Types, P4!Replaces

\* What is read with fields is read as a part of the next level.
LEMMA Level2 == P2!PartsRead
<1>1. P1!PartsRead
  BY FieldsRead
<1>2. ASSUME NEW t \in Parts2
      PROVE  /\ P1!ObjectReads(t)
             /\ \A old, v \in P1!Values(t) : P1!Result(t, old, v) = v
  <2>1. CASE t \in {"group", "number"}
    <3>1. t \in Parts1 /\ t \notin P1!Types
      BY <2>1, FieldsAreNoClass DEF Parts1, P1!Types
    <3>2. P1!ObjectReads(t)
      BY <1>1, <3>1, P1!ObjectsRead
    <3> QED BY <3>1, <3>2 DEF P1!Result
  <2>2. CASE t \in {"Dleq", "DleqDual"}
    <3> DEFINE how == {"resized"}
    <3>1. Agrees(t, Parts1, how)
      BY <2>2, DleqAgrees, DleqDualAgrees DEF Parts1
    <3>2. "appended" \notin how /\ "maybe" \notin how
      OBVIOUS
    <3> HIDE DEF how
    <3>3. P1!Scripted(t) /\ P1!Replaces(t)
      BY <3>1, <3>2, Scripted1
    <3>4. P1!ObjectReads(t)
      BY <1>1, <3>3, P1!ObjectsRead
    <3> QED BY <3>3, <3>4, P1!ObjectsReplaced
  <2> QED BY <2>1, <2>2 DEF Parts1, Parts2
<1>3. ASSUME NEW t \in Parts2 PROVE P2!PartReads(t)
  <2>1. P1!Fresh(t) \in P1!Values(t)
    BY <1>2 DEF P1!ObjectReads
  <2>2. \A n \in Nat, tag \in P2!Fields : P1!Sample(t, n, tag) \in P1!Values(t)
    BY <1>2 DEF P1!ObjectReads, P1!Fields, P2!Fields, P1!Tokens, P2!Tokens, P1!newline,
       P2!newline
  <2>3. \A v \in P1!Values(t) :
           /\ P1!Text(t, v) \in P2!Streams
           /\ \A old \in P1!Values(t), s \in P2!Streams :
                P1!Parse(t, P2!Given(old, P1!Text(t, v) \o s)) = P2!Given(v, s)
    <3>1. P1!Streams = P2!Streams /\ \A v, s : P1!Given(v, s) = P2!Given(v, s)
      BY DEF P1!Streams, P2!Streams, P1!Tokens, P2!Tokens, P1!Given, P2!Given,
         P1!Reading, P2!Reading
    <3>2. \A v \in P1!Values(t) :
             /\ P1!Text(t, v) \in P1!Streams
             /\ \A old \in P1!Values(t), s \in P1!Streams :
                  P1!Parse(t, P1!Given(old, P1!Text(t, v) \o s)) = P1!Given(v, s)
      BY <1>2 DEF P1!ObjectReads
    <3> QED BY <3>1, <3>2
  <2> QED BY <2>1, <2>2, <2>3, Same1 DEF P2!PartReads
<1>4. "number" \in Parts2 /\ \A n \in Nat : <<n>> \in P1!Values("number")
  BY FieldsAreNoClass DEF Parts1, Parts2, P1!Values, P1!Types, FieldValues, newline
<1> QED BY <1>3, <1>4 DEF P2!PartsRead

\* The same with proofs.
LEMMA Level3 == P3!PartsRead
<1>1. P2!PartsRead
  BY Level2
<1>2. ASSUME NEW t \in Parts3
      PROVE  /\ P2!ObjectReads(t)
             /\ \A old, v \in P2!Values(t) : P2!Result(t, old, v) = v
  <2>1. CASE t \in {"group", "number"}
    <3>1. t \in Parts2 /\ t \notin P2!Types
      BY <2>1, FieldsAreNoClass DEF Parts1, Parts2, P2!Types
    <3>2. P2!ObjectReads(t)
      BY <1>1, <3>1, P2!ObjectsRead
    <3> QED BY <3>1, <3>2 DEF P2!Result
  <2>2. CASE t \in {"Dleq", "DleqDual", "Decomposition"}
    <3> DEFINE how == {"resized"}
    <3>1. Agrees(t, Parts2, how)
      BY <2>2, DleqAgrees, DleqDualAgrees, DecompositionAgrees DEF Parts1, Parts2
    <3>2. "appended" \notin how /\ "maybe" \notin how
      OBVIOUS
    <3> HIDE DEF how
    <3>3. P2!Scripted(t) /\ P2!Replaces(t)
      BY <3>1, <3>2, Scripted2
    <3>4. P2!ObjectReads(t)
      BY <1>1, <3>3, P2!ObjectsRead
    <3> QED BY <3>3, <3>4, P2!ObjectsReplaced
  <2> QED BY <2>1, <2>2 DEF Parts1, Parts2, Parts3
<1>3. ASSUME NEW t \in Parts3 PROVE P3!PartReads(t)
  <2>1. P2!Fresh(t) \in P2!Values(t)
    BY <1>2 DEF P2!ObjectReads
  <2>2. \A n \in Nat, tag \in P3!Fields : P2!Sample(t, n, tag) \in P2!Values(t)
    BY <1>2 DEF P2!ObjectReads, P2!Fields, P3!Fields, P2!Tokens, P3!Tokens, P2!newline,
       P3!newline
  <2>3. \A v \in P2!Values(t) :
           /\ P2!Text(t, v) \in P3!Streams
           /\ \A old \in P2!Values(t), s \in P3!Streams :
                P2!Parse(t, P3!Given(old, P2!Text(t, v) \o s)) = P3!Given(v, s)
    <3>1. P2!Streams = P3!Streams /\ \A v, s : P2!Given(v, s) = P3!Given(v, s)
      BY DEF P2!Streams, P3!Streams, P2!Tokens, P3!Tokens, P2!Given, P3!Given,
         P2!Reading, P3!Reading
    <3>2. \A v \in P2!Values(t) :
             /\ P2!Text(t, v) \in P2!Streams
             /\ \A old \in P2!Values(t), s \in P2!Streams :
                  P2!Parse(t, P2!Given(old, P2!Text(t, v) \o s)) = P2!Given(v, s)
      BY <1>2 DEF P2!ObjectReads
    <3> QED BY <3>1, <3>2
  <2> QED BY <2>1, <2>2, <2>3, Same2 DEF P3!PartReads
<1>4. "number" \in Parts3 /\ \A n \in Nat : <<n>> \in P2!Values("number")
  BY FieldsAreNoClass DEF Parts1, Parts2, Parts3, P1!Values, P1!Types, P2!Values,
     P2!Types, FieldValues, newline
<1> QED BY <1>3, <1>4 DEF P3!PartsRead

\* And with decompositions.
LEMMA Level4 == P4!PartsRead
<1>1. P3!PartsRead
  BY Level3
<1>2. ASSUME NEW t \in Parts4
      PROVE  /\ P3!ObjectReads(t)
             /\ \A old, v \in P3!Values(t) : P3!Result(t, old, v) = v
  <2>1. CASE t \in {"group", "number"}
    <3>1. t \in Parts3 /\ t \notin P3!Types
      BY <2>1, FieldsAreNoClass DEF Parts1, Parts2, Parts3, P3!Types
    <3>2. P3!ObjectReads(t)
      BY <1>1, <3>1, P3!ObjectsRead
    <3> QED BY <3>1, <3>2 DEF P3!Result
  <2>2. CASE t \in {"Dleq", "DleqDual", "Decomposition", "Aggregate"}
    <3> DEFINE how == {"resized"}
    <3>1. Agrees(t, Parts3, how)
      BY <2>2, DleqAgrees, DleqDualAgrees, DecompositionAgrees, AggregateAgrees DEF
         Parts1, Parts2, Parts3
    <3>2. "appended" \notin how /\ "maybe" \notin how
      OBVIOUS
    <3> HIDE DEF how
    <3>3. P3!Scripted(t) /\ P3!Replaces(t)
      BY <3>1, <3>2, Scripted3
    <3>4. P3!ObjectReads(t)
      BY <1>1, <3>3, P3!ObjectsRead
    <3> QED BY <3>3, <3>4, P3!ObjectsReplaced
  <2> QED BY <2>1, <2>2 DEF Parts1, Parts2, Parts3, Parts4
<1>3. ASSUME NEW t \in Parts4 PROVE P4!PartReads(t)
  <2>1. P3!Fresh(t) \in P3!Values(t)
    BY <1>2 DEF P3!ObjectReads
  <2>2. \A n \in Nat, tag \in P4!Fields : P3!Sample(t, n, tag) \in P3!Values(t)
    BY <1>2 DEF P3!ObjectReads, P3!Fields, P4!Fields, P3!Tokens, P4!Tokens, P3!newline,
       P4!newline
  <2>3. \A v \in P3!Values(t) :
           /\ P3!Text(t, v) \in P4!Streams
           /\ \A old \in P3!Values(t), s \in P4!Streams :
                P3!Parse(t, P4!Given(old, P3!Text(t, v) \o s)) = P4!Given(v, s)
    <3>1. P3!Streams = P4!Streams /\ \A v, s : P3!Given(v, s) = P4!Given(v, s)
      BY DEF P3!Streams, P4!Streams, P3!Tokens, P4!Tokens, P3!Given, P4!Given,
         P3!Reading, P4!Reading
    <3>2. \A v \in P3!Values(t) :
             /\ P3!Text(t, v) \in P3!Streams
             /\ \A old \in P3!Values(t), s \in P3!Streams :
                  P3!Parse(t, P3!Given(old, P3!Text(t, v) \o s)) = P3!Given(v, s)
      BY <1>2 DEF P3!ObjectReads
    <3> QED BY <3>1, <3>2
  <2> QED BY <2>1, <2>2, <2>3, Same3 DEF P4!PartReads
<1>4. "number" \in Parts4 /\ \A n \in Nat : <<n>> \in P3!Values("number")
  BY FieldsAreNoClass DEF Parts1, Parts2, Parts3, Parts4, P1!Values, P1!Types,
     P2!Values, P2!Types, P3!Values, P3!Types, FieldValues, newline
<1> QED BY <1>3, <1>4 DEF P4!PartsRead

\* There are no other classes.
LEMMA AllAgree ==
  ASSUME NEW t \in Types
  PROVE  \E how : Agrees(t, Parts4, how)
<1>1. /\ "group" \in Parts4 /\ "number" \in Parts4 /\ "Dleq" \in Parts4 /\ "DleqDual" \in Parts4
      /\ "Decomposition" \in Parts4 /\ "Aggregate" \in Parts4
  BY DEF Parts1, Parts2, Parts3, Parts4
<1>2. t \in {"Optional", "DleqDual", "Dleq", "Decomposition", "Decryption", "Beacon", "Config",
             "Sharing", "Aggregate", "Context", "Setup"}
  BY DEF Types, OfAggregates!Types, Writes
<1> QED BY <1>1, <1>2, OptionalAgrees, DleqDualAgrees, DleqAgrees, DecompositionAgrees,
           DecryptionAgrees, BeaconAgrees, ConfigAgrees, SharingAgrees, AggregateAgrees,
           ContextAgrees, SetupAgrees

\* The text of every object is read back.
LEMMA AllRead ==
  ASSUME NEW t \in Types
  PROVE  P4!Scripted(t) /\ P4!ObjectReads(t)
<1>1. PICK how : Agrees(t, Parts4, how)
  BY AllAgree
<1>2. P4!Scripted(t)
  BY <1>1, Scripted4
<1> QED BY <1>2, Level4, P4!ObjectsRead

-----------------------------------------------------------------------------
\* A text more, and all but the first.
LEMMA FlattenMore ==
  \A ps \in Seq(Seq(Seq(Nat))), p \in Seq(Seq(Nat)) :
    /\ FlattenSeq(ps) \in Seq(Seq(Nat))
    /\ FlattenSeq(Append(ps, p)) = FlattenSeq(ps) \o p
    /\ ps # <<>> => FlattenSeq(ps) = Head(ps) \o FlattenSeq(Tail(ps))
<1>1. \A ps : FlattenSeq(ps) = P4!FlattenSeq(ps)
  BY DEF FlattenSeq, P4!FlattenSeq
<1> DEFINE X == Seq(Nat)
<1>2. \A ps \in Seq(Seq(X)), p \in Seq(X) :
    /\ P4!FlattenSeq(ps) \in Seq(X)
    /\ P4!FlattenSeq(Append(ps, p)) = P4!FlattenSeq(ps) \o p
    /\ ps # <<>> => P4!FlattenSeq(ps) = Head(ps) \o P4!FlattenSeq(Tail(ps))
  <2> HIDE DEF X
  <2> QED BY P4!JoinedOneMore
<1> QED BY <1>1, <1>2

-----------------------------------------------------------------------------
(* What was written and not read is in the stream.                         *)

\* The same in the words of TextStreams.
Texts == Seq(Seq(Nat))

\* That every object is read back, in these words.
LEMMA TypeReads ==
  ASSUME NEW t \in Types
  PROVE  /\ Fresh(t) \in P4!Values(t)
         /\ \A n, tag \in Nat : Sample(t, n, <<tag>>) \in P4!Values(t)
         /\ \A v \in P4!Values(t) : Text(t, v) \in Texts /\ P4!Result(t, Fresh(t), v) = v
         /\ \A old, v \in P4!Values(t) : P4!Result(t, old, v) \in P4!Values(t)
         /\ \A old, v \in P4!Values(t), s \in Texts :
              Parse(t, [v |-> old, rest |-> Text(t, v) \o s, ok |-> TRUE])
                = [v |-> P4!Result(t, old, v), rest |-> s, ok |-> TRUE]
<1>1. P4!ObjectReads(t)
  BY AllRead
<1>2. /\ Fresh(t) = P4!Fresh(t)
      /\ \A n, tag : Sample(t, n, tag) = P4!Sample(t, n, tag)
      /\ \A v : Text(t, v) = P4!Text(t, v)
      /\ \A r : Parse(t, r) = P4!Parse(t, r)
  BY Same4 DEF Fresh, Sample, Text, Parse
<1>3. /\ Texts = P4!Streams
      /\ \A v, s : P4!Given(v, s) = [v |-> v, rest |-> s, ok |-> TRUE]
  BY DEF Texts, P4!Streams, P4!Tokens, P4!Given, P4!Reading
<1>4. \A tag \in Nat : <<tag>> \in P4!Fields
  BY DEF P4!Fields, P4!Tokens, P4!newline
<1>5. \A n, tag \in Nat : Sample(t, n, <<tag>>) \in P4!Values(t)
  BY <1>1, <1>2, <1>4 DEF P4!ObjectReads
<1>6. ASSUME NEW old \in P4!Values(t), NEW v \in P4!Values(t), NEW s \in Texts
      PROVE  Parse(t, [v |-> old, rest |-> Text(t, v) \o s, ok |-> TRUE])
                = [v |-> P4!Result(t, old, v), rest |-> s, ok |-> TRUE]
  <2>1. s \in P4!Streams
    BY <1>3
  <2>2. P4!Parse(t, P4!Given(old, P4!Text(t, v) \o s)) = P4!Given(P4!Result(t, old, v), s)
    BY <1>1, <2>1 DEF P4!ObjectReads
  <2>3. Parse(t, P4!Given(old, Text(t, v) \o s)) = P4!Given(P4!Result(t, old, v), s)
    BY <1>2, <2>2
  <2> QED BY <1>3, <2>3
<1> QED BY <1>1, <1>2, <1>3, <1>5, <1>6 DEF P4!ObjectReads

\* Objects that were written, and their texts.
Written == UNION {{[type |-> t, object |-> v] : v \in P4!Values(t)} : t \in Types}

TextsOf(ws) == [k \in 1 .. Len(ws) |-> Text(ws[k].type, ws[k].object)]

\* What was written has a text.
LEMMA WrittenType ==
  \A w \in Written : /\ w.type \in Types /\ w.object \in P4!Values(w.type)
                     /\ Text(w.type, w.object) \in Texts
<1>1. \A w \in Written : w.type \in Types /\ w.object \in P4!Values(w.type)
  BY DEF Written
<1> QED BY <1>1, TypeReads

\* There is one for each.
LEMMA TextsOfType ==
  ASSUME NEW ws \in Seq(Written)
  PROVE  TextsOf(ws) \in Seq(Texts) /\ Len(TextsOf(ws)) = Len(ws)
<1> DEFINE n == Len(ws)
           f == TextsOf(ws)
<1>1. n \in Nat /\ \A k \in 1 .. n : ws[k] \in Written
  OBVIOUS
<1>2. f \in [1 .. n -> Texts]
  <2>1. \A k \in 1 .. n : Text(ws[k].type, ws[k].object) \in Texts
    BY <1>1, WrittenType
  <2> QED BY <2>1 DEF TextsOf
<1> HIDE DEF n, f
<1>3. f \in Seq(Texts) /\ Len(f) = n
  BY <1>1, <1>2
<1> QED BY <1>3 DEF n, f

\* One more object is written, and its text behind those that are there.
LEMMA WrittenMore ==
  ASSUME NEW ws \in Seq(Written), NEW w \in Written
  PROVE  FlattenSeq(TextsOf(Append(ws, w))) = FlattenSeq(TextsOf(ws)) \o Text(w.type, w.object)
<1> DEFINE n == Len(ws)
           x == Text(w.type, w.object)
           us == Append(ws, w)
           f == TextsOf(us)
           g == Append(TextsOf(ws), x)
<1>1. x \in Texts /\ TextsOf(ws) \in Seq(Texts) /\ Len(TextsOf(ws)) = n
  BY WrittenType, TextsOfType
<1>2. us \in Seq(Written) /\ Len(us) = n + 1 /\ n \in Nat
      /\ us[n + 1] = w /\ \A k \in 1 .. n : us[k] = ws[k]
  BY AppendProperties
<1>3. f \in Seq(Texts) /\ Len(f) = n + 1
  BY <1>2, TextsOfType
<1>4. g \in Seq(Texts) /\ Len(g) = n + 1 /\ g[n + 1] = x /\ \A k \in 1 .. n : g[k] = TextsOf(ws)[k]
  BY <1>1, AppendProperties
<1>5. ASSUME NEW k \in 1 .. n + 1 PROVE f[k] = g[k]
  <2>1. f[k] = Text(us[k].type, us[k].object)
    BY <1>2 DEF TextsOf
  <2>2. k \in 1 .. n => TextsOf(ws)[k] = Text(ws[k].type, ws[k].object)
    BY DEF TextsOf
  <2>3. k \in 1 .. n \/ k = n + 1
    BY <1>2
  <2> HIDE DEF f, g, us, n
  <2> QED BY <1>2, <1>4, <2>1, <2>2, <2>3 DEF x
<1>6. f = g
  <2> HIDE DEF f, g
  <2> QED BY <1>3, <1>4, <1>5, SeqEqual
<1>7. FlattenSeq(g) = FlattenSeq(TextsOf(ws)) \o x
  BY <1>1, FlattenMore DEF Texts
<1> QED BY <1>6, <1>7

\* The first is read, and its text taken.
LEMMA WrittenFirst ==
  ASSUME NEW ws \in Seq(Written), ws # <<>>
  PROVE  /\ Head(ws) \in Written /\ Tail(ws) \in Seq(Written)
         /\ FlattenSeq(TextsOf(Tail(ws))) \in Texts
         /\ FlattenSeq(TextsOf(ws))
              = Text(Head(ws).type, Head(ws).object) \o FlattenSeq(TextsOf(Tail(ws)))
<1> DEFINE n  == Len(ws)
           us == Tail(ws)
           f  == TextsOf(ws)
           g  == TextsOf(us)
<1>1. /\ n \in Nat /\ n # 0 /\ Head(ws) = ws[1] /\ Head(ws) \in Written
      /\ us \in Seq(Written) /\ Len(us) = n - 1 /\ \A k \in 1 .. n - 1 : us[k] = ws[k + 1]
  BY SMTT(60)
<1>2. f \in Seq(Texts) /\ Len(f) = n /\ g \in Seq(Texts) /\ Len(g) = n - 1
  BY <1>1, TextsOfType
<1>3. f[1] = Text(ws[1].type, ws[1].object)
  BY <1>1 DEF TextsOf
<1>4. ASSUME NEW k \in 1 .. n - 1 PROVE Tail(f)[k] = g[k]
  <2>1. f[k + 1] = Text(ws[k + 1].type, ws[k + 1].object) /\ g[k] = Text(us[k].type, us[k].object)
    BY <1>1 DEF TextsOf
  <2>2. Tail(f)[k] = f[k + 1]
    <3> HIDE DEF f
    <3> QED BY <1>1, <1>2
  <2> QED BY <1>1, <2>1, <2>2
<1> HIDE DEF f, g
<1>5. f # <<>> /\ Head(f) = f[1] /\ Tail(f) \in Seq(Texts) /\ Len(Tail(f)) = n - 1
  BY <1>1, <1>2
<1>6. Tail(f) = g
  BY <1>2, <1>4, <1>5, SeqEqual
<1>7. FlattenSeq(f) = Head(f) \o FlattenSeq(Tail(f)) /\ FlattenSeq(g) \in Texts
  BY <1>2, <1>5, FlattenMore, SMTT(60) DEF Texts
<1> QED BY <1>1, <1>3, <1>5, <1>6, <1>7 DEF f, g

-----------------------------------------------------------------------------
(* What is left of an object that is read into again.                      *)

\* Sequences joined are as long as both.
LEMMA JoinedLength ==
  \A S : \A a, c \in Seq(S) : a \o c \in Seq(S) /\ Len(a \o c) = Len(a) + Len(c)
OBVIOUS

\* Their elements.
LEMMA JoinedAt ==
  \A S : \A a, c \in Seq(S) : \A p \in 1 .. Len(a) + Len(c) :
    (a \o c)[p] = IF p <= Len(a) THEN a[p] ELSE c[p - Len(a)]
OBVIOUS

\* A sequence has as many elements as its length says.
LEMMA LengthDomain == \A S, n : \A a \in Seq(S) : Len(a) = n => DOMAIN a = 1 .. n
OBVIOUS

\* Three steps and two more.
LEMMA FiveSteps ==
  ASSUME NEW S, NEW a \in Seq(S), NEW c \in Seq(S), Len(a) = 3, Len(c) = 2
  PROVE  /\ DOMAIN (a \o c) = 1 .. 5
         /\ (a \o c)[1] = a[1] /\ (a \o c)[2] = a[2] /\ (a \o c)[3] = a[3]
         /\ (a \o c)[4] = c[1] /\ (a \o c)[5] = c[2]
<1> DEFINE w == a \o c
           n == Len(a)
           m == Len(c)
<1>1. w \in Seq(S) /\ Len(w) = n + m
  BY JoinedLength, Zenon
<1>2. \A p \in 1 .. n + m : w[p] = IF p <= n THEN a[p] ELSE c[p - n]
  BY JoinedAt, Zenon
<1>3. n = 3 /\ m = 2
  OBVIOUS
<1> HIDE DEF w, n, m
<1>4. w \in Seq(S) /\ Len(w) = 5
  BY <1>1, <1>3
<1>5. DOMAIN w = 1 .. 5
  BY <1>4, LengthDomain, Zenon
<1>6. \A p \in 1 .. 5 : w[p] = IF p <= 3 THEN a[p] ELSE c[p - 3]
  BY <1>2, <1>3
<1>7. w[1] = a[1] /\ w[2] = a[2] /\ w[3] = a[3]
  BY <1>6
<1>8. w[4] = c[1] /\ w[5] = c[2]
  BY <1>6
<1> QED BY <1>5, <1>7, <1>8 DEF w

\* The first five numbers.
LEMMA UpToFive ==
  /\ \A p \in 1 .. 5 : p = 1 \/ p = 2 \/ p = 3 \/ p = 4 \/ p = 5
  /\ 1 \in 1 .. 5 /\ 2 \in 1 .. 5 /\ 3 \in 1 .. 5 /\ 4 \in 1 .. 5 /\ 5 \in 1 .. 5
OBVIOUS

\* Where each member of a sharing is.
LEMMA SharingPlaces ==
  ASSUME NEW w, w[1].name = "encryptions", w[2].name = "commitments",
         w[3].name = "dleq_proofs", w[4].name = "decomp_pi", w[5].name = ""
  PROVE  /\ {w[p].name : p \in 1 .. 5} \ {""}
              = {"encryptions", "commitments", "dleq_proofs", "decomp_pi"}
         /\ \A p \in 1 .. 5 : /\ w[p].name = "encryptions" <=> p = 1
                              /\ w[p].name = "commitments" <=> p = 2
                              /\ w[p].name = "dleq_proofs" <=> p = 3
                              /\ w[p].name = "decomp_pi" <=> p = 4
<1>1. ASSUME NEW p \in 1 .. 5
      PROVE  /\ w[p].name = "encryptions" <=> p = 1
             /\ w[p].name = "commitments" <=> p = 2
             /\ w[p].name = "dleq_proofs" <=> p = 3
             /\ w[p].name = "decomp_pi" <=> p = 4
  <2>1. /\ 1 # 2 /\ 1 # 3 /\ 1 # 4 /\ 1 # 5 /\ 2 # 3 /\ 2 # 4 /\ 2 # 5
        /\ 3 # 4 /\ 3 # 5 /\ 4 # 5
    OBVIOUS
  <2>2. CASE p = 1
    BY <2>1, <2>2, Zenon
  <2>3. CASE p = 2
    BY <2>1, <2>3, Zenon
  <2>4. CASE p = 3
    BY <2>1, <2>4, Zenon
  <2>5. CASE p = 4
    BY <2>1, <2>5, Zenon
  <2>6. CASE p = 5
    BY <2>1, <2>6, Zenon
  <2>7. p = 1 \/ p = 2 \/ p = 3 \/ p = 4 \/ p = 5
    BY UpToFive, Zenon
  <2> QED BY <2>2, <2>3, <2>4, <2>5, <2>6, <2>7, Zenon
<1>2. {w[p].name : p \in 1 .. 5} = {w[1].name, w[2].name, w[3].name, w[4].name, w[5].name}
  BY UpToFive, Zenon
<1>3. {w[p].name : p \in 1 .. 5} \ {""}
        = {"encryptions", "commitments", "dleq_proofs", "decomp_pi"}
  BY <1>2, Zenon
<1> QED BY <1>1, <1>3

\* The steps of a sharing's scripts.
LEMMA SharingScripts ==
  /\ DOMAIN Writes["Sharing"] = 1 .. 5
  /\ Writes["Sharing"][1].name = "encryptions" /\ Reads["Sharing"][1].does = "cleared"
  /\ Writes["Sharing"][2].name = "commitments" /\ Reads["Sharing"][2].does = "appended"
  /\ Writes["Sharing"][3].name = "dleq_proofs" /\ Reads["Sharing"][3].does = "appended"
  /\ Writes["Sharing"][4].name = "decomp_pi"   /\ Reads["Sharing"][4].does = "part"
  /\ Writes["Sharing"][5].name = ""
<1> DEFINE d  == part("decomp_pi", "Decomposition")
           ls == Lines(<<d>>)
           v1 == vector("encryptions", "group")
           v2 == vector("commitments", "group")
           v3 == vector("dleq_proofs", "DleqDual")
           r1 == cleared("encryptions", "group")
           r2 == appended("commitments", "group")
           r3 == appended("dleq_proofs", "DleqDual")
           ws == <<v1, v2, v3>> \o ls
           rs == <<r1, r2, r3>> \o ls
<1>1. Writes["Sharing"] = ws /\ Reads["Sharing"] = rs
  BY DEF Writes, Reads, WriteSharing, ReadSharing
<1>2. /\ v1.name = "encryptions" /\ r1.does = "cleared"
      /\ v2.name = "commitments" /\ r2.does = "appended"
      /\ v3.name = "dleq_proofs" /\ r3.does = "appended"
      /\ d.name = "decomp_pi" /\ d.does = "part" /\ line.name = ""
  BY DEF part, vector, cleared, appended, line
<1> HIDE DEF d, v1, v2, v3, r1, r2, r3
<1>3. ls \in Seq({d, line}) /\ Len(ls) = 2 /\ ls[1] = d /\ ls[2] = line
  <2>1. ls = [k \in 1 .. 2 |-> IF k % 2 = 1 THEN <<d>>[(k + 1) \div 2] ELSE line]
    BY DEF Lines
  <2>2. ls[1] = d /\ ls[2] = line
    BY <2>1
  <2>3. ls \in [1 .. 2 -> {d, line}]
    <3>1. \A k \in 1 .. 2 : ls[k] \in {d, line}
      BY <2>2
    <3> HIDE DEF ls
    <3> QED BY <2>1, <3>1
  <2> DEFINE T == {d, line}
             n == 2
  <2>4. ls \in [1 .. n -> T] /\ n \in Nat
    BY <2>3
  <2> HIDE DEF ls, T, n
  <2>5. ls \in Seq(T) /\ Len(ls) = n
    BY <2>4
  <2> QED BY <2>2, <2>5 DEF T, n
<1> HIDE DEF ls
<1>4. /\ DOMAIN ws = 1 .. 5 /\ ws[1] = v1 /\ ws[2] = v2 /\ ws[3] = v3
      /\ ws[4] = d /\ ws[5] = line
  <2> DEFINE S == {v1, v2, v3, d, line}
             a == <<v1, v2, v3>>
  <2>1. a \in Seq(S) /\ Len(a) = 3 /\ a[1] = v1 /\ a[2] = v2 /\ a[3] = v3
    OBVIOUS
  <2>2. ls \in Seq(S)
    <3>1. {d, line} \subseteq S
      OBVIOUS
    <3> HIDE DEF S
    <3> QED BY <1>3, <3>1
  <2>3. ws = a \o ls
    OBVIOUS
  <2> HIDE DEF S, a, ws
  <2>4. a \in Seq(S) /\ ls \in Seq(S) /\ Len(a) = 3 /\ Len(ls) = 2
    BY <1>3, <2>1, <2>2
  <2>5. /\ DOMAIN (a \o ls) = 1 .. 5
        /\ (a \o ls)[1] = a[1] /\ (a \o ls)[2] = a[2] /\ (a \o ls)[3] = a[3]
        /\ (a \o ls)[4] = ls[1] /\ (a \o ls)[5] = ls[2]
    BY <2>4, FiveSteps, ZenonT(60)
  <2> QED BY <1>3, <2>1, <2>3, <2>5, Zenon
<1>5. rs[1] = r1 /\ rs[2] = r2 /\ rs[3] = r3 /\ rs[4] = d
  <2> DEFINE S == {r1, r2, r3, d, line}
             a == <<r1, r2, r3>>
  <2>1. a \in Seq(S) /\ Len(a) = 3 /\ a[1] = r1 /\ a[2] = r2 /\ a[3] = r3
    OBVIOUS
  <2>2. ls \in Seq(S)
    <3>1. {d, line} \subseteq S
      OBVIOUS
    <3> HIDE DEF S
    <3> QED BY <1>3, <3>1
  <2>3. rs = a \o ls
    OBVIOUS
  <2> HIDE DEF S, a, rs
  <2>4. a \in Seq(S) /\ ls \in Seq(S) /\ Len(a) = 3 /\ Len(ls) = 2
    BY <1>3, <2>1, <2>2
  <2>5. /\ DOMAIN (a \o ls) = 1 .. 5
        /\ (a \o ls)[1] = a[1] /\ (a \o ls)[2] = a[2] /\ (a \o ls)[3] = a[3]
        /\ (a \o ls)[4] = ls[1] /\ (a \o ls)[5] = ls[2]
    BY <2>4, FiveSteps, ZenonT(60)
  <2> QED BY <1>3, <2>1, <2>3, <2>5, Zenon
<1> HIDE DEF ws, rs
<1> QED BY <1>1, <1>2, <1>4, <1>5

\* A sharing read again keeps its commitments and proofs in front of the new ones.
LEMMA SharingResult ==
  \A old, v \in P4!Values("Sharing") :
    P4!Result("Sharing", old, v)
      = [v EXCEPT !.commitments = old.commitments \o @, !.dleq_proofs = old.dleq_proofs \o @]
<1> SUFFICES ASSUME NEW old \in P4!Values("Sharing"), NEW v \in P4!Values("Sharing")
             PROVE  P4!Result("Sharing", old, v)
                      = [v EXCEPT !.commitments = old.commitments \o @,
                                  !.dleq_proofs = old.dleq_proofs \o @]
  OBVIOUS
<1> DEFINE W == Writes["Sharing"]
           R == Reads["Sharing"]
           N == {"encryptions", "commitments", "dleq_proofs", "decomp_pi"}
           place(name) == CHOOSE p \in DOMAIN W : W[p].name = name
<1>1. "Sharing" \in P4!Types
  BY DEF P4!Types, Writes
<1>2. \A name : P4!Place("Sharing", name) = place(name)
  BY DEF P4!Place
<1> HIDE DEF W, R
<1>3. /\ DOMAIN W = 1 .. 5
      /\ W[1].name = "encryptions" /\ R[1].does = "cleared"
      /\ W[2].name = "commitments" /\ R[2].does = "appended"
      /\ W[3].name = "dleq_proofs" /\ R[3].does = "appended"
      /\ W[4].name = "decomp_pi"   /\ R[4].does = "part"
      /\ W[5].name = ""
  BY SharingScripts DEF W, R
<1>4. /\ P4!Names("Sharing") = N
      /\ place("encryptions") = 1 /\ place("commitments") = 2
      /\ place("dleq_proofs") = 3 /\ place("decomp_pi") = 4
  <2>1. P4!Names("Sharing") = {W[p].name : p \in 1 .. 5} \ {""}
    BY <1>3 DEF P4!Names, W
  <2>2. \A name : place(name) = CHOOSE p \in 1 .. 5 : W[p].name = name
    BY <1>3
  <2> HIDE DEF place
  <2>3. /\ {W[p].name : p \in 1 .. 5} \ {""} = N
        /\ \A p \in 1 .. 5 : /\ W[p].name = "encryptions" <=> p = 1
                             /\ W[p].name = "commitments" <=> p = 2
                             /\ W[p].name = "dleq_proofs" <=> p = 3
                             /\ W[p].name = "decomp_pi" <=> p = 4
    BY <1>3, SharingPlaces
  <2>4. place("encryptions") = 1
    BY <2>2, <2>3, UpToFive, Zenon
  <2>5. place("commitments") = 2
    BY <2>2, <2>3, UpToFive, Zenon
  <2>6. place("dleq_proofs") = 3
    BY <2>2, <2>3, UpToFive, Zenon
  <2>7. place("decomp_pi") = 4
    BY <2>2, <2>3, UpToFive, Zenon
  <2> QED BY <2>1, <2>3, <2>4, <2>5, <2>6, <2>7
<1>6. v = [name \in N |-> v[name]]
  BY <1>1, <1>4 DEF P4!Values
<1>7. P4!Result("Sharing", old, v)
        = [name \in N |-> P4!Left(R[place(name)], old[name], v[name])]
  BY <1>1, <1>2, <1>4 DEF P4!Result, R
<1>8. /\ P4!Left(R[1], old["encryptions"], v["encryptions"]) = v["encryptions"]
      /\ P4!Left(R[2], old["commitments"], v["commitments"])
           = old["commitments"] \o v["commitments"]
      /\ P4!Left(R[3], old["dleq_proofs"], v["dleq_proofs"])
           = old["dleq_proofs"] \o v["dleq_proofs"]
      /\ P4!Left(R[4], old["decomp_pi"], v["decomp_pi"]) = v["decomp_pi"]
  BY <1>3 DEF P4!Left
<1> DEFINE e(name) == CASE name = "commitments" -> old["commitments"] \o v["commitments"]
                        [] name = "dleq_proofs" -> old["dleq_proofs"] \o v["dleq_proofs"]
                        [] OTHER -> v[name]
<1>9. ASSUME NEW name \in N PROVE P4!Left(R[place(name)], old[name], v[name]) = e(name)
  <2> HIDE DEF place
  <2> QED BY <1>4, <1>8
<1> DEFINE c == old["commitments"] \o v["commitments"]
           q == old["dleq_proofs"] \o v["dleq_proofs"]
<1>10. [v EXCEPT !.commitments = old.commitments \o @, !.dleq_proofs = old.dleq_proofs \o @]
         = [v EXCEPT !["commitments"] = c, !["dleq_proofs"] = q]
  OBVIOUS
<1>11. [v EXCEPT !["commitments"] = c, !["dleq_proofs"] = q] = [name \in N |-> e(name)]
  <2>1. DOMAIN v = N
    BY <1>6
  <2>2. [v EXCEPT !["commitments"] = c, !["dleq_proofs"] = q]
          = [name \in DOMAIN v |-> IF name = "dleq_proofs" THEN q
                                   ELSE IF name = "commitments" THEN c ELSE v[name]]
    <3> HIDE DEF c, q, N
    <3> QED OBVIOUS
  <2>3. \A name \in N : e(name) = IF name = "dleq_proofs" THEN q
                                  ELSE IF name = "commitments" THEN c ELSE v[name]
    OBVIOUS
  <2> HIDE DEF c, q, N, e
  <2> QED BY <2>1, <2>2, <2>3
<1> HIDE DEF N, e, place, c, q
<1> QED BY <1>7, <1>9, <1>10, <1>11

\* An optional keeps its value if none was written.
LEMMA OptionalResult ==
  \A old, v \in P4!Values("Optional") :
    P4!Result("Optional", old, v) = IF v.value = <<>> THEN old ELSE v
<1> SUFFICES ASSUME NEW old \in P4!Values("Optional"), NEW v \in P4!Values("Optional")
             PROVE  P4!Result("Optional", old, v) = IF v.value = <<>> THEN old ELSE v
  OBVIOUS
<1> DEFINE W == Writes["Optional"]
           R == Reads["Optional"]
           N == {"value"}
           m == maybe("value", "Dleq")
<1>1. W = <<m>> /\ R = <<m>> /\ "Optional" \in P4!Types
  BY DEF Writes, Reads, WriteOptional, ReadOptional, P4!Types
<1>2. m.name = "value" /\ m.does = "maybe" /\ m.name # ""
  BY DEF maybe
<1> HIDE DEF W, R, m
<1>3. DOMAIN W = {1} /\ W[1] = m /\ R[1] = m
  BY <1>1
<1>4. P4!Names("Optional") = N
  <2>1. P4!Names("Optional") = {W[p].name : p \in {1}} \ {""}
    BY <1>3 DEF P4!Names, W
  <2> QED BY <1>2, <1>3, <2>1
<1>5. P4!Place("Optional", "value") = 1
  <2>1. P4!Place("Optional", "value") = CHOOSE p \in {1} : W[p].name = "value"
    BY <1>3 DEF P4!Place, W
  <2> QED BY <1>2, <1>3, <2>1
<1>6. v = [name \in N |-> v[name]] /\ old = [name \in N |-> old[name]]
  BY <1>1, <1>4 DEF P4!Values
<1>7. P4!Result("Optional", old, v)
        = [name \in N |-> P4!Left(R[P4!Place("Optional", name)], old[name], v[name])]
  BY <1>1, <1>4 DEF P4!Result, R
<1>8. P4!Left(R[P4!Place("Optional", "value")], old["value"], v["value"])
        = IF v["value"] = <<>> THEN old["value"] ELSE v["value"]
  BY <1>2, <1>3, <1>5 DEF P4!Left
<1>9. P4!Result("Optional", old, v)
        = [name \in N |-> IF v["value"] = <<>> THEN old[name] ELSE v[name]]
  BY <1>7, <1>8
<1> QED BY <1>6, <1>9

\* Every other object is what was written.
LEMMA OtherResult ==
  ASSUME NEW t \in Types, t # "Sharing", t # "Optional"
  PROVE  \A old, v \in P4!Values(t) : P4!Result(t, old, v) = v
<1>1. /\ "group" \in Parts4 /\ "number" \in Parts4 /\ "Dleq" \in Parts4
      /\ "Decomposition" \in Parts4 /\ "Aggregate" \in Parts4
  BY DEF Parts1, Parts2, Parts3, Parts4
<1>2. t \in {"DleqDual", "Dleq", "Decomposition", "Decryption", "Beacon", "Config",
             "Aggregate", "Context", "Setup"}
  BY DEF Types, OfAggregates!Types, Writes
<1> DEFINE how == {"resized"}
<1>3. Agrees(t, Parts4, how)
  BY <1>1, <1>2, DleqDualAgrees, DleqAgrees, DecompositionAgrees, DecryptionAgrees,
     BeaconAgrees, ConfigAgrees, AggregateAgrees, ContextAgrees, SetupAgrees
<1>4. "appended" \notin how /\ "maybe" \notin how
  OBVIOUS
<1> HIDE DEF how
<1>5. P4!Scripted(t) /\ P4!Replaces(t)
  BY <1>3, <1>4, Scripted4
<1> QED BY <1>5, P4!ObjectsReplaced

-----------------------------------------------------------------------------
(* The inductive invariant.                                                *)

\* What was read is what Result says of what was written and what was there.
ReadRight(r) ==
  /\ r.type \in Types
  /\ r.before \in P4!Values(r.type) /\ r.wrote \in P4!Values(r.type)
  /\ r.read = P4!Result(r.type, r.before, r.wrote)

HeldRight == DOMAIN held = Types /\ \A t \in Types : held[t] \in P4!Values(t)

\* The stream is the text of what is pending, nothing else.
StreamInv ==
  /\ objects \in Nat
  /\ inStep
  /\ pending \in Seq(Written)
  /\ stream = FlattenSeq(TextsOf(pending))
  /\ HeldRight
  /\ \A r \in last : ReadRight(r)

\* The text of nothing.
LEMMA NothingJoined == FlattenSeq(<<>>) = <<>>
BY DEF FlattenSeq

\* At the beginning nothing is pending.
LEMMA StreamInit == TextInit => StreamInv
<1> SUFFICES ASSUME TextInit PROVE StreamInv
  OBVIOUS
<1>1. objects \in Nat /\ inStep /\ last = {} /\ pending = <<>> /\ stream = <<>>
  BY DEF TextInit
<1>2. pending \in Seq(Written)
  BY <1>1
<1>3. FlattenSeq(TextsOf(pending)) = <<>>
  <2>1. TextsOf(pending) \in Seq(Texts) /\ Len(TextsOf(pending)) = 0
    BY <1>1, <1>2, TextsOfType
  <2>2. TextsOf(pending) = <<>>
    BY <2>1
  <2> QED BY <2>2, NothingJoined
<1>4. HeldRight
  <2>1. held = [t \in Types |-> Fresh(t)]
    BY DEF TextInit
  <2> QED BY <2>1, TypeReads DEF HeldRight
<1> QED BY <1>1, <1>2, <1>3, <1>4 DEF StreamInv

\* What is written comes at the end of both.
LEMMA StreamWrite == StreamInv /\ Write => StreamInv'
<1> SUFFICES ASSUME StreamInv, Write PROVE StreamInv'
  OBVIOUS
<1>1. PICK t \in Types, n \in ObjectSizes :
        /\ stream' = stream \o Text(t, Sample(t, n, <<objects + 1>>))
        /\ pending' = Append(pending, [type |-> t, object |-> Sample(t, n, <<objects + 1>>)])
  BY DEF Write
<1> DEFINE v == Sample(t, n, <<objects + 1>>)
           w == [type |-> t, object |-> v]
<1>2. objects \in Nat /\ inStep /\ HeldRight /\ (\A r \in last : ReadRight(r))
      /\ pending \in Seq(Written) /\ stream = FlattenSeq(TextsOf(pending))
  BY DEF StreamInv
<1>3. n \in Nat /\ objects + 1 \in Nat
  BY <1>2, TextAssumption
<1>4. v \in P4!Values(t)
  BY <1>3, TypeReads
<1> HIDE DEF v
<1>5. w \in Written /\ w.type = t /\ w.object = v
  BY <1>4 DEF Written
<1>6. pending' = Append(pending, w) /\ stream' = stream \o Text(w.type, w.object)
  BY <1>1, <1>5 DEF v
<1> HIDE DEF w
<1>7. pending' \in Seq(Written)
  BY <1>2, <1>5, <1>6
<1>8. stream' = FlattenSeq(TextsOf(pending'))
  BY <1>2, <1>5, <1>6, WrittenMore
<1>9. objects' \in Nat /\ inStep' = inStep /\ held' = held /\ last' = last
  BY <1>3 DEF Write
<1>10. HeldRight' /\ \A r \in last' : ReadRight(r)
  BY <1>2, <1>9 DEF HeldRight
<1> QED BY <1>2, <1>7, <1>8, <1>9, <1>10 DEF StreamInv

\* What is read is the first of both, whatever it is read into.
LEMMA StreamRead ==
  ASSUME StreamInv, pending # <<>>, NEW before \in P4!Values(Head(pending).type),
         ReadInto(Head(pending).type, before)
  PROVE  StreamInv'
<1> DEFINE w    == Head(pending)
           t    == w.type
           v    == w.object
           rest == FlattenSeq(TextsOf(Tail(pending)))
           got  == P4!Result(t, before, v)
<1>1. objects \in Nat /\ HeldRight /\ pending \in Seq(Written)
      /\ stream = FlattenSeq(TextsOf(pending))
  BY DEF StreamInv
<1>2. /\ w \in Written /\ Tail(pending) \in Seq(Written) /\ rest \in Texts
      /\ stream = Text(t, v) \o rest
  BY <1>1, WrittenFirst
<1>3. t \in Types /\ v \in P4!Values(t)
  BY <1>2, WrittenType
<1>4. Parse(t, [v |-> before, rest |-> stream, ok |-> TRUE])
        = [v |-> got, rest |-> rest, ok |-> TRUE]
  BY <1>2, <1>3, TypeReads, ZenonT(60)
<1>5. got \in P4!Values(t)
  BY <1>3, TypeReads
<1>6. /\ stream' = rest /\ held' = [held EXCEPT ![t] = got] /\ inStep' = TRUE
      /\ last' = {[type |-> t, before |-> before, wrote |-> v, read |-> got]}
      /\ pending' = Tail(pending) /\ objects' = objects
  <2> DEFINE parsed == Parse(t, [v |-> before, rest |-> stream, ok |-> TRUE])
  <2>1. /\ stream' = parsed.rest /\ held' = [held EXCEPT ![t] = parsed.v] /\ inStep' = parsed.ok
        /\ last' = {[type |-> t, before |-> before, wrote |-> v, read |-> parsed.v]}
        /\ pending' = Tail(pending) /\ objects' = objects
    BY DEF ReadInto
  <2>2. parsed.v = got /\ parsed.rest = rest /\ parsed.ok = TRUE
    <3> HIDE DEF got, rest, parsed
    <3>1. parsed = [v |-> got, rest |-> rest, ok |-> TRUE]
      BY <1>4 DEF parsed
    <3> QED BY <3>1
  <2> HIDE DEF parsed, got, rest, t, v
  <2> QED BY <2>1, <2>2
<1>7. HeldRight'
  <2> HIDE DEF got, t
  <2> QED BY <1>1, <1>3, <1>5, <1>6 DEF HeldRight
<1>8. ASSUME NEW r \in last' PROVE ReadRight(r)
  <2> HIDE DEF t, v
  <2>1. r.type = t /\ r.before = before /\ r.wrote = v /\ r.read = got
    BY <1>6
  <2> QED BY <1>3, <2>1 DEF ReadRight, t
<1> HIDE DEF got, t, v, w
<1> QED BY <1>1, <1>2, <1>6, <1>7, <1>8 DEF StreamInv

\* No step breaks the invariant.
LEMMA StreamNext == StreamInv /\ [TextNext]_textVars => StreamInv'
<1> SUFFICES ASSUME StreamInv, [TextNext]_textVars PROVE StreamInv'
  OBVIOUS
<1>1. CASE Write
  BY <1>1, StreamWrite
<1>2. ASSUME pending # <<>> PROVE Head(pending).type \in Types
  BY <1>2, WrittenFirst, WrittenType DEF StreamInv
<1>3. CASE ReadNew
  <2>1. pending # <<>> /\ ReadInto(Head(pending).type, Fresh(Head(pending).type))
    BY <1>3 DEF ReadNew
  <2>2. Fresh(Head(pending).type) \in P4!Values(Head(pending).type)
    BY <1>2, <2>1, TypeReads
  <2> QED BY <2>1, <2>2, StreamRead
<1>4. CASE ReadAgain
  <2>1. pending # <<>> /\ ReadInto(Head(pending).type, held[Head(pending).type])
    BY <1>4 DEF ReadAgain
  <2>2. held[Head(pending).type] \in P4!Values(Head(pending).type)
    BY <1>2, <2>1 DEF StreamInv, HeldRight
  <2> QED BY <2>1, <2>2, StreamRead
<1>5. CASE UNCHANGED textVars
  BY <1>5 DEF textVars, StreamInv, HeldRight
<1> QED BY <1>1, <1>3, <1>4, <1>5 DEF TextNext

\* So it always holds.
LEMMA StreamInvariant == TextSpec => []StreamInv
<1> QED BY StreamInit, StreamNext, PTL DEF TextSpec

\* The lines of every writer are those of its reader, and what is read into a new
\* object is what was written, for objects of every size.
THEOREM ReadBack == TextSpec => []ReadsBack
<1>1. StreamInv => ReadsBack
  <2> SUFFICES ASSUME StreamInv PROVE ReadsBack
    OBVIOUS
  <2>1. InStep
    BY DEF StreamInv, InStep, TextsOf
  <2>2. ASSUME NEW r \in last, r.before = Fresh(r.type) PROVE r.read = r.wrote
    <3>1. /\ r.type \in Types /\ r.wrote \in P4!Values(r.type)
          /\ r.read = P4!Result(r.type, Fresh(r.type), r.wrote)
      BY <2>2 DEF StreamInv, ReadRight
    <3> QED BY <3>1, TypeReads
  <2> QED BY <2>1, <2>2 DEF ReadsBack
<1> QED BY <1>1, StreamInvariant, PTL

\* Nothing is left of an object that is read into again but a sharing's commitments
\* and proofs and the value of an optional, for objects of every size.
THEOREM PartsLeft == TextSpec => []StaleParts
<1>1. StreamInv => StaleParts
  <2> SUFFICES ASSUME StreamInv, NEW r \in last
               PROVE  r.read =
                 CASE r.type = "Sharing" ->
                        [r.wrote EXCEPT !.commitments = r.before.commitments \o @,
                                        !.dleq_proofs = r.before.dleq_proofs \o @]
                   [] r.type = "Optional" -> IF r.wrote.value = <<>> THEN r.before ELSE r.wrote
                   [] OTHER -> r.wrote
    BY DEF StaleParts
  <2>1. /\ r.type \in Types /\ r.before \in P4!Values(r.type) /\ r.wrote \in P4!Values(r.type)
        /\ r.read = P4!Result(r.type, r.before, r.wrote)
    BY DEF StreamInv, ReadRight
  <2>2. CASE r.type = "Sharing"
    <3>1. r.read = [r.wrote EXCEPT !.commitments = r.before.commitments \o @,
                                   !.dleq_proofs = r.before.dleq_proofs \o @]
      BY <2>1, <2>2, SharingResult
    <3> QED BY <2>2, <3>1
  <2>3. CASE r.type = "Optional"
    <3>1. r.read = IF r.wrote.value = <<>> THEN r.before ELSE r.wrote
      BY <2>1, <2>3, OptionalResult
    <3> QED BY <2>3, <3>1
  <2>4. CASE r.type # "Sharing" /\ r.type # "Optional"
    <3>1. r.read = r.wrote
      BY <2>1, <2>4, OtherResult
    <3> QED BY <2>4, <3>1
  <2> QED BY <2>2, <2>3, <2>4
<1> QED BY <1>1, StreamInvariant, PTL
===============================================================================
