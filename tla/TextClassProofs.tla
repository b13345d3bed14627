---------------------------- MODULE TextClassProofs ---------------------------
(***************************************************************************)
(* If the parts of an object read back, the object does (TextClass): for   *)
(* any scripts of a writer and a reader that agree step by step, what the  *)
(* reader takes from the stream is just what the writer put there, and the *)
(* object it leaves is told by what was written and what was there before. *)
(* TextStreams has four levels of classes; the result is cited for each.   *)
(*                                                                         *)
(* A text is known from its end: what follows the k-th step is the text of *)
(* the step after it and what follows that.  The reader's state after      *)
(* every step can then be written down, and the recursive definition of    *)
(* the reading has no other solution.                                      *)
(***************************************************************************)
EXTENDS TextClass, WellFoundedInduction, SequenceTheorems, TLAPS

CONSTANTS
  Parts,           \* the types that parts have
  PartValues(_)    \* the objects of each

-----------------------------------------------------------------------------
(* Induction, and texts known from their end.                              *)

\* Induction up to a bound.
LEMMA BoundedInduction ==
  ASSUME NEW S, NEW n \in Nat, 0 \in S, \A k \in 0 .. n - 1 : k \in S => k + 1 \in S
  PROVE  \A k \in 0 .. n : k \in S
<1> DEFINE T == {k \in 0 .. n : k \notin S}
           R == {ss \in Nat \X Nat : ss[1] < ss[2]}
<1>1. SUFFICES ASSUME T # {} PROVE FALSE
  OBVIOUS
<1>2. IsWellFoundedOn(R, Nat)
  BY NatLessThanWellFounded DEF OpToRel
<1>3. PICK m \in T : \A k \in T : ~ (<<k, m>> \in R)
  <2>1. T \subseteq Nat
    OBVIOUS
  <2> HIDE DEF R, T
  <2> QED BY <1>1, <1>2, <2>1, WFMin
<1>4. m # 0 /\ m \in Nat /\ m - 1 \in 0 .. n - 1 /\ m = (m - 1) + 1
  OBVIOUS
<1>5. m - 1 \notin T
  <2>1. <<m - 1, m>> \in Nat \X Nat /\ m - 1 < m
    BY <1>4
  <2>2. <<m - 1, m>> \in R
    BY <2>1
  <2> QED BY <1>3, <2>2
<1>6. m \in S
  BY <1>4, <1>5
<1> QED BY <1>6

\* A step taken again and again: h has the values from the start on.
Iterates(h, m, X, start, step) ==
  /\ h \in [0 .. m -> X]
  /\ h[0] = start
  /\ \A k \in 1 .. m : h[k] = step[k][h[k - 1]]

\* A function made by steps, one after the other.
LEMMA Iterated ==
  ASSUME NEW m \in Nat, NEW X, NEW start \in X, NEW step \in [1 .. m -> [X -> X]]
  PROVE  \E h : Iterates(h, m, X, start, step)
<1> DEFINE P(n) == \E h : Iterates(h, n, X, start, step)
           S    == {n \in 0 .. m : P(n)}
<1>1. P(0)
  <2> DEFINE h == [k \in 0 .. 0 |-> start]
  <2>1. Iterates(h, 0, X, start, step)
    BY DEF Iterates
  <2> HIDE DEF h
  <2> QED BY <2>1
<1>2. ASSUME NEW n \in 0 .. m - 1, P(n) PROVE P(n + 1)
  <2>1. PICK h : Iterates(h, n, X, start, step)
    BY <1>2
  <2> DEFINE x == step[n + 1][h[n]]
             g == [k \in 0 .. n + 1 |-> IF k = n + 1 THEN x ELSE h[k]]
  <2>2. x \in X
    <3>1. n + 1 \in 1 .. m /\ h[n] \in X
      BY <2>1 DEF Iterates
    <3>2. step[n + 1] \in [X -> X]
      BY <3>1
    <3> QED BY <3>1, <3>2
  <2>3. g \in [0 .. n + 1 -> X] /\ g[0] = start
    BY <2>1, <2>2 DEF Iterates
  <2>4. ASSUME NEW k \in 1 .. n + 1 PROVE g[k] = step[k][g[k - 1]]
    <3>1. CASE k = n + 1
      <4>1. k - 1 = n /\ n \in 0 .. n + 1 /\ n # n + 1
        BY <3>1
      <4>2. g[k] = x /\ g[k - 1] = h[n]
        BY <3>1, <4>1
      <4> QED BY <3>1, <4>2
    <3>2. CASE k \in 1 .. n
      <4>1. g[k] = h[k] /\ g[k - 1] = h[k - 1]
        BY <3>2
      <4>2. h[k] = step[k][h[k - 1]]
        BY <2>1, <3>2 DEF Iterates
      <4> QED BY <4>1, <4>2
    <3> QED BY <3>1, <3>2
  <2> HIDE DEF g
  <2>5. Iterates(g, n + 1, X, start, step)
    BY <2>3, <2>4 DEF Iterates
  <2> QED BY <2>5
<1> HIDE DEF P
<1>3. \A n \in 0 .. m : n \in S
  <2>1. 0 \in S
    BY <1>1
  <2>2. \A n \in 0 .. m - 1 : n \in S => n + 1 \in S
    BY <1>2
  <2> HIDE DEF S
  <2> QED BY <2>1, <2>2, BoundedInduction
<1> QED BY <1>3 DEF P

\* Pieces joined, from the end: what follows each piece is the next one and what
\* follows that.
FromTheEnd(g, X, m, pieces) ==
  /\ g \in [1 .. m + 1 -> Seq(X)]
  /\ g[m + 1] = <<>>
  /\ g[1] = FlattenSeq(pieces)
  /\ \A k \in 1 .. m : g[k] = pieces[k] \o g[k + 1]

\* There are such pieces.
LEMMA JoinedFromTheEnd ==
  ASSUME NEW X, NEW m \in Nat, NEW pieces \in [1 .. m -> Seq(X)]
  PROVE  \E g : FromTheEnd(g, X, m, pieces)
<1>1. PICK g \in [1 .. m + 1 -> Seq(X)] :
        g[m + 1] = <<>> /\ \A k \in 1 .. m : g[k] = pieces[k] \o g[k + 1]
  <2> DEFINE step == [k \in 1 .. m |-> [s \in Seq(X) |-> pieces[(m - k) + 1] \o s]]
  <2>1. step \in [1 .. m -> [Seq(X) -> Seq(X)]]
    <3>1. ASSUME NEW k \in 1 .. m, NEW s \in Seq(X) PROVE pieces[(m - k) + 1] \o s \in Seq(X)
      <4>1. (m - k) + 1 \in 1 .. m
        OBVIOUS
      <4>2. pieces[(m - k) + 1] \in Seq(X)
        BY <4>1
      <4> QED BY <4>2
    <3> QED BY <3>1
  <2>2. \A k \in 1 .. m, s \in Seq(X) : step[k][s] = pieces[(m - k) + 1] \o s
    OBVIOUS
  <2> HIDE DEF step
  <2>3. PICK h \in [0 .. m -> Seq(X)] :
          h[0] = <<>> /\ \A k \in 1 .. m : h[k] = step[k][h[k - 1]]
    <3> DEFINE Y == Seq(X)
               start == <<>>
    <3>1. start \in Y /\ step \in [1 .. m -> [Y -> Y]]
      BY <2>1
    <3> HIDE DEF Y, start
    <3>2. \E h : Iterates(h, m, Y, start, step)
      BY <3>1, Iterated
    <3> QED BY <3>2 DEF Iterates, Y, start
  <2> DEFINE g == [k \in 1 .. m + 1 |-> h[(m + 1) - k]]
  <2>4. g \in [1 .. m + 1 -> Seq(X)] /\ g[m + 1] = <<>>
    BY <2>3
  <2>5. ASSUME NEW k \in 1 .. m PROVE g[k] = pieces[k] \o g[k + 1]
    <3> DEFINE j == (m + 1) - k
    <3>1. j \in 1 .. m /\ (m - j) + 1 = k /\ j - 1 = (m + 1) - (k + 1)
      OBVIOUS
    <3>2. h[j] = pieces[(m - j) + 1] \o h[j - 1]
      <4>1. h[j - 1] \in Seq(X)
        BY <2>3, <3>1
      <4> QED BY <2>2, <2>3, <3>1, <4>1
    <3> QED BY <3>1, <3>2, SMTT(60)
  <2> HIDE DEF g
  <2> QED BY <2>4, <2>5
<1>2. CASE m = 0
  <2>1. pieces = <<>> /\ FlattenSeq(pieces) = pieces
    BY <1>2 DEF FlattenSeq
  <2>2. FromTheEnd(g, X, m, pieces)
    BY <1>1, <1>2, <2>1 DEF FromTheEnd
  <2> QED BY <2>2
<1>3. CASE m # 0
  <2> DEFINE T == {k \in 1 .. m : TRUE}
             F(f) == f = [k \in 1 .. m |-> IF k = 1 THEN pieces[k] ELSE f[k - 1] \o pieces[k]]
  <2>1. \E f : F(f)
    <3> DEFINE step == [k \in 1 .. m |-> [s \in Seq(X) |-> s \o pieces[k]]]
    <3>1. step \in [1 .. m -> [Seq(X) -> Seq(X)]]
      <4>1. ASSUME NEW k \in 1 .. m, NEW s \in Seq(X) PROVE s \o pieces[k] \in Seq(X)
        OBVIOUS
      <4> QED BY <4>1
    <3>2. \A k \in 1 .. m, s \in Seq(X) : step[k][s] = s \o pieces[k]
      OBVIOUS
    <3> HIDE DEF step
    <3>3. PICK h \in [0 .. m -> Seq(X)] :
            h[0] = <<>> /\ \A k \in 1 .. m : h[k] = step[k][h[k - 1]]
      <4> DEFINE Y == Seq(X)
                 start == <<>>
      <4>1. start \in Y /\ step \in [1 .. m -> [Y -> Y]]
        BY <3>1
      <4> HIDE DEF Y, start
      <4>2. \E h : Iterates(h, m, Y, start, step)
        BY <4>1, Iterated
      <4> QED BY <4>2 DEF Iterates, Y, start
    <3> DEFINE f == [k \in 1 .. m |-> h[k]]
               e == [k \in 1 .. m |-> IF k = 1 THEN pieces[k] ELSE f[k - 1] \o pieces[k]]
    <3>4. ASSUME NEW k \in 1 .. m PROVE f[k] = e[k]
      <4>1. h[k - 1] \in Seq(X) /\ pieces[k] \in Seq(X)
        <5>1. k - 1 \in 0 .. m
          OBVIOUS
        <5> QED BY <3>3, <5>1
      <4>2. h[k] = h[k - 1] \o pieces[k]
        BY <3>2, <3>3, <4>1
      <4>3. CASE k = 1
        <5>1. <<>> \o pieces[k] = pieces[k]
          BY <4>1
        <5>2. k - 1 = 0 /\ f[k] = h[k] /\ e[k] = pieces[k]
          BY <4>3
        <5>3. h[k - 1] = <<>>
          BY <3>3, <5>2
        <5>4. h[k] = <<>> \o pieces[k]
          BY <4>2, <5>3
        <5> HIDE DEF f, e
        <5> QED BY <5>1, <5>2, <5>4
      <4>4. CASE k # 1
        <5>1. k - 1 \in 1 .. m
          BY <4>4
        <5> QED BY <4>2, <4>4, <5>1
      <4> QED BY <4>3, <4>4
    <3>5. f = e
      <4>1. DOMAIN f = DOMAIN e /\ f = [k \in 1 .. m |-> f[k]] /\ e = [k \in 1 .. m |-> e[k]]
        OBVIOUS
      <4> HIDE DEF f, e
      <4> QED BY <3>4, <4>1
    <3>6. F(f)
      BY <3>5
    <3> HIDE DEF f, e, F
    <3> QED BY <3>6
  <2> DEFINE f == CHOOSE f : F(f)
  <2>2. F(f)
    <3> HIDE DEF F
    <3> QED BY <2>1
  <2>3. /\ f[1] = pieces[1]
        /\ \A k \in 1 .. m - 1 : f[k + 1] = f[k] \o pieces[k + 1]
    <3> HIDE DEF f
    <3>1. \A k \in 1 .. m : f[k] = IF k = 1 THEN pieces[k] ELSE f[k - 1] \o pieces[k]
      BY <2>2
    <3>2. ASSUME NEW k \in 1 .. m - 1 PROVE f[k + 1] = f[k] \o pieces[k + 1]
      <4>1. k + 1 \in 1 .. m /\ k + 1 # 1 /\ (k + 1) - 1 = k
        OBVIOUS
      <4> QED BY <3>1, <4>1
    <3>3. 1 \in 1 .. m
      BY <1>3
    <3>4. f[1] = pieces[1]
      BY <3>1, <3>3
    <3> QED BY <3>2, <3>4
  <2>4. FlattenSeq(pieces) = f[m]
    <3>1. Len(pieces) = m
      OBVIOUS
    <3> QED BY <1>3, <3>1 DEF FlattenSeq
  <2> HIDE DEF f
  <2> DEFINE G(k) == f[k] \in Seq(X) /\ f[k] \o g[k + 1] = g[1]
             S    == {k \in 0 .. m - 1 : G(k + 1)}
  <2>5. G(1)
    <3>1. 1 \in 1 .. m /\ 1 + 1 = 2
      BY <1>3
    <3>2. g[1] = pieces[1] \o g[2] /\ pieces[1] \in Seq(X)
      BY <1>1, <3>1
    <3> QED BY <2>3, <3>1, <3>2
  <2>6. ASSUME NEW k \in 1 .. m - 1, G(k) PROVE G(k + 1)
    <3> DEFINE n == k + 1
    <3>1. n \in 1 .. m /\ n + 1 \in 1 .. m + 1 /\ n = k + 1
      OBVIOUS
    <3> HIDE DEF n
    <3>2. f[n] = f[k] \o pieces[n]
      BY <2>3, <3>1
    <3>3. f[k] \in Seq(X) /\ pieces[n] \in Seq(X) /\ g[n + 1] \in Seq(X)
      BY <1>1, <2>6, <3>1
    <3>4. g[n] = pieces[n] \o g[n + 1] /\ f[k] \o g[n] = g[1]
      BY <1>1, <2>6, <3>1
    <3>5. (f[k] \o pieces[n]) \o g[n + 1] = f[k] \o (pieces[n] \o g[n + 1])
      <4> DEFINE a == f[k]
                 b == pieces[n]
                 c == g[n + 1]
      <4>1. a \in Seq(X) /\ b \in Seq(X) /\ c \in Seq(X)
        BY <3>3
      <4> HIDE DEF a, b, c
      <4>2. (a \o b) \o c = a \o (b \o c)
        BY <4>1, ConcatAssociative, SMTT(60)
      <4> QED BY <4>2 DEF a, b, c
    <3>6. f[n] \in Seq(X)
      BY <3>2, <3>3
    <3>7. f[n] \o g[n + 1] = g[1]
      BY <3>2, <3>4, <3>5
    <3> QED BY <3>1, <3>6, <3>7
  <2> HIDE DEF G
  <2>7. m - 1 \in S
    <3>1. 0 \in S
      BY <1>3, <2>5
    <3>2. ASSUME NEW k \in 0 .. (m - 1) - 1, k \in S PROVE k + 1 \in S
      <4>1. k + 1 \in 1 .. m - 1 /\ k + 1 \in 0 .. m - 1
        OBVIOUS
      <4> QED BY <2>6, <3>2, <4>1
    <3>3. m - 1 \in Nat /\ m - 1 \in 0 .. m - 1
      BY <1>3
    <3> HIDE DEF S
    <3>4. \A k \in 0 .. m - 1 : k \in S
      BY <3>1, <3>2, <3>3, BoundedInduction
    <3> QED BY <3>3, <3>4
  <2>8. f[m] \in Seq(X) /\ f[m] \o g[m + 1] = g[1]
    <3>1. (m - 1) + 1 = m
      OBVIOUS
    <3> QED BY <2>7, <3>1 DEF G
  <2>9. f[m] = g[1]
    BY <1>1, <2>8
  <2>10. FromTheEnd(g, X, m, pieces)
    BY <1>1, <2>4, <2>9 DEF FromTheEnd
  <2> QED BY <2>10
<1> QED BY <1>2, <1>3

-----------------------------------------------------------------------------
(* What is assumed of the parts, and what a vector of them does.           *)

Tokens  == Seq(Nat)
Fields  == Tokens \ {newline}
Streams == Seq(Tokens)

\* What a reader has before and after something it can read.
Reading(v, s, ok) == [v |-> v, rest |-> s, ok |-> ok]
Given(v, s)       == Reading(v, s, TRUE)

\* A type's new objects and samples are of it, and reading an object's text, whatever
\* follows it and into whichever object, leaves just what follows.
PartReads(t) ==
  /\ PartFresh(t) \in PartValues(t)
  /\ \A n \in Nat, tag \in Fields : PartSample(t, n, tag) \in PartValues(t)
  /\ \A v \in PartValues(t) :
       /\ PartText(t, v) \in Streams
       /\ \A old \in PartValues(t), s \in Streams :
            PartParse(t, Given(old, PartText(t, v) \o s)) = Given(v, s)

\* Sizes of vectors are read and written as numbers.
PartsRead ==
  /\ \A t \in Parts : PartReads(t)
  /\ "number" \in Parts
  /\ \A n \in Nat : <<n>> \in PartValues("number")

\* The members of the records that a reader works on.
LEMMA GivenMembers ==
  ASSUME NEW v, NEW w, NEW s, NEW u
  PROVE  /\ Given(v, s).v = v /\ Given(v, s).rest = s /\ Given(v, s).ok
         /\ [Given(v, s) EXCEPT !.v = w] = Given(w, s)
         /\ [Given(v, s) EXCEPT !.rest = u] = Given(v, u)
<1>1. ASSUME NEW ok
      PROVE  /\ Reading(v, s, ok).v = v /\ Reading(v, s, ok).rest = s /\ Reading(v, s, ok).ok = ok
             /\ [Reading(v, s, ok) EXCEPT !.v = w] = Reading(w, s, ok)
             /\ [Reading(v, s, ok) EXCEPT !.rest = u] = Reading(v, u, ok)
  BY DEF Reading
<1> QED BY <1>1 DEF Given

\* A newline is a token.
LEMMA NewlineToken == newline \in Tokens /\ <<newline>> \in Streams
<1>1. newline \in Tokens
  BY DEF newline, Tokens
<1> QED BY <1>1 DEF Streams

\* Texts joined are texts.
LEMMA StreamsJoin ==
  ASSUME NEW one \in Streams, NEW two \in Streams
  PROVE  one \o two \in Streams
BY DEF Streams

\* However they are joined.
LEMMA StreamsAssociate ==
  ASSUME NEW one \in Streams, NEW two \in Streams, NEW three \in Streams
  PROVE  (one \o two) \o three = one \o (two \o three)
BY ConcatAssociative DEF Streams

\* A newline is consumed.
LEMMA ReadsNewline ==
  ASSUME NEW v, NEW s \in Streams
  PROVE  consume_NEWLINE(Given(v, <<newline>> \o s)) = Given(v, s)
<1> DEFINE t == <<newline>> \o s
<1>1. t # <<>> /\ Head(t) = newline /\ Tail(t) = s
  <2> HIDE DEF t
  <2>1. newline \in Tokens /\ s \in Seq(Tokens) /\ t = <<newline>> \o s
    BY NewlineToken DEF Streams, t
  <2>2. t \in Seq(Tokens) /\ Len(t) = Len(s) + 1 /\ t[1] = newline
    BY <2>1
  <2>3. Tail(t) = s
    BY <2>1
  <2> QED BY <2>2, <2>3
<1> HIDE DEF t
<1>2. consume_NEWLINE(Given(v, t)) = [Given(v, t) EXCEPT !.rest = Tail(Given(v, t).rest)]
  BY <1>1, GivenMembers DEF consume_NEWLINE
<1>3. consume_NEWLINE(Given(v, t)) = Given(v, s)
  BY <1>1, <1>2, GivenMembers
<1> QED BY <1>3 DEF t

\* One more element is read onto a vector.
LEMMA ReadsElement ==
  ASSUME PartsRead, NEW t \in Parts, NEW old \in PartValues(t), NEW e \in PartValues(t),
         NEW v, NEW s \in Streams
  PROVE  Element(t, old, Given(v, Append(PartText(t, e), newline) \o s))
           = Given(Append(v, e), s)
<1> DEFINE p == PartText(t, e)
           r == Append(p, newline) \o s
<1>1. p \in Streams /\ \A u \in Streams : PartParse(t, Given(old, p \o u)) = Given(e, u)
  BY DEF PartsRead, PartReads
<1>2. <<newline>> \o s \in Streams /\ r = p \o (<<newline>> \o s)
  <2> HIDE DEF p
  <2>1. Append(p, newline) = p \o <<newline>>
    BY <1>1, NewlineToken, AppendIsConcat DEF Streams
  <2> DEFINE N == <<newline>>
  <2>2. N \in Streams /\ p \in Streams /\ Append(p, newline) = p \o N
    BY <1>1, <2>1, NewlineToken
  <2> HIDE DEF N
  <2>3. N \o s \in Streams /\ (p \o N) \o s = p \o (N \o s)
    BY <2>2, StreamsJoin, StreamsAssociate
  <2> QED BY <2>2, <2>3 DEF N
<1> HIDE DEF p, r
<1>3. PartParse(t, [Given(v, r) EXCEPT !.v = old]) = Given(e, <<newline>> \o s)
  <2>1. [Given(v, r) EXCEPT !.v = old] = Given(old, r)
    BY GivenMembers
  <2> QED BY <1>1, <1>2, <2>1
<1>4. consume_NEWLINE(PartParse(t, [Given(v, r) EXCEPT !.v = old])) = Given(e, s)
  BY <1>3, ReadsNewline
<1>5. Element(t, old, Given(v, r)) = [Given(e, s) EXCEPT !.v = Append(v, e)]
  <2>1. Given(v, r).ok /\ Given(v, r).v = v /\ Given(e, s).v = e
    BY GivenMembers
  <2> QED BY <1>4, <2>1 DEF Element
<1>6. Element(t, old, Given(v, r)) = Given(Append(v, e), s)
  <2> DEFINE a == Append(v, e)
  <2>1. Element(t, old, Given(v, r)) = [Given(e, s) EXCEPT !.v = a]
    BY <1>5
  <2> HIDE DEF a
  <2>2. [Given(e, s) EXCEPT !.v = a] = Given(a, s)
    BY GivenMembers
  <2> QED BY <2>1, <2>2 DEF a
<1> QED BY <1>6 DEF p, r

\* The elements of a vector are read onto what is kept in it.
LEMMA ReadsElements ==
  ASSUME PartsRead, NEW step, step.of \in Parts, NEW old \in Seq(PartValues(step.of)),
         NEW es \in Seq(PartValues(step.of)), step.does = "maybe" => Len(es) <= 1,
         NEW x, NEW s \in Streams
  PROVE  LET text == FlattenSeq([k \in 1 .. Len(es) |->
                                   Append(PartText(step.of, es[k]), newline)])
         IN  /\ text \in Streams
             /\ Elements(step, old, Len(es), Given(x, text \o s))
                  = Given(Kept(step, old, Len(es)) \o es, s)
<1> DEFINE t      == step.of
           V      == PartValues(t)
           n      == Len(es)
           pieces == [k \in 1 .. n |-> Append(PartText(t, es[k]), newline)]
           kept   == Kept(step, old, n)
<1>1. n \in Nat /\ \A k \in 1 .. n : es[k] \in V
  OBVIOUS
<1>2. pieces \in [1 .. n -> Seq(Tokens)]
  <2>1. ASSUME NEW k \in 1 .. n PROVE Append(PartText(t, es[k]), newline) \in Seq(Tokens)
    <3>1. PartText(t, es[k]) \in Seq(Tokens)
      BY <1>1 DEF PartsRead, PartReads, Streams
    <3> QED BY <3>1, NewlineToken
  <2> QED BY <2>1
<1>3. \A k \in 1 .. n : pieces[k] = Append(PartText(t, es[k]), newline)
  OBVIOUS
<1>4. kept \in Seq(V)
  <2>1. old \in Seq(V) /\ <<>> \in Seq(V)
    OBVIOUS
  <2>2. kept = old \/ kept = <<>>
    BY DEF Kept
  <2> HIDE DEF kept
  <2> QED BY <2>1, <2>2
<1>5. Count(step, n) = n
  <2>1. step.does = "maybe" => n <= 1
    OBVIOUS
  <2> HIDE DEF n
  <2> QED BY <1>1, <2>1 DEF Count
<1>6. \A k \in 1 .. n : Before(step, old, k) \in V
  BY DEF Before, PartsRead, PartReads
<1> HIDE DEF pieces, kept
<1>7. PICK g \in [1 .. n + 1 -> Streams] :
        /\ g[n + 1] = <<>> /\ g[1] = FlattenSeq(pieces)
        /\ \A k \in 1 .. n : g[k] = pieces[k] \o g[k + 1]
  <2>1. \E g : FromTheEnd(g, Tokens, n, pieces)
    BY <1>1, <1>2, JoinedFromTheEnd
  <2> QED BY <2>1 DEF FromTheEnd, Streams
<1> DEFINE w(k)   == kept \o SubSeq(es, 1, k)
           r      == Given(x, g[1] \o s)
           F      == [k \in 0 .. n |-> Given(w(k), g[k + 1] \o s)]
           Sol(f) == f = [k \in 0 .. Count(step, n) |->
                            IF k = 0 THEN [r EXCEPT !.v = Kept(step, old, n)]
                            ELSE Element(t, Before(step, old, k), f[k - 1])]
           got    == CHOOSE f : Sol(f)
<1>8. /\ w(0) = kept /\ w(n) = kept \o es
      /\ \A k \in 1 .. n : w(k) = Append(w(k - 1), es[k])
  <2>1. SubSeq(es, 1, 0) = <<>> /\ SubSeq(es, 1, n) = es
    OBVIOUS
  <2>2. ASSUME NEW k \in 1 .. n PROVE w(k) = Append(w(k - 1), es[k])
    <3>1. /\ SubSeq(es, 1, k) = Append(SubSeq(es, 1, k - 1), es[k])
          /\ SubSeq(es, 1, k - 1) \in Seq(V)
      OBVIOUS
    <3> DEFINE a == SubSeq(es, 1, k - 1)
    <3> HIDE DEF a
    <3>2. kept \o Append(a, es[k]) = Append(kept \o a, es[k])
      BY <1>1, <1>4, <3>1 DEF a
    <3> QED BY <3>1, <3>2 DEF a
  <2>3. w(0) = kept
    BY <1>4, <2>1
  <2>4. w(n) = kept \o es
    BY <2>1
  <2> HIDE DEF w
  <2> QED BY <2>2, <2>3, <2>4
<1>9. /\ F[0] = [r EXCEPT !.v = kept]
      /\ \A k \in 1 .. n : F[k] = Element(t, Before(step, old, k), F[k - 1])
  <2>1. F[0] = [r EXCEPT !.v = kept]
    <3>1. F[0] = Given(w(0), g[1] \o s)
      BY <1>1
    <3> HIDE DEF F, w
    <3> QED BY <1>8, <3>1, GivenMembers
  <2>2. ASSUME NEW k \in 1 .. n PROVE F[k] = Element(t, Before(step, old, k), F[k - 1])
    <3>1. F[k] = Given(w(k), g[k + 1] \o s) /\ F[k - 1] = Given(w(k - 1), g[k] \o s)
      OBVIOUS
    <3> HIDE DEF F, w
    <3>2. pieces[k] \in Streams /\ g[k + 1] \in Streams
      <4>1. k + 1 \in 1 .. n + 1
        BY <1>1
      <4> QED BY <1>2, <1>7, <4>1 DEF Streams
    <3>3. g[k] \o s = pieces[k] \o (g[k + 1] \o s) /\ g[k + 1] \o s \in Streams
      <4> DEFINE a == pieces[k]
                 b == g[k + 1]
      <4>1. a \in Streams /\ b \in Streams /\ g[k] = a \o b
        BY <1>7, <3>2
      <4> HIDE DEF a, b
      <4>2. b \o s \in Streams /\ (a \o b) \o s = a \o (b \o s)
        BY <4>1, StreamsJoin, StreamsAssociate, ZenonT(60)
      <4> QED BY <4>1, <4>2 DEF a, b
    <3>4. Element(t, Before(step, old, k), Given(w(k - 1), pieces[k] \o (g[k + 1] \o s)))
            = Given(Append(w(k - 1), es[k]), g[k + 1] \o s)
      <4> DEFINE u == g[k + 1] \o s
                 b == Before(step, old, k)
      <4>1. u \in Streams /\ b \in V /\ es[k] \in V
        BY <1>1, <1>6, <3>3
      <4> HIDE DEF u, b
      <4>2. Element(t, b, Given(w(k - 1), Append(PartText(t, es[k]), newline) \o u))
              = Given(Append(w(k - 1), es[k]), u)
        BY <4>1, ReadsElement
      <4> QED BY <1>3, <4>2 DEF u, b
    <3> QED BY <1>8, <3>1, <3>3, <3>4
  <2> QED BY <2>1, <2>2
<1>10. Sol(got)
  <2> DEFINE e == [k \in 0 .. Count(step, n) |->
                     IF k = 0 THEN [r EXCEPT !.v = Kept(step, old, n)]
                     ELSE Element(t, Before(step, old, k), F[k - 1])]
  <2>1. ASSUME NEW k \in 0 .. n PROVE F[k] = e[k]
    <3>1. e[k] = IF k = 0 THEN [r EXCEPT !.v = kept]
                 ELSE Element(t, Before(step, old, k), F[k - 1])
      BY <1>5 DEF kept
    <3> HIDE DEF e, F, r
    <3> QED BY <1>9, <3>1
  <2>2. F = e
    <3>1. F = [k \in 0 .. n |-> F[k]] /\ e = [k \in 0 .. n |-> e[k]]
      BY <1>5
    <3> HIDE DEF e, F
    <3> QED BY <2>1, <3>1
  <2>3. Sol(F)
    BY <2>2
  <2> HIDE DEF Sol, F
  <2> QED BY <2>3
<1>11. got[n] = F[n]
  <2> DEFINE S == {k \in 0 .. n : got[k] = F[k]}
  <2>1. ASSUME NEW k \in 0 .. n
        PROVE  got[k] = IF k = 0 THEN [r EXCEPT !.v = kept]
                        ELSE Element(t, Before(step, old, k), got[k - 1])
    <3> HIDE DEF got, r
    <3> QED BY <1>5, <1>10 DEF kept
  <2> HIDE DEF got, F, r
  <2>2. 0 \in S
    <3> DEFINE e == [r EXCEPT !.v = kept]
    <3>1. \A k \in 0 .. n : got[k] = IF k = 0 THEN e ELSE Element(t, Before(step, old, k), got[k - 1])
      BY <2>1
    <3>2. F[0] = e
      BY <1>9
    <3> HIDE DEF e
    <3>3. 0 \in 0 .. n
      BY <1>1
    <3> QED BY <3>1, <3>2, <3>3
  <2>3. ASSUME NEW k \in 0 .. n - 1, k \in S PROVE k + 1 \in S
    <3> DEFINE j == k + 1
    <3>1. j \in 1 .. n /\ j \in 0 .. n /\ j - 1 = k /\ j # 0
      OBVIOUS
    <3> HIDE DEF j
    <3>2. got[j] = F[j]
      BY <1>9, <2>1, <2>3, <3>1
    <3> QED BY <3>1, <3>2 DEF j
  <2> HIDE DEF S
  <2>4. \A k \in 0 .. n : k \in S
    BY <1>1, <2>2, <2>3, BoundedInduction
  <2> QED BY <1>1, <2>4 DEF S
<1>12. Elements(step, old, n, r) = got[n]
  <2>1. Elements(step, old, n, r) = got[Count(step, n)]
    BY DEF Elements
  <2> HIDE DEF got
  <2> QED BY <1>5, <2>1
<1>13. F[n] = Given(kept \o es, s)
  <2>1. F[n] = Given(w(n), g[n + 1] \o s)
    BY <1>1
  <2>2. <<>> \o s = s
    BY DEF Streams
  <2> HIDE DEF F, w
  <2> QED BY <1>7, <1>8, <2>1, <2>2
<1>14. g[1] \in Streams
  BY <1>1, <1>7
<1> HIDE DEF got, F, w
<1> QED BY <1>7, <1>11, <1>12, <1>13, <1>14 DEF pieces, kept

-----------------------------------------------------------------------------
(* Scripts that agree, and what their steps do.                            *)

\* What is left in a member by a reader's step: old was there, v was written.
Left(step, old, v) ==
  IF step.does = "appended" THEN old \o v
  ELSE IF step.does = "maybe" /\ v = <<>> THEN old
  ELSE v

\* The reader's step r takes what the writer's step w puts.
Follows(w, r) ==
  /\ r.name = w.name /\ r.of = w.of
  /\ \/ w.does = "line" /\ r.does = "line" /\ w.name = ""
     \/ /\ w.name # "" /\ w.of \in Parts
        /\ \/ w.does = "part" /\ r.does = "part"
           \/ w.does = "vector" /\ r.does \in {"cleared", "appended", "resized"}
           \/ w.does = "maybe" /\ r.does = "maybe"

\* The scripts of a class agree step by step, and each member has one step.
Scripted(t) ==
  /\ t \in Types
  /\ Len(Writes[t]) \in Nat
  /\ DOMAIN Writes[t] = 1 .. Len(Writes[t])
  /\ Len(Reads[t]) = Len(Writes[t])
  /\ \A p \in 1 .. Len(Writes[t]) : Follows(Writes[t][p], Reads[t][p])
  /\ \A p, q \in 1 .. Len(Writes[t]) :
       p # q /\ Writes[t][p].name = Writes[t][q].name => Writes[t][p].name = ""

\* What a member may be, and what an object.
MemberValues(step) ==
  IF step.does = "part" THEN PartValues(step.of)
  ELSE {es \in Seq(PartValues(step.of)) : step.does = "maybe" => Len(es) <= 1}

Values(t) ==
  IF t \notin Types THEN PartValues(t)
  ELSE {v \in [Names(t) -> UNION {MemberValues(Writes[t][p]) : p \in DOMAIN Writes[t]}] :
          \A p \in DOMAIN Writes[t] :
            Writes[t][p].does # "line" =>
              v[Writes[t][p].name] \in MemberValues(Writes[t][p])}

\* What is left of old when the text of v is read into it.
Result(t, old, v) ==
  IF t \notin Types THEN v
  ELSE [name \in Names(t) |-> Left(Reads[t][Place(t, name)], old[name], v[name])]

\* A vector is read.
LEMMA ReadsVector ==
  ASSUME PartsRead, NEW step, step.of \in Parts,
         step.does \in {"cleared", "appended", "resized", "maybe"},
         NEW old \in Seq(PartValues(step.of)), NEW es \in Seq(PartValues(step.of)),
         step.does = "maybe" => Len(es) <= 1, NEW x, NEW s \in Streams
  PROVE  /\ VectorText(step.of, es) \in Streams
         /\ Vector(step, old, Given(x, VectorText(step.of, es) \o s))
              = Given(Left(step, old, es), s)
<1> DEFINE t    == step.of
           n    == Len(es)
           num    == PartText("number", <<n>>)
           nl    == <<newline>>
           all    == FlattenSeq([k \in 1 .. Len(es) |-> Append(PartText(step.of, es[k]), newline)])
           kept == Kept(step, old, n)
           new  == PartFresh("number")
<1>1. n \in Nat
  OBVIOUS
<1>2. all \in Streams /\ \A y : Elements(step, old, n, Given(y, all \o s)) = Given(kept \o es, s)
  <2> HIDE DEF PartsRead
  <2> QED BY ReadsElements, ZenonT(60)
<1>3. VectorText(step.of, es) = (num \o nl) \o all
  BY DEF VectorText
<1>4. /\ num \in Streams /\ new \in PartValues("number") /\ <<n>> \in PartValues("number")
      /\ \A u \in Streams : PartParse("number", Given(new, num \o u)) = Given(<<n>>, u)
  BY <1>1 DEF PartsRead, PartReads
<1>5. nl \in Streams
  BY NewlineToken
<1>6. kept \o es = Left(step, old, es)
  <2> DEFINE V == PartValues(t)
  <2>1. old \in Seq(V) /\ es \in Seq(V)
    OBVIOUS
  <2> HIDE DEF V
  <2>2. <<>> \o es = es /\ old \o <<>> = old /\ (n = 0 <=> es = <<>>)
    BY <2>1
  <2>3. CASE step.does = "appended"
    BY <2>3 DEF Kept, Left
  <2>4. CASE step.does = "maybe" /\ n = 0
    <3>1. kept = old /\ Left(step, old, es) = old /\ es = <<>>
      BY <2>2, <2>4 DEF Kept, Left
    <3> QED BY <2>2, <3>1
  <2>5. CASE step.does # "appended" /\ ~ (step.does = "maybe" /\ n = 0)
    <3>1. kept = <<>> /\ Left(step, old, es) = es
      BY <2>2, <2>5 DEF Kept, Left
    <3> QED BY <2>2, <3>1
  <2> QED BY <2>3, <2>4, <2>5
<1> HIDE DEF num, nl, all, new
<1>7. num \o nl \in Streams /\ (num \o nl) \o all \in Streams
  BY <1>2, <1>4, <1>5, StreamsJoin
<1>8. ((num \o nl) \o all) \o s = num \o (nl \o (all \o s)) /\ all \o s \in Streams /\ nl \o (all \o s) \in Streams
  <2>1. num \in Streams /\ nl \in Streams /\ all \in Streams /\ s \in Streams
    BY <1>2, <1>4, <1>5
  <2>2. all \o s \in Streams
    BY <2>1, StreamsJoin
  <2>3. nl \o (all \o s) \in Streams
    BY <2>1, <2>2, StreamsJoin
  <2> DEFINE left  == num \o nl
             right == all \o s
  <2>4. left \in Streams
    BY <2>1, StreamsJoin
  <2>5. (left \o all) \o s = left \o (all \o s)
    <3> HIDE DEF left
    <3> QED BY <2>1, <2>4, StreamsAssociate
  <2>6. (num \o nl) \o right = num \o (nl \o right)
    <3>1. right \in Streams
      BY <2>2
    <3> HIDE DEF right
    <3> QED BY <2>1, <3>1, StreamsAssociate, SMTT(60)
  <2> QED BY <2>2, <2>3, <2>5, <2>6
<1> DEFINE r == Given(x, ((num \o nl) \o all) \o s)
           u == all \o s
<1>9. consume_NEWLINE(PartParse("number", [r EXCEPT !.v = new])) = Given(<<n>>, u)
  <2>1. [r EXCEPT !.v = new] = Given(new, ((num \o nl) \o all) \o s)
    BY GivenMembers
  <2>2. PartParse("number", [r EXCEPT !.v = new]) = Given(<<n>>, nl \o u)
    BY <1>4, <1>8, <2>1
  <2> HIDE DEF r, u
  <2>3. consume_NEWLINE(Given(<<n>>, nl \o u)) = Given(<<n>>, u)
    BY <1>8, ReadsNewline DEF nl, u
  <2> QED BY <2>2, <2>3
<1>10. Vector(step, old, r) = Sized(step, old, Given(<<n>>, u))
  <2>1. Vector(step, old, r)
          = Sized(step, old, consume_NEWLINE(PartParse("number", [r EXCEPT !.v = new])))
    BY DEF Vector, new
  <2> HIDE DEF r, u
  <2> QED BY <1>9, <2>1
<1>11. Sized(step, old, Given(<<n>>, u)) = Elements(step, old, n, Given(<<n>>, u))
  <2>1. Given(<<n>>, u).ok /\ Given(<<n>>, u).v = <<n>>
    BY GivenMembers
  <2>2. Last(<<n>>) = n
    BY DEF Last
  <2> HIDE DEF u, n
  <2> QED BY <2>1, <2>2 DEF Sized
<1>12. Elements(step, old, n, Given(<<n>>, u)) = Given(kept \o es, s)
  BY <1>2
<1>13. Vector(step, old, r) = Given(Left(step, old, es), s)
  <2> HIDE DEF r, u, kept, n
  <2> QED BY <1>6, <1>10, <1>11, <1>12
<1> QED BY <1>3, <1>7, <1>13

\* Where the step of a member is.
LEMMA Places ==
  ASSUME NEW t, Scripted(t), NEW name \in Names(t)
  PROVE  /\ Place(t, name) \in 1 .. Len(Writes[t])
         /\ Writes[t][Place(t, name)].name = name
         /\ Writes[t][Place(t, name)].does # "line"
         /\ \A p \in 1 .. Len(Writes[t]) : Writes[t][p].name = name => p = Place(t, name)
<1>1. name # "" /\ \E p \in 1 .. Len(Writes[t]) : Writes[t][p].name = name
  BY DEF Names, Scripted
<1>2. Place(t, name) \in 1 .. Len(Writes[t]) /\ Writes[t][Place(t, name)].name = name
  <2>1. DOMAIN Writes[t] = 1 .. Len(Writes[t])
    BY DEF Scripted
  <2> QED BY <1>1, <2>1 DEF Place
<1>3. Writes[t][Place(t, name)].does # "line"
  BY <1>1, <1>2 DEF Scripted, Follows
<1>4. ASSUME NEW p \in 1 .. Len(Writes[t]), Writes[t][p].name = name PROVE p = Place(t, name)
  BY <1>1, <1>2, <1>4 DEF Scripted
<1> QED BY <1>2, <1>3, <1>4

\* What the reader's step r makes of m when the writer's step w wrote from v.
After(w, r, m, v) ==
  IF w.does = "line" THEN m ELSE [m EXCEPT ![w.name] = Left(r, m[w.name], v[w.name])]

\* One step of a reader takes what the writer's step put, and changes its member only.
LEMMA ReadsStep ==
  ASSUME PartsRead, NEW w, NEW r, Follows(w, r), NEW v, NEW m, NEW s \in Streams,
         w.does # "line" => v[w.name] \in MemberValues(w) /\ m[w.name] \in MemberValues(w)
  PROVE  /\ StepText(w, v) \in Streams
         /\ Do(r, Given(m, StepText(w, v) \o s)) = Given(After(w, r, m, v), s)
<1> DEFINE T   == StepText(w, v)
           acc == Given(m, T \o s)
           old == m[w.name]
           val == v[w.name]
<1>1. acc.ok /\ acc.v = m /\ \A y : [acc EXCEPT !.v = y] = Given(y, T \o s)
  BY GivenMembers
<1>2. CASE w.does = "line"
  <2>1. T = <<newline>> /\ r.does = "line"
    BY <1>2 DEF StepText, Follows
  <2>2. Do(r, acc) = consume_NEWLINE(acc)
    <3> HIDE DEF acc
    <3> QED BY <1>1, <2>1 DEF Do
  <2>3. consume_NEWLINE(Given(m, <<newline>> \o s)) = Given(m, s)
    BY ReadsNewline
  <2>4. consume_NEWLINE(acc) = Given(m, s)
    <3> HIDE DEF T
    <3> QED BY <2>1, <2>3
  <2> HIDE DEF T, acc
  <2>5. T \in Streams /\ Do(r, acc) = Given(m, s)
    BY <2>1, <2>2, <2>4, NewlineToken
  <2>6. After(w, r, m, v) = m
    BY <1>2 DEF After
  <2> QED BY <2>5, <2>6 DEF T, acc
<1>3. CASE w.does # "line"
  <2> DEFINE left == Left(r, old, val)
  <2>1. r.does # "line" /\ r.name = w.name /\ r.of = w.of /\ w.of \in Parts
        /\ val \in MemberValues(w) /\ old \in MemberValues(w)
    BY <1>3 DEF Follows
  <2>2. T \in Streams /\ (IF r.does = "part" THEN PartParse(r.of, Given(old, T \o s))
                          ELSE Vector(r, old, acc)) = Given(left, s)
    <3>1. CASE w.does = "part"
      <4>1. T = PartText(w.of, val) /\ r.does = "part" /\ left = val
        BY <1>3, <3>1 DEF StepText, Follows, Left
      <4>2. val \in PartValues(w.of) /\ old \in PartValues(w.of)
        BY <2>1, <3>1 DEF MemberValues
      <4>3. T \in Streams /\ PartParse(w.of, Given(old, T \o s)) = Given(val, s)
        <5> HIDE DEF T, old, val
        <5> QED BY <2>1, <4>1, <4>2 DEF PartsRead, PartReads
      <4> HIDE DEF T, old, val, left, acc
      <4> QED BY <2>1, <4>1, <4>3
    <3>2. CASE w.does # "part"
      <4>1. /\ T = VectorText(w.of, val) /\ r.does # "part"
            /\ r.does \in {"cleared", "appended", "resized", "maybe"}
            /\ (r.does = "maybe") = (w.does = "maybe")
        BY <1>3, <3>2 DEF StepText, Follows
      <4>2. /\ old \in Seq(PartValues(r.of)) /\ val \in Seq(PartValues(r.of))
            /\ r.does = "maybe" => Len(val) <= 1
        BY <2>1, <3>2, <4>1 DEF MemberValues
      <4> DEFINE VT == VectorText(r.of, val)
      <4>3. VT \in Streams /\ Vector(r, old, Given(m, VT \o s)) = Given(left, s)
        <5> DEFINE z == r
        <5>1. /\ z.of \in Parts /\ z.does \in {"cleared", "appended", "resized", "maybe"}
              /\ old \in Seq(PartValues(z.of)) /\ val \in Seq(PartValues(z.of))
              /\ z.does = "maybe" => Len(val) <= 1
          BY <2>1, <4>1, <4>2
        <5> HIDE DEF old, val, z
        <5>3. /\ VectorText(z.of, val) \in Streams
              /\ Vector(z, old, Given(m, VectorText(z.of, val) \o s)) = Given(Left(z, old, val), s)
          BY <5>1, ReadsVector, ZenonT(60)
        <5>2. /\ VectorText(r.of, val) \in Streams
              /\ Vector(r, old, Given(m, VectorText(r.of, val) \o s)) = Given(Left(r, old, val), s)
          BY <5>3 DEF z
        <5> QED BY <5>2
      <4>4. T = VT
        BY <2>1, <4>1
      <4> HIDE DEF T, old, val, left, VT
      <4> QED BY <4>1, <4>3, <4>4
    <3> QED BY <3>1, <3>2
  <2>3. Do(r, acc) = [Given(left, s) EXCEPT !.v = [m EXCEPT ![w.name] = left]]
    <3>1. Do(r, acc) = Member(r, acc)
      <4> HIDE DEF acc
      <4> QED BY <1>1, <2>1 DEF Do
    <3> DEFINE q == IF r.does = "part" THEN PartParse(r.of, [acc EXCEPT !.v = old])
                    ELSE Vector(r, old, acc)
    <3>2. Member(r, acc) = [q EXCEPT !.v = [m EXCEPT ![w.name] = q.v]]
      <4>1. acc.v[r.name] = old
        BY <1>1, <2>1
      <4> HIDE DEF acc, old
      <4> QED BY <1>1, <2>1, <4>1 DEF Member
    <3>3. q = Given(left, s)
      <4> HIDE DEF acc, old, left, T
      <4> QED BY <1>1, <2>2
    <3>4. Given(left, s).v = left
      BY GivenMembers
    <3> HIDE DEF q, left, acc
    <3> QED BY <3>1, <3>2, <3>3, <3>4
  <2> DEFINE y == [m EXCEPT ![w.name] = left]
  <2>4. [Given(left, s) EXCEPT !.v = y] = Given(y, s)
    BY GivenMembers
  <2>5. Do(r, acc) = Given(y, s)
    BY <2>3, <2>4
  <2>6. After(w, r, m, v) = y
    BY <1>3 DEF After
  <2> HIDE DEF T, acc, y
  <2> QED BY <2>2, <2>5, <2>6 DEF T, acc
<1> QED BY <1>2, <1>3

-----------------------------------------------------------------------------
(* Objects.                                                                *)

\* The step of a member is the only one that can hold a value of it.
LEMMA MembersOf ==
  ASSUME NEW t, Scripted(t), NEW v \in Values(t), NEW p \in 1 .. Len(Writes[t]),
         Writes[t][p].does # "line"
  PROVE  Writes[t][p].name \in Names(t) /\ v[Writes[t][p].name] \in MemberValues(Writes[t][p])
<1>1. t \in Types /\ p \in DOMAIN Writes[t] /\ Writes[t][p].name # ""
  BY DEF Scripted, Follows
<1>2. v[Writes[t][p].name] \in MemberValues(Writes[t][p])
  BY <1>1 DEF Values
<1> QED BY <1>1, <1>2 DEF Names

\* An object is one whose members have values, and that has nothing else.
LEMMA ObjectOf ==
  ASSUME NEW t, Scripted(t), NEW v, v = [name \in Names(t) |-> v[name]],
         \A name \in Names(t) : v[name] \in MemberValues(Writes[t][Place(t, name)])
  PROVE  v \in Values(t)
<1> DEFINE U == UNION {MemberValues(Writes[t][p]) : p \in DOMAIN Writes[t]}
<1>1. t \in Types /\ DOMAIN Writes[t] = 1 .. Len(Writes[t])
  BY DEF Scripted
<1>2. v \in [Names(t) -> U]
  <2>1. ASSUME NEW name \in Names(t) PROVE v[name] \in U
    <3>1. Place(t, name) \in DOMAIN Writes[t]
      BY <1>1, Places
    <3> QED BY <3>1
  <2> HIDE DEF U
  <2> QED BY <2>1
<1>3. ASSUME NEW p \in DOMAIN Writes[t], Writes[t][p].does # "line"
      PROVE  v[Writes[t][p].name] \in MemberValues(Writes[t][p])
  <2>1. Writes[t][p].name \in Names(t)
    <3>1. Writes[t][p].name # ""
      BY <1>1, <1>3 DEF Scripted, Follows
    <3> QED BY <3>1 DEF Names
  <2>2. p = Place(t, Writes[t][p].name)
    BY <1>1, <2>1, Places
  <2> QED BY <2>1, <2>2
<1> QED BY <1>1, <1>2, <1>3 DEF Values

\* What is left of an object is an object.
LEMMA ResultType ==
  ASSUME NEW t, Scripted(t), NEW old \in Values(t), NEW v \in Values(t)
  PROVE  Result(t, old, v) \in Values(t)
<1> DEFINE e(name) == Left(Reads[t][Place(t, name)], old[name], v[name])
<1>1. ASSUME NEW name \in Names(t) PROVE e(name) \in MemberValues(Writes[t][Place(t, name)])
  <2> DEFINE p == Place(t, name)
             w == Writes[t][p]
             r == Reads[t][p]
             a == old[name]
             b == v[name]
  <2>1. p \in 1 .. Len(Writes[t]) /\ w.name = name /\ w.does # "line"
    BY Places
  <2>2. a \in MemberValues(w) /\ b \in MemberValues(w)
    BY <2>1, MembersOf
  <2>3. Follows(w, r)
    BY <2>1 DEF Scripted
  <2>4. CASE r.does = "appended"
    <3>1. w.does = "vector"
      BY <2>3, <2>4 DEF Follows
    <3>2. a \in Seq(PartValues(w.of)) /\ b \in Seq(PartValues(w.of))
      BY <2>2, <3>1 DEF MemberValues
    <3> HIDE DEF a, b, w, r
    <3>3. a \o b \in MemberValues(w)
      BY <3>1, <3>2 DEF MemberValues
    <3> QED BY <2>4, <3>3 DEF Left, a, b, w, r
  <2>5. CASE r.does # "appended"
    <3>1. e(name) = a \/ e(name) = b
      BY <2>5 DEF Left
    <3> QED BY <2>2, <3>1
  <2> QED BY <2>4, <2>5
<1>2. t \in Types
  BY DEF Scripted
<1>3. Result(t, old, v) = [name \in Names(t) |-> e(name)]
  BY <1>2 DEF Result
<1> DEFINE y == [name \in Names(t) |-> e(name)]
<1>4. y \in Values(t)
  <2>1. y = [name \in Names(t) |-> y[name]] /\ \A name \in Names(t) : y[name] = e(name)
    OBVIOUS
  <2> HIDE DEF e, y
  <2> QED BY <1>1, <2>1, ObjectOf
<1> QED BY <1>3, <1>4


\* New objects and samples are objects.
LEMMA FreshType ==
  ASSUME PartsRead, NEW t, Scripted(t)
  PROVE  Fresh(t) \in Values(t)
<1>1. t \in Types
  BY DEF Scripted
<1> DEFINE y == Fresh(t)
<1>2. /\ y = [name \in Names(t) |-> y[name]]
      /\ \A name \in Names(t) :
           y[name] = IF Step(t, name).does = "part" THEN PartFresh(Step(t, name).of) ELSE <<>>
  BY <1>1 DEF Fresh
<1> HIDE DEF y
<1>3. ASSUME NEW name \in Names(t) PROVE y[name] \in MemberValues(Writes[t][Place(t, name)])
  <2> DEFINE w == Writes[t][Place(t, name)]
  <2>1. w.does # "line" /\ w = Step(t, name) /\ w.of \in Parts
    BY Places, ZenonT(60) DEF Step, Scripted, Follows
  <2>2. y[name] = IF w.does = "part" THEN PartFresh(w.of) ELSE <<>>
    BY <1>2, <2>1
  <2>3. PartFresh(w.of) \in PartValues(w.of)
    BY <2>1 DEF PartsRead, PartReads
  <2>4. <<>> \in Seq(PartValues(w.of)) /\ Len(<<>>) <= 1
    OBVIOUS
  <2> HIDE DEF w
  <2>5. y[name] \in MemberValues(w)
    BY <2>2, <2>3, <2>4 DEF MemberValues
  <2> QED BY <2>5 DEF w
<1>4. y \in Values(t)
  BY <1>2, <1>3, ObjectOf
<1> QED BY <1>4 DEF y

\* A sample is an object of its class.
LEMMA SampleType ==
  ASSUME PartsRead, NEW t, Scripted(t), NEW n \in Nat, NEW tag \in Fields
  PROVE  Sample(t, n, tag) \in Values(t)
<1>1. t \in Types
  BY DEF Scripted
<1> DEFINE y       == Sample(t, n, tag)
           size(w) == IF w.does = "maybe" /\ n > 1 THEN 1 ELSE n
<1>2. /\ y = [name \in Names(t) |-> y[name]]
      /\ \A name \in Names(t) :
           y[name] =
             IF Step(t, name).does = "part"
               THEN PartSample(Step(t, name).of, n, Append(tag, Place(t, name)))
               ELSE [k \in 1 .. size(Step(t, name)) |->
                       PartSample(Step(t, name).of, n, tag \o <<Place(t, name), k>>)]
  BY <1>1 DEF Sample
<1> HIDE DEF y
<1>3. ASSUME NEW name \in Names(t) PROVE y[name] \in MemberValues(Writes[t][Place(t, name)])
  <2> DEFINE w == Writes[t][Place(t, name)]
             p == Place(t, name)
  <2>1. w.does # "line" /\ w = Step(t, name) /\ w.of \in Parts /\ p \in Nat
    <3>1. p \in 1 .. Len(Writes[t]) /\ w.does # "line" /\ Len(Writes[t]) \in Nat
      BY Places DEF Scripted
    <3>2. Follows(w, Reads[t][p])
      BY <3>1 DEF Scripted
    <3>3. p \in Nat
      <4> HIDE DEF p
      <4> QED BY <3>1
    <3> QED BY <3>1, <3>2, <3>3 DEF Step, Follows
  <2>2. \A g \in Fields : PartSample(w.of, n, g) \in PartValues(w.of)
    BY <2>1 DEF PartsRead, PartReads
  <2>3. Append(tag, p) \in Fields /\ \A k \in Nat : tag \o <<p, k>> \in Fields
    <3>1. tag \in Seq(Nat) /\ p \in Nat
      BY <2>1 DEF Fields, Tokens
    <3> HIDE DEF p
    <3>2. Append(tag, p) \in Seq(Nat) /\ Append(tag, p) # <<>>
      BY <3>1, AppendProperties
    <3>3. ASSUME NEW k \in Nat PROVE tag \o <<p, k>> \in Seq(Nat) /\ tag \o <<p, k>> # <<>>
      <4> DEFINE q == <<p, k>>
      <4>1. q \in Seq(Nat) /\ Len(q) = 2
        BY <3>1
      <4> HIDE DEF q
      <4>2. tag \o q \in Seq(Nat) /\ Len(tag \o q) = Len(tag) + Len(q) /\ Len(tag) \in Nat
        <5>1. tag \in Seq(Nat)
          BY <3>1
        <5> QED BY <4>1, <5>1, ConcatProperties, LenProperties
      <4>3. tag \o q # <<>>
        BY <4>1, <4>2
      <4> QED BY <4>2, <4>3 DEF q
    <3> QED BY <3>2, <3>3 DEF Fields, Tokens, newline
  <2>4. CASE w.does = "part"
    <3>1. y[name] = PartSample(w.of, n, Append(tag, p))
      BY <1>2, <2>1, <2>4
    <3>2. y[name] \in PartValues(w.of)
      BY <2>2, <2>3, <3>1
    <3> HIDE DEF w
    <3>3. y[name] \in MemberValues(w)
      BY <2>4, <3>2 DEF MemberValues
    <3> QED BY <3>3 DEF w
  <2>5. CASE w.does # "part"
    <3> DEFINE z == size(w)
               f == [k \in 1 .. z |-> PartSample(w.of, n, tag \o <<p, k>>)]
    <3>1. y[name] = f
      BY <1>2, <2>1, <2>5
    <3>2. z \in Nat /\ (w.does = "maybe" => z <= 1)
      OBVIOUS
    <3> HIDE DEF z
    <3>3. ASSUME NEW k \in 1 .. z PROVE PartSample(w.of, n, tag \o <<p, k>>) \in PartValues(w.of)
      <4>1. tag \o <<p, k>> \in Fields
        BY <2>3, <3>2
      <4> QED BY <2>2, <4>1
    <3>4. f \in [1 .. z -> PartValues(w.of)]
      BY <3>3
    <3> HIDE DEF f, w
    <3>5. f \in Seq(PartValues(w.of)) /\ Len(f) = z
      BY <3>2, <3>4
    <3>6. f \in MemberValues(w)
      BY <2>5, <3>2, <3>5 DEF MemberValues
    <3> QED BY <3>1, <3>6 DEF w
  <2> QED BY <2>4, <2>5
<1>4. y \in Values(t)
  BY <1>2, <1>3, ObjectOf
<1> QED BY <1>4 DEF y

\* The object a reader has after the first k steps.
Partly(t, old, v, k) ==
  [name \in Names(t) |->
     IF Place(t, name) <= k THEN Left(Reads[t][Place(t, name)], old[name], v[name])
     ELSE old[name]]

\* What is read after each step of the script.
LEMMA PartlyRead ==
  ASSUME NEW t, Scripted(t), NEW old \in Values(t), NEW v \in Values(t)
  PROVE  /\ Partly(t, old, v, 0) = old
         /\ Partly(t, old, v, Len(Writes[t])) = Result(t, old, v)
         /\ \A k \in 1 .. Len(Writes[t]) :
              LET w == Writes[t][k]
                  m == Partly(t, old, v, k - 1)
              IN  /\ w.does = "line" => Partly(t, old, v, k) = m
                  /\ w.does # "line" =>
                       /\ m[w.name] = old[w.name]
                       /\ Partly(t, old, v, k)
                            = [m EXCEPT ![w.name] = Left(Reads[t][k], m[w.name], v[w.name])]
<1> DEFINE n == Len(Writes[t])
           P(k) == Partly(t, old, v, k)
           e(name) == Left(Reads[t][Place(t, name)], old[name], v[name])
<1>1. /\ n \in Nat /\ t \in Types
      /\ \A name \in Names(t) : Place(t, name) \in 1 .. n
  BY Places DEF Scripted
<1>2. \A k : P(k) = [name \in Names(t) |-> IF Place(t, name) <= k THEN e(name) ELSE old[name]]
  BY DEF Partly
<1> HIDE DEF e, P
<1>3. P(0) = old
  <2>1. old = [name \in Names(t) |-> old[name]]
    BY <1>1 DEF Values
  <2>2. P(0) = [name \in Names(t) |-> old[name]]
    <3>1. \A name \in Names(t) : ~ (Place(t, name) <= 0)
      BY <1>1
    <3> QED BY <1>2, <3>1
  <2> QED BY <2>1, <2>2
<1>4. P(n) = Result(t, old, v)
  <2>1. \A name \in Names(t) : Place(t, name) <= n
    BY <1>1
  <2>2. P(n) = [name \in Names(t) |-> e(name)]
    BY <1>2, <2>1
  <2> QED BY <1>1, <2>2 DEF Result, e
<1>5. ASSUME NEW k \in 1 .. n, Writes[t][k].does = "line" PROVE P(k) = P(k - 1)
  <2>1. ASSUME NEW name \in Names(t) PROVE Place(t, name) <= k <=> Place(t, name) <= k - 1
    <3>1. Place(t, name) # k
      BY <1>5, Places
    <3> DEFINE p == Place(t, name)
    <3>2. p \in 1 .. n /\ p # k
      BY <1>1, <3>1
    <3> HIDE DEF p
    <3>3. p <= k <=> p <= k - 1
      BY <1>1, <3>2
    <3> QED BY <3>3 DEF p
  <2> QED BY <1>2, <2>1
<1>6. ASSUME NEW k \in 1 .. n, Writes[t][k].does # "line"
      PROVE  LET w == Writes[t][k]
                 m == P(k - 1)
             IN  /\ m[w.name] = old[w.name]
                 /\ P(k) = [m EXCEPT ![w.name] = Left(Reads[t][k], m[w.name], v[w.name])]
  <2> DEFINE a == Writes[t][k].name
             m == P(k - 1)
             x == Left(Reads[t][k], m[a], v[a])
  <2>1. a \in Names(t) /\ Place(t, a) = k
    <3>1. a \in Names(t)
      BY <1>6, MembersOf
    <3> QED BY <3>1, Places
  <2>2. m[a] = old[a]
    <3>1. ~ (k <= k - 1)
      OBVIOUS
    <3> QED BY <1>2, <2>1, <3>1
  <2>3. e(a) = x
    BY <2>1, <2>2 DEF e
  <2> HIDE DEF a, x
  <2>4. ASSUME NEW name \in Names(t)
        PROVE  (IF Place(t, name) <= k THEN e(name) ELSE old[name])
                 = IF name = a THEN x ELSE IF Place(t, name) <= k - 1 THEN e(name) ELSE old[name]
    <3>1. CASE name = a
      <4>1. Place(t, name) <= k
        BY <2>1, <3>1
      <4> QED BY <2>3, <3>1, <4>1
    <3>2. CASE name # a
      <4> DEFINE p == Place(t, name)
      <4>1. p # k
        <5>1. Writes[t][Place(t, name)].name = name
          BY Places
        <5> QED BY <3>2, <5>1 DEF a
      <4>2. p \in 1 .. n
        BY <1>1
      <4> HIDE DEF p
      <4>3. p <= k <=> p <= k - 1
        BY <1>1, <4>1, <4>2
      <4> QED BY <3>2, <4>3 DEF p
    <3> QED BY <3>1, <3>2
  <2>5. P(k) = [m EXCEPT ![a] = x]
    <3>1. m = [name \in Names(t) |-> IF Place(t, name) <= k - 1 THEN e(name) ELSE old[name]]
      BY <1>2
    <3>2. P(k) = [name \in Names(t) |-> IF Place(t, name) <= k THEN e(name) ELSE old[name]]
      BY <1>2
    <3> HIDE DEF m
    <3>3. DOMAIN m = Names(t)
      BY <3>1
    <3>4. [m EXCEPT ![a] = x] = [name \in Names(t) |-> IF name = a THEN x ELSE m[name]]
      BY <3>3
    <3>5. ASSUME NEW name \in Names(t)
          PROVE  (IF name = a THEN x ELSE m[name])
                   = IF Place(t, name) <= k THEN e(name) ELSE old[name]
      BY <2>4, <3>1
    <3>6. [name \in Names(t) |-> IF name = a THEN x ELSE m[name]]
            = [name \in Names(t) |-> IF Place(t, name) <= k THEN e(name) ELSE old[name]]
      BY <3>5
    <3> QED BY <3>2, <3>4, <3>6
  <2> QED BY <2>2, <2>5 DEF a, x
<1> QED BY <1>3, <1>4, <1>5, <1>6 DEF P

\* Reading an object's text, whatever follows it and into whichever object of its class,
\* leaves just what follows it, and of the object what its readers leave.
LEMMA ReadsObject ==
  ASSUME PartsRead, NEW t, Scripted(t), NEW old \in Values(t), NEW v \in Values(t),
         NEW s \in Streams
  PROVE  /\ Text(t, v) \in Streams
         /\ Parse(t, Given(old, Text(t, v) \o s)) = Given(Result(t, old, v), s)
<1> DEFINE n      == Len(Writes[t])
           W(k)   == Writes[t][k]
           R(k)   == Reads[t][k]
           pieces == [k \in 1 .. n |-> StepText(W(k), v)]
           m(k)   == Partly(t, old, v, k)
<1>1. /\ n \in Nat /\ t \in Types /\ Len(Reads[t]) = n
      /\ \A k \in 1 .. n : Follows(W(k), R(k))
  BY DEF Scripted
<1>2. \A k \in 1 .. n : W(k).does # "line" =>
        v[W(k).name] \in MemberValues(W(k)) /\ old[W(k).name] \in MemberValues(W(k))
  BY MembersOf
<1>3. /\ m(0) = old /\ m(n) = Result(t, old, v)
      /\ \A k \in 1 .. n :
           /\ W(k).does = "line" => m(k) = m(k - 1)
           /\ W(k).does # "line" =>
                /\ m(k - 1)[W(k).name] = old[W(k).name]
                /\ m(k) = [m(k - 1) EXCEPT ![W(k).name] =
                             Left(R(k), m(k - 1)[W(k).name], v[W(k).name])]
  BY PartlyRead
<1> HIDE DEF W, R, m
<1>4. ASSUME NEW k \in 1 .. n, NEW u \in Streams
      PROVE  /\ StepText(W(k), v) \in Streams
             /\ Do(R(k), Given(m(k - 1), StepText(W(k), v) \o u)) = Given(m(k), u)
  <2> DEFINE w == W(k)
             r == R(k)
             b == m(k - 1)
  <2>1. Follows(w, r) /\ (w.does # "line" =>
                            v[w.name] \in MemberValues(w) /\ b[w.name] \in MemberValues(w))
    BY <1>1, <1>2, <1>3
  <2>2. m(k) = After(w, r, b, v)
    BY <1>3 DEF After
  <2> HIDE DEF w, r, b
  <2>3. /\ StepText(w, v) \in Streams
        /\ Do(r, Given(b, StepText(w, v) \o u)) = Given(After(w, r, b, v), u)
    BY <2>1, ReadsStep
  <2>4. Do(r, Given(b, StepText(w, v) \o u)) = Given(m(k), u)
    BY <2>2, <2>3
  <2> QED BY <2>3, <2>4 DEF w, r, b
<1>5. pieces \in [1 .. n -> Seq(Tokens)]
  <2>1. <<>> \in Streams
    BY DEF Streams
  <2>2. \A k \in 1 .. n : StepText(W(k), v) \in Seq(Tokens)
    BY <1>4, <2>1 DEF Streams
  <2> QED BY <2>2
<1>6. /\ \A k \in 1 .. n : pieces[k] = StepText(W(k), v)
      /\ Text(t, v) = FlattenSeq(pieces)
  BY <1>1 DEF Text, W
<1> HIDE DEF pieces
<1>7. PICK g \in [1 .. n + 1 -> Streams] :
        /\ g[n + 1] = <<>> /\ g[1] = Text(t, v)
        /\ \A k \in 1 .. n : g[k] = pieces[k] \o g[k + 1]
  <2>1. \E g : FromTheEnd(g, Tokens, n, pieces)
    BY <1>1, <1>5, JoinedFromTheEnd
  <2> QED BY <1>6, <2>1 DEF FromTheEnd, Streams
<1> DEFINE r      == Given(old, g[1] \o s)
           F      == [k \in 0 .. n |-> Given(m(k), g[k + 1] \o s)]
           Sol(f) == f = [p \in 0 .. Len(Reads[t]) |->
                            IF p = 0 THEN r ELSE Do(Reads[t][p], f[p - 1])]
           done   == CHOOSE f : Sol(f)
<1>8. F[0] = r /\ \A k \in 1 .. n : F[k] = Do(R(k), F[k - 1])
  <2>1. F[0] = r
    <3>1. F[0] = Given(m(0), g[1] \o s)
      BY <1>1
    <3> HIDE DEF F
    <3> QED BY <1>3, <3>1
  <2>2. ASSUME NEW k \in 1 .. n PROVE F[k] = Do(R(k), F[k - 1])
    <3>1. F[k] = Given(m(k), g[k + 1] \o s) /\ F[k - 1] = Given(m(k - 1), g[k] \o s)
      OBVIOUS
    <3> HIDE DEF F
    <3>2. pieces[k] \in Streams /\ g[k + 1] \in Streams
      <4>1. k + 1 \in 1 .. n + 1
        BY <1>1
      <4> QED BY <1>5, <1>7, <4>1 DEF Streams
    <3>3. g[k] \o s = pieces[k] \o (g[k + 1] \o s) /\ g[k + 1] \o s \in Streams
      <4> DEFINE a == pieces[k]
                 b == g[k + 1]
      <4>1. a \in Streams /\ b \in Streams /\ g[k] = a \o b
        BY <1>7, <3>2
      <4> HIDE DEF a, b
      <4>2. b \o s \in Streams /\ (a \o b) \o s = a \o (b \o s)
        BY <4>1, StreamsJoin, StreamsAssociate, SMTT(60)
      <4> QED BY <4>1, <4>2 DEF a, b
    <3>4. Do(R(k), Given(m(k - 1), pieces[k] \o (g[k + 1] \o s))) = Given(m(k), g[k + 1] \o s)
      <4> DEFINE u == g[k + 1] \o s
      <4>1. u \in Streams
        BY <3>3
      <4> HIDE DEF u
      <4>2. Do(R(k), Given(m(k - 1), StepText(W(k), v) \o u)) = Given(m(k), u)
        BY <1>4, <4>1
      <4> QED BY <1>6, <4>2 DEF u
    <3> QED BY <3>1, <3>3, <3>4
  <2> QED BY <2>1, <2>2
<1>9. Sol(done)
  <2> DEFINE e == [p \in 0 .. Len(Reads[t]) |->
                     IF p = 0 THEN r ELSE Do(Reads[t][p], F[p - 1])]
  <2>1. ASSUME NEW k \in 0 .. n PROVE F[k] = e[k]
    <3>1. e[k] = IF k = 0 THEN r ELSE Do(R(k), F[k - 1])
      BY <1>1 DEF R
    <3> HIDE DEF e, F, r
    <3> QED BY <1>8, <3>1
  <2>2. F = e
    <3>1. F = [k \in 0 .. n |-> F[k]] /\ e = [k \in 0 .. n |-> e[k]]
      BY <1>1
    <3> HIDE DEF e, F
    <3> QED BY <2>1, <3>1
  <2>3. Sol(F)
    BY <2>2
  <2> HIDE DEF Sol, F
  <2> QED BY <2>3
<1>10. done[n] = F[n]
  <2> DEFINE S == {k \in 0 .. n : done[k] = F[k]}
  <2>1. ASSUME NEW k \in 0 .. n
        PROVE  done[k] = IF k = 0 THEN r ELSE Do(R(k), done[k - 1])
    <3> HIDE DEF done, r
    <3> QED BY <1>1, <1>9 DEF R
  <2> HIDE DEF done, F, r
  <2>2. 0 \in S
    <3>1. 0 \in 0 .. n
      BY <1>1
    <3>2. done[0] = r
      BY <2>1, <3>1
    <3> QED BY <1>8, <3>1, <3>2
  <2>3. ASSUME NEW k \in 0 .. n - 1, k \in S PROVE k + 1 \in S
    <3> DEFINE j == k + 1
    <3>1. j \in 1 .. n /\ j \in 0 .. n /\ j - 1 = k /\ j # 0
      OBVIOUS
    <3> HIDE DEF j
    <3>2. done[j] = F[j]
      BY <1>8, <2>1, <2>3, <3>1
    <3> QED BY <3>1, <3>2 DEF j
  <2> HIDE DEF S
  <2>4. \A k \in 0 .. n : k \in S
    BY <1>1, <2>2, <2>3, BoundedInduction
  <2> QED BY <1>1, <2>4 DEF S
<1>11. Parse(t, r) = done[n]
  <2>1. Parse(t, r) = done[Len(Reads[t])]
    BY <1>1 DEF Parse
  <2> HIDE DEF done
  <2> QED BY <1>1, <2>1
<1>12. F[n] = Given(Result(t, old, v), s)
  <2>1. F[n] = Given(m(n), g[n + 1] \o s)
    BY <1>1
  <2>2. <<>> \o s = s
    BY DEF Streams
  <2> HIDE DEF F
  <2> QED BY <1>3, <1>7, <2>1, <2>2
<1>13. g[1] \in Streams
  BY <1>1, <1>7
<1> HIDE DEF done, F
<1> QED BY <1>7, <1>10, <1>11, <1>12, <1>13

\* Nothing is left of a new object.
LEMMA NewObject ==
  ASSUME NEW t, Scripted(t), NEW v \in Values(t)
  PROVE  Result(t, Fresh(t), v) = v
<1>1. t \in Types /\ v = [name \in Names(t) |-> v[name]]
  BY DEF Scripted, Values
<1>2. ASSUME NEW name \in Names(t)
      PROVE  Left(Reads[t][Place(t, name)], Fresh(t)[name], v[name]) = v[name]
  <2> DEFINE w == Writes[t][Place(t, name)]
             r == Reads[t][Place(t, name)]
             a == Fresh(t)[name]
             b == v[name]
  <2>1. w = Step(t, name) /\ w.does # "line" /\ Follows(w, r)
    BY Places DEF Step, Scripted
  <2>2. w.does # "part" => a = <<>>
    BY <1>1, <2>1 DEF Fresh
  <2>3. b \in MemberValues(w)
    <3>1. Place(t, name) \in 1 .. Len(Writes[t]) /\ w.name = name
      BY Places
    <3> QED BY <2>1, <3>1, MembersOf
  <2> SUFFICES Left(r, a, b) = b
    OBVIOUS
  <2> HIDE DEF w, r, a, b
  <2>4. CASE r.does = "appended"
    <3>1. w.does = "vector"
      BY <2>4, <2>1 DEF Follows
    <3>2. b \in Seq(PartValues(w.of)) /\ a = <<>>
      BY <2>2, <2>3, <3>1 DEF MemberValues
    <3> DEFINE V == PartValues(w.of)
    <3> HIDE DEF V
    <3>3. <<>> \o b = b
      BY <3>2 DEF V
    <3> QED BY <2>4, <3>2, <3>3 DEF Left
  <2>5. CASE r.does = "maybe" /\ b = <<>>
    <3>1. w.does = "maybe"
      BY <2>5, <2>1 DEF Follows
    <3> QED BY <2>2, <2>5, <3>1 DEF Left
  <2>6. CASE r.does # "appended" /\ ~ (r.does = "maybe" /\ b = <<>>)
    BY <2>6 DEF Left
  <2> QED BY <2>4, <2>5, <2>6
<1>3. Result(t, Fresh(t), v)
        = [name \in Names(t) |-> Left(Reads[t][Place(t, name)], Fresh(t)[name], v[name])]
  BY <1>1 DEF Result
<1> QED BY <1>1, <1>2, <1>3

\* The reader leaves nothing of what was there before.
Replaces(t) ==
  \A p \in DOMAIN Writes[t] : Reads[t][p].does # "appended" /\ Reads[t][p].does # "maybe"

\* If no step keeps what was there, nothing is left of it.
LEMMA ReplacedObject ==
  ASSUME NEW t, Scripted(t), Replaces(t), NEW old, NEW v \in Values(t)
  PROVE  Result(t, old, v) = v
<1>1. t \in Types /\ v = [name \in Names(t) |-> v[name]] /\ DOMAIN Writes[t] = 1 .. Len(Writes[t])
  BY DEF Scripted, Values
<1>2. ASSUME NEW name \in Names(t)
      PROVE  Left(Reads[t][Place(t, name)], old[name], v[name]) = v[name]
  <2>1. Place(t, name) \in DOMAIN Writes[t]
    BY <1>1, Places
  <2> QED BY <2>1 DEF Replaces, Left
<1>3. Result(t, old, v)
        = [name \in Names(t) |-> Left(Reads[t][Place(t, name)], old[name], v[name])]
  BY <1>1 DEF Result
<1> QED BY <1>1, <1>2, <1>3

-----------------------------------------------------------------------------
(* What the proofs about TextStreams cite.                                 *)

\* What is said of a type: its new objects and samples are objects of it, their texts
\* are texts, and reading one of them leaves in the object what Result says, which is
\* all that was written when the object was new.
ObjectReads(t) ==
  /\ Fresh(t) \in Values(t)
  /\ \A n \in Nat, tag \in Fields : Sample(t, n, tag) \in Values(t)
  /\ \A v \in Values(t) : Text(t, v) \in Streams /\ Result(t, Fresh(t), v) = v
  /\ \A old, v \in Values(t) : Result(t, old, v) \in Values(t)
  /\ \A old, v \in Values(t), s \in Streams :
       Parse(t, Given(old, Text(t, v) \o s)) = Given(Result(t, old, v), s)

\* When the parts of objects read back, so does every object of a class whose scripts
\* agree (the operator>> of each class of the PVSS reads what its operator<< wrote).
THEOREM ObjectsRead ==
  PartsRead => \A t : Scripted(t) \/ (t \in Parts /\ t \notin Types) => ObjectReads(t)
<1> SUFFICES ASSUME PartsRead, NEW t, Scripted(t) \/ (t \in Parts /\ t \notin Types)
             PROVE  ObjectReads(t)
  OBVIOUS
<1>1. CASE Scripted(t)
  <2>1. Fresh(t) \in Values(t)
    BY <1>1, FreshType
  <2>2. \A n \in Nat, tag \in Fields : Sample(t, n, tag) \in Values(t)
    BY <1>1, SampleType
  <2>3. \A v \in Values(t) : Result(t, Fresh(t), v) = v
    BY <1>1, NewObject
  <2>4. \A old, v \in Values(t) : Result(t, old, v) \in Values(t)
    BY <1>1, ResultType
  <2>5. ASSUME NEW old \in Values(t), NEW v \in Values(t), NEW s \in Streams
        PROVE  /\ Text(t, v) \in Streams
               /\ Parse(t, Given(old, Text(t, v) \o s)) = Given(Result(t, old, v), s)
    BY <1>1, ReadsObject
  <2>6. \A v \in Values(t) : Text(t, v) \in Streams
    <3>1. <<>> \in Streams
      BY DEF Streams
    <3> QED BY <2>1, <2>5, <3>1
  <2> QED BY <2>1, <2>2, <2>3, <2>4, <2>5, <2>6 DEF ObjectReads
<1>2. CASE t \in Parts /\ t \notin Types
  <2>1. /\ Fresh(t) = PartFresh(t) /\ Values(t) = PartValues(t)
        /\ \A n, tag : Sample(t, n, tag) = PartSample(t, n, tag)
        /\ \A v : Text(t, v) = PartText(t, v)
        /\ \A old, v : Result(t, old, v) = v
        /\ \A r : Parse(t, r) = PartParse(t, r)
    BY <1>2 DEF Fresh, Values, Sample, Text, Result, Parse
  <2>2. PartReads(t)
    BY <1>2 DEF PartsRead
  <2> QED BY <2>1, <2>2 DEF PartReads, ObjectReads
<1> QED BY <1>1, <1>2

\* If its readers replace what was there, the object can be a part itself.
THEOREM ObjectsReplaced ==
  \A t : Scripted(t) /\ Replaces(t) => \A old, v \in Values(t) : Result(t, old, v) = v
<1> SUFFICES ASSUME NEW t, Scripted(t), Replaces(t), NEW old \in Values(t), NEW v \in Values(t)
             PROVE  Result(t, old, v) = v
  OBVIOUS
<1> QED BY ReplacedObject

\* A piece more at the end, and all but the first.
THEOREM JoinedOneMore ==
  \A X : \A pieces \in Seq(Seq(X)), piece \in Seq(X) :
    /\ FlattenSeq(pieces) \in Seq(X)
    /\ FlattenSeq(Append(pieces, piece)) = FlattenSeq(pieces) \o piece
    /\ pieces # <<>> => FlattenSeq(pieces) = Head(pieces) \o FlattenSeq(Tail(pieces))
<1> SUFFICES ASSUME NEW X, NEW pieces \in Seq(Seq(X)), NEW piece \in Seq(X)
             PROVE  /\ FlattenSeq(pieces) \in Seq(X)
                    /\ FlattenSeq(Append(pieces, piece)) = FlattenSeq(pieces) \o piece
                    /\ pieces # <<>> => FlattenSeq(pieces) = Head(pieces) \o FlattenSeq(Tail(pieces))
  OBVIOUS
<1> DEFINE Y == Seq(X)
           m == Len(pieces)
<1>1. m \in Nat /\ pieces \in [1 .. m -> Y] /\ pieces \in Seq(Y) /\ piece \in Y
  OBVIOUS
<1>2. PICK g : FromTheEnd(g, X, m, pieces)
  BY <1>1, JoinedFromTheEnd
<1>3. /\ \A k \in 1 .. m + 1 : g[k] \in Seq(X)
      /\ g[m + 1] = <<>> /\ g[1] = FlattenSeq(pieces)
      /\ \A k \in 1 .. m : g[k] = pieces[k] \o g[k + 1] /\ pieces[k] \in Seq(X)
  BY <1>1, <1>2 DEF FromTheEnd
<1>4. FlattenSeq(pieces) \in Seq(X)
  BY <1>1, <1>3
<1>5. FlattenSeq(Append(pieces, piece)) = FlattenSeq(pieces) \o piece
  <2> DEFINE more == Append(pieces, piece)
             n    == m + 1
  <2>1. n \in Nat /\ more \in [1 .. n -> Y] /\ more[n] = piece /\ \A k \in 1 .. m : more[k] = pieces[k]
    <3> HIDE DEF Y
    <3>1. /\ more \in Seq(Y) /\ Len(more) = n /\ more[n] = piece
          /\ \A k \in 1 .. m : more[k] = pieces[k]
      <4> HIDE DEF m
      <4> QED BY <1>1, AppendProperties DEF m
    <3> HIDE DEF more
    <3>2. n \in Nat
      BY <1>1
    <3> HIDE DEF n
    <3> QED BY <3>1, <3>2
  <2>2. PICK h : FromTheEnd(h, X, n, more)
    <3> HIDE DEF more, n
    <3> QED BY <2>1, JoinedFromTheEnd
  <2> HIDE DEF more
  <2>3. h[n + 1] = <<>> /\ h[1] = FlattenSeq(more) /\ \A k \in 1 .. n : h[k] = more[k] \o h[k + 1]
    BY <2>2 DEF FromTheEnd
  <2>4. h[n] = piece
    <3>1. h[n] = piece \o <<>>
      <4>1. n \in 1 .. n
        BY <1>1
      <4> QED BY <2>1, <2>3, <4>1
    <3> QED BY <3>1
  <2> DEFINE S == {k \in 0 .. m : h[n - k] = g[n - k] \o piece}
  <2>5. 0 \in S
    <3>1. g[n - 0] = <<>> /\ h[n - 0] = piece
      BY <1>1, <1>3, <2>4
    <3>2. <<>> \o piece = piece
      OBVIOUS
    <3>3. 0 \in 0 .. m
      BY <1>1
    <3> QED BY <3>1, <3>2, <3>3
  <2>6. ASSUME NEW k \in 0 .. m - 1, k \in S PROVE k + 1 \in S
    <3> DEFINE j == m - k
    <3>1. j \in 1 .. m /\ j \in 1 .. n /\ j + 1 = n - k /\ n - (k + 1) = j /\ k + 1 \in 0 .. m
      BY <1>1
    <3> HIDE DEF j
    <3>2. h[j + 1] = g[j + 1] \o piece /\ g[j] = pieces[j] \o g[j + 1]
      BY <1>3, <2>6, <3>1
    <3>3. h[j] = pieces[j] \o (g[j + 1] \o piece)
      BY <2>1, <2>3, <3>1, <3>2
    <3>4. pieces[j] \o (g[j + 1] \o piece) = (pieces[j] \o g[j + 1]) \o piece
      <4> DEFINE a == pieces[j]
                 b == g[j + 1]
      <4>1. a \in Seq(X) /\ b \in Seq(X)
        <5>1. j + 1 \in 1 .. m + 1
          BY <1>1, <3>1
        <5> QED BY <1>3, <3>1, <5>1
      <4> HIDE DEF a, b
      <4>2. (a \o b) \o piece = a \o (b \o piece)
        BY <4>1, ConcatAssociative, SMTT(60)
      <4> QED BY <4>2 DEF a, b
    <3>5. h[j] = g[j] \o piece
      BY <3>2, <3>3, <3>4
    <3> QED BY <3>1, <3>5
  <2> HIDE DEF n, S
  <2>7. m \in S
    <3>1. \A k \in 0 .. m : k \in S
      BY <1>1, <2>5, <2>6, BoundedInduction
    <3> QED BY <1>1, <3>1
  <2>8. h[1] = g[1] \o piece
    <3>1. n - m = 1
      BY <1>1 DEF n
    <3> QED BY <2>7, <3>1 DEF S
  <2> QED BY <1>3, <2>3, <2>8 DEF more
<1>6. ASSUME pieces # <<>> PROVE FlattenSeq(pieces) = Head(pieces) \o FlattenSeq(Tail(pieces))
  <2> DEFINE rest == Tail(pieces)
             n    == m - 1
  <2>1. /\ n \in Nat /\ m = n + 1 /\ rest \in [1 .. n -> Y]
        /\ \A k \in 1 .. n : rest[k] = pieces[k + 1]
        /\ Head(pieces) = pieces[1]
    <3>1. m # 0
      BY <1>1, <1>6
    <3> HIDE DEF Y
    <3>2. Len(rest) = n /\ rest \in Seq(Y) /\ \A k \in 1 .. n : rest[k] = pieces[k + 1]
      BY <1>1, <1>6, <3>1
    <3>3. n \in Nat /\ m = n + 1 /\ Head(pieces) = pieces[1]
      BY <1>1, <3>1
    <3> HIDE DEF rest, n
    <3>4. rest \in [1 .. n -> Y]
      BY <3>2, <3>3
    <3> QED BY <3>2, <3>3, <3>4
  <2>2. PICK h : FromTheEnd(h, X, n, rest)
    <3> HIDE DEF rest, n
    <3> QED BY <2>1, JoinedFromTheEnd
  <2> HIDE DEF rest
  <2>3. h[n + 1] = <<>> /\ h[1] = FlattenSeq(rest) /\ \A k \in 1 .. n : h[k] = rest[k] \o h[k + 1]
    BY <2>2 DEF FromTheEnd
  <2> DEFINE S == {k \in 0 .. n : h[m - k] = g[(m - k) + 1]}
  <2> HIDE DEF n
  <2>4. 0 \in S
    BY <1>1, <1>3, <2>1, <2>3
  <2>5. ASSUME NEW k \in 0 .. n - 1, k \in S PROVE k + 1 \in S
    <3> DEFINE j == n - k
    <3>1. /\ j \in 1 .. n /\ j + 1 \in 1 .. m /\ j + 1 = m - k /\ j = m - (k + 1)
          /\ k + 1 \in 0 .. n
      BY <1>1, <2>1
    <3> HIDE DEF j
    <3>2. h[j] = rest[j] \o h[j + 1] /\ h[j + 1] = g[(j + 1) + 1] /\ rest[j] = pieces[j + 1]
      BY <2>1, <2>3, <2>5, <3>1
    <3>3. g[j + 1] = pieces[j + 1] \o g[(j + 1) + 1]
      BY <1>3, <3>1
    <3>4. h[j] = g[j + 1]
      BY <3>2, <3>3
    <3> QED BY <3>1, <3>4
  <2> HIDE DEF S
  <2>6. n \in S
    <3>1. \A k \in 0 .. n : k \in S
      BY <2>1, <2>4, <2>5, BoundedInduction
    <3> QED BY <2>1, <3>1
  <2>7. h[1] = g[2]
    <3>1. m - n = 1 /\ 1 + 1 = 2
      BY <1>1, <2>1
    <3> QED BY <2>6, <3>1 DEF S
  <2>8. g[1] = pieces[1] \o g[2]
    <3>1. 1 \in 1 .. m /\ 1 + 1 = 2
      BY <1>1, <2>1
    <3> QED BY <1>3, <3>1
  <2> QED BY <1>3, <2>1, <2>3, <2>7, <2>8 DEF rest
<1> QED BY <1>4, <1>5, <1>6
=============================================================================
