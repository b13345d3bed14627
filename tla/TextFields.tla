------------------------------ MODULE TextFields ------------------------------
(***************************************************************************)
(* What the text of a PVSS object is made of: tokens that are fields or    *)
(* newlines, and how one of either is read.                                *)
(*                                                                         *)
(* libff is external: in text mode a number is read past leading white     *)
(* space, a group element is not, and consume_OUTPUT_NEWLINE asserts that  *)
(* the next character ends a line.                                         *)
(***************************************************************************)
EXTENDS SequencesExt, Integers

\* A field is a sequence of numbers that is not empty.
newline == <<>>

FieldFresh(t)          == <<0>>
FieldSample(t, n, tag) == tag
FieldText(t, v)        == <<v>>

\* A result of reading: the object so far, what is left of the stream, and whether
\* every field and every newline was where it was expected.
Failed(r) == [r EXCEPT !.ok = FALSE]

\* What follows the newlines at the beginning of s.
Spaceless(s) ==
  LET n == CHOOSE k \in 0 .. Len(s) :
             /\ \A j \in 1 .. k : s[j] = newline
             /\ k < Len(s) => s[k + 1] # newline
  IN  SubSeq(s, n + 1, Len(s))

consume_NEWLINE(r) ==
  IF r.ok /\ r.rest # <<>> /\ Head(r.rest) = newline
    THEN [r EXCEPT !.rest = Tail(@)]
    ELSE Failed(r)

Field(t, r) ==
  LET s == IF t = "number" THEN Spaceless(r.rest) ELSE r.rest
  IN  IF s # <<>> /\ Head(s) # newline
        THEN [r EXCEPT !.v = Head(s), !.rest = Tail(s)]
        ELSE Failed(r)
=============================================================================
