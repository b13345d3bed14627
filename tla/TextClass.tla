------------------------------- MODULE TextClass ------------------------------
(***************************************************************************)
(* The text of an object of a class, given that of its members.  Each      *)
(* class has a writer and a reader, written separately; both are scripts   *)
(* of steps.  A reader consumes each newline by hand and asserts that it   *)
(* is one, so the two must agree on every line.                            *)
(*                                                                         *)
(* An object is a function of member names; a vector is a sequence of      *)
(* parts, an optional a sequence of at most one.  A type that is no class  *)
(* is read and written as a part.                                          *)
(***************************************************************************)
EXTENDS TextFields

CONSTANTS
  Writes, Reads,          \* of each class, the scripts of its writer and its reader
  PartFresh(_), PartSample(_, _, _), PartText(_, _), PartParse(_, _)   \* of its parts

Types         == DOMAIN Writes
Names(t)      == {Writes[t][p].name : p \in DOMAIN Writes[t]} \ {""}
Place(t, name) == CHOOSE p \in DOMAIN Writes[t] : Writes[t][p].name = name
Step(t, name) == Writes[t][Place(t, name)]

-----------------------------------------------------------------------------
\* An object whose fields are all different from each other and, for different
\* tags, from those of other objects.
Sample(t, n, tag) ==
  IF t \notin Types THEN PartSample(t, n, tag)
  ELSE [name \in Names(t) |->
          LET step  == Step(t, name)
              place == Place(t, name)
              size  == IF step.does = "maybe" /\ n > 1 THEN 1 ELSE n
          IN  IF step.does = "part" THEN PartSample(step.of, n, Append(tag, place))
              ELSE [k \in 1 .. size |-> PartSample(step.of, n, tag \o <<place, k>>)]]

\* A new object before anything is read into it.
Fresh(t) ==
  IF t \notin Types THEN PartFresh(t)
  ELSE [name \in Names(t) |->
          LET step == Step(t, name)
          IN  IF step.does = "part" THEN PartFresh(step.of) ELSE <<>>]

-----------------------------------------------------------------------------
\* What operator<< writes.
VectorText(of, es) ==
  PartText("number", <<Len(es)>>) \o <<newline>>
  \o FlattenSeq([k \in 1 .. Len(es) |-> Append(PartText(of, es[k]), newline)])

StepText(step, v) ==
  CASE step.does = "line" -> <<newline>>
    [] step.does = "part" -> PartText(step.of, v[step.name])
    [] OTHER -> VectorText(step.of, v[step.name])

Text(t, v) ==
  IF t \notin Types THEN PartText(t, v)
  ELSE FlattenSeq([p \in 1 .. Len(Writes[t]) |-> StepText(Writes[t][p], v)])

-----------------------------------------------------------------------------
\* What operator>> reads.

\* One more object and the newline after it, onto the sequence acc.v.
Element(of, old, acc) ==
  LET Onto(one) == [one EXCEPT !.v = Append(acc.v, @)]
  IN  IF acc.ok THEN Onto(consume_NEWLINE(PartParse(of, [acc EXCEPT !.v = old]))) ELSE acc

\* What is in the vector before its elements are read, and how many are; an
\* optional has at most one, and keeps its value if it has none.
Kept(step, old, n) ==
  IF step.does = "appended" \/ (step.does = "maybe" /\ n = 0) THEN old ELSE <<>>
Count(step, n) == IF step.does = "maybe" /\ n > 0 THEN 1 ELSE n

\* When a vector is resized, the k-th element is read into the k-th of the old ones,
\* if there is one, otherwise into a new object.
Before(step, old, k) ==
  IF step.does = "resized" /\ k <= Len(old) THEN old[k] ELSE PartFresh(step.of)

\* The elements of a vector.
Elements(step, old, n, r) ==
  LET got[k \in 0 .. Count(step, n)] ==
        IF k = 0 THEN [r EXCEPT !.v = Kept(step, old, n)]
        ELSE Element(step.of, Before(step, old, k), got[k - 1])
  IN  got[Count(step, n)]

Sized(step, old, r) == IF r.ok THEN Elements(step, old, Last(r.v), r) ELSE r

Vector(step, old, r) ==
  Sized(step, old,
        consume_NEWLINE(PartParse("number", [r EXCEPT !.v = PartFresh("number")])))

Member(step, acc) ==
  LET old     == acc.v[step.name]
      Into(r) == [r EXCEPT !.v = [acc.v EXCEPT ![step.name] = r.v]]
  IN  IF step.does = "part"
        THEN Into(PartParse(step.of, [acc EXCEPT !.v = old]))
        ELSE Into(Vector(step, old, acc))

Do(step, acc) ==
  IF ~ acc.ok THEN acc
  ELSE IF step.does = "line" THEN consume_NEWLINE(acc)
  ELSE Member(step, acc)

Parse(t, r) ==
  LET done[p \in 0 .. Len(Reads[t])] == IF p = 0 THEN r ELSE Do(Reads[t][p], done[p - 1])
  IN  IF t \notin Types THEN PartParse(t, r) ELSE done[Len(Reads[t])]
=============================================================================
