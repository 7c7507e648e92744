---------------------------- MODULE ConditionValues ----------------------------
(***************************************************************************)
(* How a simple condition compares two JSON values: integers with floats   *)
(* without losing either, texts without their case, numbers with texts     *)
(* that are spelled as numbers, and arrays and objects with a list of the  *)
(* pairs that are still to be compared, for they nest as deep as a         *)
(* response says.  Every number here is twice the value it stands for.     *)
(***************************************************************************)
EXTENDS Integers, Sequences, FiniteSets, SequencesExt

CONSTANTS
  Values,      (* what is compared                                           *)
  IntMin,      (* of the integers that JSON numbers are stored in            *)
  IntMax

ASSUME IntAssumption == IntMin \in Int /\ IntMax \in Nat /\ IntMin < 0

(***************************************************************************)
(* Values.  A text knows its place among the texts in lower case, and what *)
(* number it spells if it spells one.                                      *)
(***************************************************************************)
Null == [kind |-> "null"]
Bool(b) == [kind |-> "bool", is |-> b]
Integer(twice) == [kind |-> "number", integer |-> TRUE, twice |-> twice]
Float(twice) == [kind |-> "number", integer |-> FALSE, twice |-> twice]
CompareText(place, spells, twice) == [kind |-> "text", place |-> place, spells |-> spells, twice |-> twice]
Array(items) == [kind |-> "array", items |-> items]
Object(fields) == [kind |-> "object", fields |-> fields]

VARIABLES
  left, right,
  pending,     (* pairs to compare, the next one last                        *)
  outcome      (* "comparing", "equal", "different" or "error"               *)

compareVars == <<left, right, pending, outcome>>

CompareInit ==
  /\ left \in Values /\ right \in Values
  /\ pending = <<<<left, right>>>> /\ outcome = "comparing"

(***************************************************************************)
(* Numbers and texts                                                       *)
(***************************************************************************)
Order(a, b) == CASE a < b -> "less" [] a = b -> "equal" [] a > b -> "greater"
Reverse2(order) == CASE order = "less" -> "greater" [] order = "greater" -> "less" [] OTHER -> order

\* A float without its fraction, towards zero.
Truncated(twice) == IF twice >= 0 THEN twice - (twice % 2) ELSE twice + ((-twice) % 2)

CompareIntegerFloat(i, f) ==
  CASE f >= 2 * (IntMax + 1) -> "less"
    [] f < 2 * IntMin -> "greater"
    [] i = Truncated(f) /\ f > Truncated(f) -> "less"
    [] i = Truncated(f) /\ f < Truncated(f) -> "greater"
    [] OTHER -> Order(i, Truncated(f))

CompareNumbers(l, r) ==
  CASE l.integer = r.integer -> Order(l.twice, r.twice)
    [] l.integer /\ ~r.integer -> CompareIntegerFloat(l.twice, r.twice)
    [] ~l.integer /\ r.integer -> Reverse2(CompareIntegerFloat(r.twice, l.twice))

\* The number a text spells: an integer that fits, or a float.
Parses(text) ==
  \/ text.spells = "float"
  \/ text.spells = "integer" /\ 2 * IntMin <= text.twice /\ text.twice <= 2 * IntMax
CompareParsed(text) == [kind |-> "number", integer |-> text.spells = "integer", twice |-> text.twice]

Ordered(l, r) ==
  CASE l.kind = "number" /\ r.kind = "number" -> CompareNumbers(l, r)
    [] l.kind = "number" /\ r.kind = "text" -> IF Parses(r) THEN CompareNumbers(l, CompareParsed(r)) ELSE "error"
    [] l.kind = "text" /\ r.kind = "number" -> IF Parses(l) THEN CompareNumbers(CompareParsed(l), r) ELSE "error"
    [] l.kind = "text" /\ r.kind = "text" -> Order(l.place, r.place)
    [] OTHER -> "error"

(***************************************************************************)
(* Equality, a pair at a time                                              *)
(***************************************************************************)
Pair == Last(pending)
Settle(answer) == outcome' = answer /\ UNCHANGED <<left, right, pending>>
Kinds(a, b) == outcome = "comparing" /\ pending # <<>> /\ Pair[1].kind \in a /\ Pair[2].kind \in b
Continue(more) == pending' = Front(pending) \o more /\ UNCHANGED <<left, right, outcome>>

CompareScalars ==
  /\ \/ Kinds({"null"}, {"null"})
     \/ Kinds({"bool"}, {"bool"})
  /\ IF Pair[1] = Pair[2] THEN Continue(<<>>) ELSE Settle("different")

CompareOrdered ==
  /\ Kinds({"number", "text"}, {"number", "text"})
  /\ LET order == Ordered(Pair[1], Pair[2])
     IN  CASE order = "equal" -> Continue(<<>>)
           [] order = "error" -> Settle("error")
           [] OTHER -> Settle("different")

CompareArrays ==
  /\ Kinds({"array"}, {"array"})
  /\ LET a == Pair[1].items  b == Pair[2].items
     IN  IF Len(a) # Len(b) THEN Settle("different") ELSE Continue(Reverse(Zip(a, b)))

\* The names of an object's fields, in order: those of a sort of the strings.
CompareNamed(fields) == SelectSeq(<<"a", "b">>, LAMBDA n : n \in DOMAIN fields)

CompareObjects ==
  /\ Kinds({"object"}, {"object"})
  /\ LET a == Pair[1].fields  b == Pair[2].fields  names == CompareNamed(a)
     IN  IF Cardinality(DOMAIN a) # Cardinality(DOMAIN b) \/ \E n \in DOMAIN a : n \notin DOMAIN b
         THEN Settle("different")
         ELSE Continue(Reverse([i \in DOMAIN names |-> <<a[names[i]], b[names[i]]>>]))

Alike == {{"number", "text"}, {"null"}, {"bool"}, {"array"}, {"object"}}
CompareUnlike ==
  /\ outcome = "comparing" /\ pending # <<>>
  /\ \A kinds \in Alike : ~ {Pair[1].kind, Pair[2].kind} \subseteq kinds
  /\ Settle("different")

NothingLeft == outcome = "comparing" /\ pending = <<>> /\ Settle("equal")

CompareNext == \/ CompareScalars \/ CompareOrdered \/ CompareArrays \/ CompareObjects
        \/ CompareUnlike \/ NothingLeft
CompareSpec == CompareInit /\ [][CompareNext]_compareVars

(***************************************************************************)
(* What the operators of a condition answer, once equality is settled      *)
(***************************************************************************)
Settled == outcome # "comparing"
Answer(b) == IF b THEN "true" ELSE "false"

Compare(op) ==
  CASE op \in {"==", "!="} -> IF outcome = "error" THEN "error" ELSE Answer((op = "==") = (outcome = "equal"))
    [] op \notin {"==", "!="} /\ (left = Null) # (right = Null) -> "false"
    [] OTHER ->
       LET order == Ordered(left, right)
       IN  IF order = "error" THEN "error"
           ELSE Answer(order \in CASE op = "<" -> {"less"} [] op = "<=" -> {"less", "equal"}
                                   [] op = ">" -> {"greater"} [] op = ">=" -> {"greater", "equal"})

(***************************************************************************)
(* Properties                                                              *)
(***************************************************************************)
\* Values are only equal when there is nothing left to compare.
CompareTypeOK ==
  /\ outcome \in {"comparing", "equal", "different", "error"}
  /\ outcome = "equal" => pending = <<>>
  /\ \A i \in DOMAIN pending : {pending[i][1].kind, pending[i][2].kind} \subseteq
                               {"null", "bool", "number", "text", "array", "object"}

\* Equality by the structure of the values, recursively; the first item that is
\* not equal decides, an error among the later ones is not reached.
RECURSIVE Same(_, _), AllSame(_, _)
AllSame(a, b) ==
  IF a = <<>> THEN "equal"
  ELSE LET first == Same(Head(a), Head(b)) IN IF first = "equal" THEN AllSame(Tail(a), Tail(b)) ELSE first
Same(l, r) ==
  CASE l.kind = "array" /\ r.kind = "array" ->
       IF Len(l.items) = Len(r.items) THEN AllSame(l.items, r.items) ELSE "different"
    [] l.kind = "object" /\ r.kind = "object" ->
       IF DOMAIN l.fields # DOMAIN r.fields THEN "different"
       ELSE LET In(fields) == LET names == CompareNamed(fields) IN [i \in DOMAIN names |-> fields[names[i]]]
            IN  AllSame(In(l.fields), In(r.fields))
    [] {l.kind, r.kind} \subseteq {"number", "text"} ->
       LET order == Ordered(l, r) IN IF order \in {"equal", "error"} THEN order ELSE "different"
    [] OTHER -> IF l = r THEN "equal" ELSE "different"

\* The list of pairs compares as a recursion over the values would: whether they
\* are equal, and whether a text that is no number is reached before the first
\* difference (structural_equal).
FirstDifferenceDecides == Settled => outcome = Same(left, right)

\* It does not matter which side of == a value is on.
EqualityIsSymmetric == Settled => outcome = Same(right, left)

\* Numbers compare by their value, whatever each is stored in, at the limits of
\* the integers and on both sides of zero (numeric.rs).
NumbersAreExact ==
  (left.kind = "number" /\ right.kind = "number") => Ordered(left, right) = Order(left.twice, right.twice)

\* != is the opposite of ==, an error is an error for both; when values have an
\* order at all, <= is < or ==, and > and >= the same seen from the other side;
\* null is neither below nor above anything.
OrderAgrees ==
  Settled =>
  /\ Compare("!=") = CASE Compare("==") = "error" -> "error" [] OTHER -> Answer(Compare("==") = "false")
  /\ (left = Null) # (right = Null) => \A op \in {"<", "<=", ">", ">=", "=="} : Compare(op) = "false"
  /\ (left # Null /\ right # Null /\ Compare("<") # "error") =>
        /\ Compare("==") # "error"
        /\ Compare("<=") = Answer(Compare("<") = "true" \/ Compare("==") = "true")
        /\ Compare(">") = Answer(Compare("<=") = "false")
        /\ Compare(">=") = Answer(Compare("<") = "false")

\* The comparison with a list of pairs is the one by structure, whichever side a value
\* is on, exact at the limits of the integers, and the operators agree with each other.
ComparisonIsExact ==
  CompareTypeOK /\ FirstDifferenceDecides /\ EqualityIsSymmetric /\ NumbersAreExact /\ OrderAgrees
=================================================================================
