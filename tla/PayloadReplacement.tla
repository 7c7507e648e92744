-------------------------- MODULE PayloadReplacement --------------------------
(***************************************************************************)
(* The replacements of a request body, one after the other: the value is   *)
(* resolved, the target is interpreted as a pointer, a query or an XPath,  *)
(* and the place it leads to is written.  A replacement that fails leaves  *)
(* a warning and the body as it was, and the next one goes on.             *)
(*                                                                         *)
(* A JSON value is the kind or scalar at each path in it, so that writing  *)
(* at a path replaces what is below it.  An XML body is a string whose     *)
(* nodes are below it, where no pointer goes.                              *)
(***************************************************************************)
EXTENDS Integers, Sequences, FiniteSets, SequencesExt

CONSTANTS
  Bodies,
  ContentTypes,    (* of "json", "xml" and "other"                           *)
  Replacements,    (* what a replacement may be                              *)
  Segments,         (* the names of members, and positions                    *)
  MaxReplacements  (* bound of this model                                    *)

VARIABLES
  payload, contentType,
  rest,        (* the replacements to come                                   *)
  warnings,    (* of each replacement: what was warned of                    *)
  done         (* the replacements that were up                              *)

payloadVars == <<payload, contentType, rest, warnings, done>>

PayloadInit ==
  /\ payload \in Bodies /\ contentType \in ContentTypes
  /\ rest \in BoundedSeq(Replacements, MaxReplacements) \ {<<>>}
  /\ warnings = <<>> /\ done = <<>>

(***************************************************************************)
(* Values                                                                  *)
(***************************************************************************)
Root == <<>>
Scalar(v) == [p \in {Root} |-> v]
Container(kind) == kind \in {"object", "array"}
Structured(kind) == Container(kind) \/ kind = "xml"
Position == <<"0", "1", "2">>

\* What is below a path is in a container or in an XML document; the items of an array
\* are at positions, and the nodes of a document have texts.
IsTree(value) ==
  /\ DOMAIN value \subseteq Seq(Segments) /\ Root \in DOMAIN value /\ value = [p \in DOMAIN value |-> value[p]]
  /\ \A p \in DOMAIN value \ {Root} :
       /\ Front(p) \in DOMAIN value /\ Structured(value[Front(p)])
       /\ value[Front(p)] = "array" => Last(p) \in ToSet(Position)
       /\ value[Front(p)] = "xml" => ~Structured(value[p])

Write(value, path, new) ==
  [q \in {path \o r : r \in DOMAIN new} \cup {q \in DOMAIN value : ~IsPrefix(path, q)} |->
     IF IsPrefix(path, q) THEN new[SubSeq(q, Len(path) + 1, Len(q))] ELSE value[q]]
PayloadAt(value, path) == [q \in {SubSeq(p, Len(path) + 1, Len(p)) : p \in {p \in DOMAIN value : IsPrefix(path, p)}}
                      |-> value[path \o q]]
ArrayOf(values) ==
  [q \in {Root} \cup UNION {{<<Position[i]>> \o r : r \in DOMAIN values[i]} : i \in DOMAIN values} |->
     IF q = Root THEN "array" ELSE values[CHOOSE i \in DOMAIN values : Position[i] = Head(q)][Tail(q)]]

(***************************************************************************)
(* The value of a replacement: literals, selectors, and lists of them      *)
(***************************************************************************)
Resolved(value, warned, failed) == [value |-> value, warned |-> warned, failed |-> failed]
NoValue == Scalar("null")

\* A jsonpath selector is admitted before its context is resolved; that it cannot
\* be resolved is a failure, that it finds nothing is not.
ResolveJsonPath(s) ==
  IF s.version \notin {"none", "rfc9535"} \/ s.context = "unresolved" \/ s.query \in {"malformed", "fails"}
  THEN Resolved(NoValue, TRUE, TRUE)
  ELSE IF s.query = "nothing" THEN Resolved(NoValue, TRUE, FALSE)
  ELSE Resolved(s.selects, FALSE, FALSE)

\* The selectors of the other types have errors that only warn.
ResolveOther(s) ==
  CASE s.context = "unresolved" -> Resolved(NoValue, TRUE, FALSE)
    [] s.type = "jsonpointer" /\ s.version \notin {"none", "rfc6901"} -> Resolved(NoValue, TRUE, FALSE)
    [] s.type = "xpath" /\ s.version # "xpath-10" -> Resolved(NoValue, TRUE, FALSE)
    [] s.type \notin {"jsonpointer", "xpath"} -> Resolved(NoValue, TRUE, FALSE)
    [] s.query \in {"malformed", "fails", "nothing"} -> Resolved(NoValue, TRUE, FALSE)
    [] OTHER -> Resolved(s.selects, FALSE, FALSE)

ResolveSelector(s) == IF s.type = "jsonpath" THEN ResolveJsonPath(s) ELSE ResolveOther(s)

ResolveItem(source) ==
  CASE source.source = "literal" -> Resolved(source.value, FALSE, FALSE)
    [] source.source = "expression" -> Resolved(NoValue, TRUE, FALSE)
    [] OTHER -> ResolveSelector(source)

\* A list resolves each of its items, and failed when one of them did.
PayloadResolve(source) ==
  IF source.source # "list" THEN ResolveItem(source)
  ELSE LET items == [i \in DOMAIN source.items |-> ResolveItem(source.items[i])]
       IN  Resolved(ArrayOf([i \in DOMAIN items |-> items[i].value]),
                    \E i \in DOMAIN items : items[i].warned, \E i \in DOMAIN items : items[i].failed)

(***************************************************************************)
(* Targets                                                                 *)
(***************************************************************************)
Kind(r) ==
  CASE r.declared # "none" -> r.declared
    [] r.declared = "none" /\ contentType = "json" -> "jsonpointer"
    [] OTHER -> IF contentType = "xml" \/ payload[Root] \in {"xml", "text"} THEN "xpath" ELSE "jsonpointer"

\* An index is read as a number: leading zeros are none of it.
Index(token) == IF token = "01" THEN "1" ELSE token

\* A pointer leads to a place if every container on the way is there, and the place
\* is there too, or is a new member of an object.
Leads(value, pointer, place) ==
  /\ Len(place) = Len(pointer)
  /\ \A i \in DOMAIN pointer :
       LET here == SubSeq(place, 1, i - 1)
       IN  /\ here \in DOMAIN value /\ Container(value[here])
           /\ place[i] = IF value[here] = "array" THEN Index(pointer[i]) ELSE pointer[i]
           /\ SubSeq(place, 1, i) \in DOMAIN value \/ (i = Len(pointer) /\ value[here] = "object")
Places(value, pointer) ==
  {place \in {Append(p, token) : p \in DOMAIN value, token \in {Last(pointer), Index(Last(pointer))}} :
     Leads(value, pointer, place)}
Place(value, pointer) == CHOOSE place \in Places(value, pointer) : TRUE

Members(value, path) ==
  IF path \in DOMAIN value /\ Container(value[path]) THEN {p \in DOMAIN value \ {Root} : Front(p) = path} ELSE {}

\* The occurrences that a query finds in a value: a place may be found twice.
Located(value, path) ==
  CASE path = "$" -> {1} \X {Root}
    [] path = "$.a" -> {1} \X ({<<"a">>} \cap Members(value, Root))
    [] path = "$['a','a']" -> {1, 2} \X ({<<"a">>} \cap Members(value, Root))
    [] path = "$.items[*]" -> {1} \X Members(value, <<"items">>)
    [] OTHER -> {}
OnlyOne(found) == \E m \in found : found = {m}
PlaceOf(found) == (CHOOSE m \in found : TRUE)[2]

\* The nodes an XPath finds in an XML body.
XmlNodes(value, path) ==
  LET named == CASE path = "x" -> {<<"x">>}
                 [] path = "x and y" -> {<<"x">>, <<"y">>}
                 [] path = "x and a comment" -> {<<"x">>, <<"comment">>}
                 [] OTHER -> {}
  IN  named \cap DOMAIN value
Replaceable(node) == node # <<"comment">>

\* Bodies, and the values that are written or selected, are values; a list is no
\* longer than there are positions.
Given(source) ==
  /\ source.source \in {"literal", "expression", "selector"}
  /\ source.source = "literal" => IsTree(source.value)
  /\ source.source = "selector" => IsTree(source.selects)
ASSUME PayloadAssumption ==
  /\ ToSet(Position) \subseteq Segments
  /\ \A b \in Bodies : IsTree(b)
  /\ \A r \in Replacements :
       /\ r.target.pointer \in Seq(Segments)
       /\ IF r.value.source = "list"
          THEN /\ DOMAIN r.value.items \subseteq DOMAIN Position
               /\ \A i \in DOMAIN r.value.items : Given(r.value.items[i])
          ELSE Given(r.value)

(***************************************************************************)
(* One replacement                                                         *)
(***************************************************************************)
Current == rest[1]
Value == PayloadResolve(Current.value)
Advance(warned) ==
  /\ warnings' = Append(warnings, warned)
  /\ rest' = Tail(rest) /\ done' = Append(done, Current)
  /\ UNCHANGED contentType

\* What was warned of before the place is looked for.
Before == (IF Value.warned THEN <<"value">> ELSE <<>>)
          \o (IF Kind(Current) = "xpath" /\ Current.version = "xpath-10" /\ payload[Root] \in {"xml", "text"}
                 /\ Container(Value.value[Root]) THEN <<"structure">> ELSE <<>>)
Decline(why) == Advance(Append(Before, why)) /\ UNCHANGED payload
Apply(new) == Advance(Before) /\ payload' = new

EmptyTarget ==
  /\ rest # <<>> /\ Current.target.empty
  /\ Advance(<<"empty target">>) /\ UNCHANGED payload

Unresolved ==
  /\ rest # <<>> /\ ~Current.target.empty /\ Value.failed
  /\ Decline("value failed")

Ready(kind) == rest # <<>> /\ ~Current.target.empty /\ ~Value.failed /\ Kind(Current) = kind

UnsupportedType ==
  /\ rest # <<>> /\ ~Current.target.empty /\ ~Value.failed
  /\ Kind(Current) \notin {"jsonpointer", "jsonpath", "xpath"}
  /\ Decline("type")

\* A pointer that was found by a query, or is the target itself.
WriteAt(pointer) ==
  IF pointer # <<>> /\ Places(payload, pointer) # {} THEN Apply(Write(payload, Place(payload, pointer), Value.value))
  ELSE Decline("pointer")

ByPointer ==
  /\ Ready("jsonpointer")
  /\ IF Current.version \notin {"none", "rfc6901"} THEN Decline("version") ELSE WriteAt(Current.target.pointer)

ByQuery ==
  /\ Ready("jsonpath")
  /\ LET found == Located(payload, Current.target.query)
     IN  IF Current.version \notin {"none", "rfc9535"} THEN Decline("version")
         ELSE IF Current.target.query = "malformed" THEN Decline("query")
         ELSE IF ~OnlyOne(found) THEN Decline("places")
         ELSE IF PlaceOf(found) = Root THEN Apply(Value.value)
         ELSE WriteAt(PlaceOf(found))

\* A value with structure is written as its text.
AsText(value) == IF Structured(value[Root]) THEN "text of it" ELSE value[Root]
Rewritten(nodes) == [p \in DOMAIN payload |-> IF p \in nodes THEN AsText(Value.value) ELSE payload[p]]

\* mutant: the nodes before the one that cannot be replaced stay written
ByXPathInPlace ==
  /\ Ready("xpath")
  /\ LET nodes == XmlNodes(payload, Current.target.xpath)
     IN  IF payload[Root] # "xml" \/ nodes = {} THEN Decline("xpath")
         ELSE /\ payload' = Rewritten({n \in nodes : Replaceable(n)})
              /\ Advance(IF \A n \in nodes : Replaceable(n) THEN Before ELSE Append(Before, "xpath"))

\* All the nodes are written, into a copy of the document, which is the body only
\* when each of them could be.
ByXPath ==
  /\ Ready("xpath")
  /\ LET nodes == XmlNodes(payload, Current.target.xpath)
     IN  IF Current.version # "xpath-10" THEN Decline("version")
         ELSE IF payload[Root] # "xml" THEN Decline("no xml")
         ELSE IF nodes = {} \/ \E n \in nodes : ~Replaceable(n) THEN Decline("xpath")
         ELSE Apply(Rewritten(nodes))

PayloadNext == EmptyTarget \/ Unresolved \/ UnsupportedType \/ ByPointer \/ ByQuery \/ ByXPath
PayloadSpec == PayloadInit /\ [][PayloadNext]_payloadVars

(***************************************************************************)
(* Properties                                                              *)
(***************************************************************************)
\* A body is a value, however often it was written, and every replacement has its
\* warnings.
BodyTypeOK == IsTree(payload) /\ Len(warnings) = Len(done)

Refusals == {"empty target", "value failed", "type", "version", "pointer", "query", "places", "no xml", "xpath"}
Refused(warned) == Refusals \cap ToSet(warned) # {}

Went == done' # done
Applied == Went /\ ~Refused(Last(warnings'))

\* A replacement that is reported to have failed has changed nothing, not even in
\* part (replace_xpath).
FailureLeavesBody == [][Went /\ Refused(Last(warnings')) => payload' = payload]_payloadVars

\* Where a replacement leads that applies: one place of a JSON body, or the nodes
\* of an XML one.
PayloadNamed(r) ==
  CASE Kind(r) = "jsonpointer" -> {Place(payload, r.target.pointer)}
    [] Kind(r) = "jsonpath" -> {PlaceOf(Located(payload, r.target.query))}
    [] OTHER -> XmlNodes(payload, r.target.xpath)

\* What a replacement does not name stays as it is, and what it names has the
\* value it was given, or its text.
OnlyTheTargetChanges ==
  [][Applied =>
       LET named == PayloadNamed(Current)
       IN  /\ \A p \in DOMAIN payload \cup DOMAIN payload' :
                (\A n \in named : ~IsPrefix(n, p)) => p \in DOMAIN payload \cap DOMAIN payload' /\ payload[p] = payload'[p]
           /\ \A n \in named : IF Kind(Current) # "xpath" THEN PayloadAt(payload', n) = Value.value
                                ELSE payload'[n] = AsText(Value.value)]_payloadVars

\* Nothing a selector failed to select is written, at any depth of the value.
FailingItem(source) ==
  /\ source.source = "selector" /\ source.type = "jsonpath"
  /\ source.context = "unresolved" \/ source.query \in {"malformed", "fails"} \/ source.version \notin {"none", "rfc9535"}
Failing(source) ==
  IF source.source = "list" THEN \E i \in DOMAIN source.items : FailingItem(source.items[i]) ELSE FailingItem(source)
NoFailedValueWritten ==
  [][Went /\ Failing(Current.value) => payload' = payload /\ Refused(Last(warnings'))]_payloadVars

\* A query that is the target is one place: with none or several, the same place
\* twice included, the body is left alone, and it is said so.
OnePlaceOrNone ==
  [][(Went /\ ~Current.target.empty /\ Kind(Current) = "jsonpath" /\ ~OnlyOne(Located(payload, Current.target.query)))
       => payload' = payload /\ Refused(Last(warnings'))]_payloadVars

\* A series of replacements, each applied wholly where its target leads or reported
\* and not at all; the one after a failure finds the body as the last success left it.
ReplacementsAreAtomic ==
  /\ []BodyTypeOK
  /\ FailureLeavesBody /\ OnlyTheTargetChanges /\ OnePlaceOrNone /\ NoFailedValueWritten
=================================================================================
