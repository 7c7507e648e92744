----------------------------- MODULE ExampleValues -----------------------------
(***************************************************************************)
(* The values that stand for a schema in the bodies of generated requests: *)
(* from an OpenAPI document, whose schemas refer to each other, and from a *)
(* plain JSON schema; and what the description of the document says each   *)
(* schema is.                                                              *)
(***************************************************************************)
EXTENDS Integers, Sequences, FiniteSets, SequencesExt

CONSTANTS
  ExampleRequests,  (* a schema and the components it may refer to             *)
  NameOrder,        (* the names of properties, in the order of their text     *)
  NaturalLength     (* the length of the text a format or a field's name gives *)

VARIABLES
  exampleRequest,
  examplePhase,  (* typed, plain, describe, done                           *)
  typed, plain,  (* the two values                                         *)
  described      (* the type the description gives the schema              *)

exampleVars == <<exampleRequest, examplePhase, typed, plain, described>>

DepthLimit == 5
OptionalLimit == 5
ItemLimit == 5

Null == [is |-> "null"]
Number(type, v) == [is |-> type, v |-> v]
Text(length) == [is |-> "string", length |-> length]
Missing == [kind |-> "missing"]

ExampleInit == exampleRequest \in ExampleRequests /\ examplePhase = "typed" /\ typed = Null /\ plain = Null /\ described = "none"

Option(o, default) == IF o = <<>> THEN default ELSE o[1]
LowerOf(a, b) == IF a < b THEN a ELSE b

(***************************************************************************)
(* Values without parts                                                    *)
(***************************************************************************)
\* The bound below, or the bound above if 1 is beyond it, or 1.
NumberOf(s) ==
  CASE s.min # <<>> -> IF s.aboveMin THEN s.min[1] + 1 ELSE s.min[1]
    [] s.min = <<>> /\ s.max # <<>> /\ s.max[1] < 1 -> IF s.belowMax THEN s.max[1] - 1 ELSE s.max[1]
    [] OTHER -> 1

\* Padded to the least length, then cut to the greatest.
LengthOf(s) ==
  LET padded == IF s.min # <<>> /\ s.min[1] > NaturalLength[s.format] THEN s.min[1] ELSE NaturalLength[s.format]
  IN  IF s.max # <<>> THEN LowerOf(padded, s.max[1]) ELSE padded

Scalar(s) ==
  CASE s.kind \in {"integer", "number"} -> IF s.enum # <<>> THEN s.enum[1] ELSE Number(s.kind, NumberOf(s))
    [] s.kind = "string"  -> IF s.enum # <<>> THEN s.enum[1] ELSE Text(LengthOf(s))
    [] s.kind = "boolean" -> IF s.enum # <<>> THEN s.enum[1] ELSE [is |-> "boolean", v |-> TRUE]
    [] OTHER              -> Null

\* An array has one item, or as many as it must, up to the limit.
CountOf(s) == IF s.minItems # <<>> /\ s.minItems[1] > 1 THEN LowerOf(s.minItems[1], ItemLimit) ELSE 1

(***************************************************************************)
(* From an OpenAPI document                                                *)
(***************************************************************************)
RECURSIVE ExampleResolve(_, _)
ExampleResolve(s, visited) ==
  IF s.kind # "ref" THEN s
  ELSE IF s.name \in visited \/ s.name \notin DOMAIN exampleRequest.components THEN Missing
  ELSE ExampleResolve(exampleRequest.components[s.name], visited \cup {s.name})

\* The required properties that are declared, then some others in their order.
Chosen(s, order) ==
  LET optional == SelectSeq(order, LAMBDA n : n \notin s.required)
  IN  (s.required \cap DOMAIN s.properties)
        \cup {optional[i] : i \in 1..LowerOf(Len(optional), OptionalLimit)}

\* A schema without a type is an object if it has properties.
IsObject(s) == s.kind = "object" \/ (s.kind = "any" /\ s.order # <<>>)

RECURSIVE Example(_, _)
Example(schema, depth) ==
  LET s == ExampleResolve(schema, {})
  IN  CASE depth > DepthLimit -> Null
        [] depth <= DepthLimit /\ s = Missing -> Null
        [] depth <= DepthLimit /\ s # Missing /\ s.example # <<>> -> s.example[1]
        [] depth <= DepthLimit /\ s # Missing /\ s.example = <<>> /\ s.default # <<>> -> s.default[1]
        [] OTHER ->
           CASE s.kind = "array" ->
                  [is |-> "array", of |-> IF s.items = <<>> THEN <<>>
                     ELSE [i \in 1..CountOf(s) |-> Example(s.items[1], depth + 1)]]
             [] IsObject(s) ->
                  [is |-> "object", fields |-> [n \in Chosen(s, s.order) |-> Example(s.properties[n], depth + 1)]]
             [] OTHER -> Scalar(s)

Typed ==
  /\ examplePhase = "typed"
  /\ typed' = Example(exampleRequest.schema, 0)
  /\ examplePhase' = "plain"
  /\ UNCHANGED <<exampleRequest, plain, described>>

(***************************************************************************)
(* From a plain JSON schema                                                *)
(***************************************************************************)
\* The properties of a JSON object are read in the order of their text.
Alphabetical(s) == SelectSeq(NameOrder, LAMBDA n : n \in DOMAIN s.properties)

RECURSIVE PlainExample(_, _)
PlainExample(s, depth) ==
  CASE depth > DepthLimit -> Null
    [] depth <= DepthLimit /\ s.kind \in {"ref", "any", "composite"} /\ (s.kind = "ref" \/ (s.example = <<>> /\ s.default = <<>>)) -> Null
    [] depth <= DepthLimit /\ s.kind # "ref" /\ s.example # <<>> -> s.example[1]
    [] depth <= DepthLimit /\ s.kind # "ref" /\ s.example = <<>> /\ s.default # <<>> -> s.default[1]
    [] OTHER ->
       CASE s.kind = "array" ->
              [is |-> "array", of |-> IF s.items = <<>> THEN <<>>
                 ELSE [i \in 1..CountOf(s) |-> PlainExample(s.items[1], depth + 1)]]
         [] s.kind = "object" ->
              [is |-> "object", fields |-> [n \in Chosen(s, Alphabetical(s)) |-> PlainExample(s.properties[n], depth + 1)]]
         [] OTHER -> Scalar(s)

Plain ==
  /\ examplePhase = "plain"
  /\ plain' = PlainExample(exampleRequest.schema, 0)
  /\ examplePhase' = "describe"
  /\ UNCHANGED <<exampleRequest, typed, described>>

(***************************************************************************)
(* The description                                                         *)
(***************************************************************************)
Described(s) ==
  LET r == ExampleResolve(s, {})
  IN  CASE r = Missing -> "unresolved" [] r.kind = "any" -> "unknown" [] OTHER -> r.kind

Describe ==
  /\ examplePhase = "describe"
  /\ described' = Described(exampleRequest.schema)
  /\ examplePhase' = "done"
  /\ UNCHANGED <<exampleRequest, typed, plain>>

ExampleNext == Typed \/ Plain \/ Describe
ExampleSpec == ExampleInit /\ [][ExampleNext]_exampleVars

(***************************************************************************)
(* Properties                                                              *)
(***************************************************************************)
RECURSIVE Height(_)
Height(v) ==
  LET above(heights) == 1 + (IF heights = {} THEN 0 ELSE CHOOSE h \in heights : \A k \in heights : k <= h)
  IN  CASE v.is = "array"  -> above({Height(v.of[i]) : i \in DOMAIN v.of})
        [] v.is = "object" -> above({Height(v.fields[n]) : n \in DOMAIN v.fields})
        [] OTHER           -> 0

RECURSIVE Bounded(_)
Bounded(v) ==
  CASE v.is = "array"  -> Len(v.of) <= ItemLimit /\ \A i \in DOMAIN v.of : Bounded(v.of[i])
    [] v.is = "object" -> \A n \in DOMAIN v.fields : Bounded(v.fields[n])
    [] OTHER           -> TRUE

\* However the schemas refer to each other, themselves included, a value ends:
\* nothing is below six objects or arrays, and no array has more than five items
\* (generate_example, generate_from_json_schema).
ValueEnds == Height(typed) <= DepthLimit + 1 /\ Height(plain) <= DepthLimit + 1 /\ Bounded(typed) /\ Bounded(plain)

\* What of a schema the generator does not look at: it never reads these keywords,
\* steps 1 past an exclusive bound however little room there is, takes 1 under an
\* exclusive bound of 1, stops at the limits, leaves out required names that are not
\* declared, and sends null for a reference to nothing and for a composite.
Unheeded ==
  {"pattern", "multipleOf", "maxItems", "uniqueItems", "minProperties", "maxProperties", "no room", "below one",
   "deeper", "more items", "undeclared", "reference", "composite"}

Unkept(keywords) == {k \in DOMAIN keywords : ~keywords[k]}

\* The keywords of a number's schema and whether the value keeps them; nothing is kept of
\* bounds that no number is within.
NumberKeeps(v, s) ==
  LET both == s.min # <<>> /\ s.max # <<>>
      tight == both /\ s.max[1] <= (IF s.aboveMin THEN s.min[1] + 1 ELSE s.min[1])
      under == s.max = <<>> \/ (IF s.belowMax THEN v.v < s.max[1] ELSE v.v <= s.max[1])
      one == s.min = <<>> /\ s.max = <<1>> /\ s.belowMax
  IN  [type |-> v.is = s.kind,
       minimum |-> s.min = <<>> \/ (IF s.aboveMin THEN v.v > s.min[1] ELSE v.v >= s.min[1]),
       maximum |-> under \/ tight \/ one,
       multipleOf |-> s.multipleOf = <<>> \/ v.v % s.multipleOf[1] = 0]
        @@ [k \in {"no room"} |-> under \/ ~tight] @@ [k \in {"below one"} |-> under \/ ~one]

\* A text: a least length above the greatest is kept by none; a text that is made up
\* matches a pattern only by chance.
StringKeeps(v, s) ==
  [type |-> v.is = "string",
   minLength |-> s.min = <<>> \/ v.length >= s.min[1] \/ (s.max # <<>> /\ s.min[1] > s.max[1]),
   maxLength |-> s.max = <<>> \/ v.length <= s.max[1],
   pattern |-> ~s.pattern]

ArrayKeeps(v, s) ==
  [type |-> v.is = "array",
   minItems |-> s.items = <<>> \/ s.minItems = <<>> \/ Len(v.of) >= LowerOf(s.minItems[1], ItemLimit),
   maxItems |-> s.maxItems = <<>> \/ Len(v.of) <= s.maxItems[1],
   uniqueItems |-> s.uniqueItems => IsInjective(v.of)]
    @@ [k \in {"more items"} |-> s.minItems = <<>> \/ s.minItems[1] <= ItemLimit]

ObjectKeeps(v, s) ==
  [type |-> v.is = "object",
   required |-> s.required \cap DOMAIN s.properties \subseteq DOMAIN v.fields,
   undeclared |-> s.required \subseteq DOMAIN s.properties,
   additional |-> DOMAIN v.fields \subseteq DOMAIN s.properties,
   optional |-> Cardinality(DOMAIN v.fields \ s.required) <= OptionalLimit,
   minProperties |-> s.least = <<>> \/ Cardinality(DOMAIN v.fields) >= s.least[1],
   maxProperties |-> s.most = <<>> \/ Cardinality(DOMAIN v.fields) <= s.most[1]]

\* The keywords of a schema, and of the schemas of its parts, that a value breaks.  A
\* value that is given or enumerated is taken for fitting.
RECURSIVE Breaks(_, _, _)
Breaks(v, schema, depth) ==
  LET s == ExampleResolve(schema, {})
      given == IF s = Missing THEN <<>> ELSE s.example \o s.default
  IN  CASE depth > DepthLimit -> IF v = Null THEN {"deeper"} ELSE {"depth"}
        [] depth <= DepthLimit /\ s = Missing -> IF v = Null THEN {"reference"} ELSE {"type"}
        [] depth <= DepthLimit /\ given # <<>> -> IF v = given[1] THEN {} ELSE {"given"}
        [] OTHER ->
           CASE s.kind = "composite" -> IF v = Null THEN {"composite"} ELSE {"type"}
             [] s.kind \in {"integer", "number", "string", "boolean"} /\ s.enum # <<>> ->
                  IF v \in Range(s.enum) THEN {} ELSE {"enum"}
             [] s.kind = "boolean" /\ s.enum = <<>> -> IF v.is = "boolean" THEN {} ELSE {"type"}
             [] s.kind \in {"integer", "number"} /\ s.enum = <<>> -> Unkept(NumberKeeps(v, s))
             [] s.kind = "string" /\ s.enum = <<>> -> Unkept(StringKeeps(v, s))
             [] s.kind = "array" ->
                  Unkept(ArrayKeeps(v, s))
                    \cup UNION {IF s.items = <<>> THEN {"type"} ELSE Breaks(v.of[i], s.items[1], depth + 1) : i \in DOMAIN v.of}
             [] IsObject(s) ->
                  Unkept(ObjectKeeps(v, s))
                    \cup UNION {Breaks(v.fields[n], s.properties[n], depth + 1) : n \in DOMAIN v.fields \cap DOMAIN s.properties}
             [] OTHER -> IF v = Null THEN {} ELSE {"type"}

\* A value of an OpenAPI document fits its schema but for what the generator overlooks:
\* every property that is required and declared is in it however many there are, and
\* each part has the type, and keeps the bounds and lengths, that its schema asks for.
ValueFits == examplePhase \notin {"typed"} => Breaks(typed, exampleRequest.schema, 0) \subseteq Unheeded

RECURSIVE SelfContained(_)
SelfContained(s) ==
  /\ s.kind \notin {"ref", "any"}
  /\ s.kind = "array" => \A i \in DOMAIN s.items : SelfContained(s.items[i])
  /\ s.kind = "object" => /\ \A n \in DOMAIN s.properties : SelfContained(s.properties[n])
                          /\ Cardinality(DOMAIN s.properties \ s.required) <= OptionalLimit \/ s.order = Alphabetical(s)

\* A plain schema gives the value the same schema gives inside a document.
SameFromBoth == examplePhase = "done" /\ SelfContained(exampleRequest.schema) => plain = typed

\* The type the description gives is the type of the value that is sent, where
\* that was made up and not given.
DescribedAsSent ==
  examplePhase = "done" =>
    LET s == ExampleResolve(exampleRequest.schema, {})
    IN  IF s = Missing THEN described = "unresolved" /\ typed = Null
        ELSE /\ described # "unresolved"
             /\ described \notin {"composite", "unknown"} /\ s.example = <<>> /\ s.default = <<>> => typed.is = described

\* A generated body fits the schema that it is for, but for what the generator overlooks.
BodiesFit == ValueEnds /\ ValueFits /\ SameFromBoth /\ DescribedAsSent
=================================================================================
