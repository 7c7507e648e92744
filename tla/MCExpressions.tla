---------------------------- MODULE MCExpressions ----------------------------
(***************************************************************************)
(* The expressions of a document, for TLC: patterns, simple conditions,    *)
(* criteria and payload replacements.  A behaviour is one of these at      *)
(* work, the others stay at a first state of theirs.                       *)
(***************************************************************************)
EXTENDS RegexCache, ConditionSyntax, ConditionValues, ConditionEvaluation,
        PayloadReplacement, Criteria

VARIABLE part      (* the component at work                                *)

vars == <<cacheVars, syntaxVars, compareVars, evaluationVars, payloadVars, criteriaVars, part>>

(***************************************************************************)
(* Values to compare: integers from -2 to 3; floats at, between and beyond *)
(* them, on both sides of zero; texts that spell a number, a word, and one *)
(* that spells an integer too large; arrays of up to two items, objects of *)
(* up to two fields, and arrays within arrays.                             *)
(***************************************************************************)
Numbers == {Integer(2 * i) : i \in -2..3} \cup {Float(t) : t \in {-6, -5, -4, -1, 0, 1, 6, 7, 8, 10}}
Texts == {CompareText(1, "float", -1), CompareText(2, "integer", 2), CompareText(3, "integer", 8), CompareText(4, "word", 0)}
Scalars == {Null, Bool(TRUE), Bool(FALSE)} \cup Numbers \cup Texts
Few == {Null, Integer(2), Integer(4), CompareText(2, "integer", 2), CompareText(4, "word", 0)}
Arrays == {Array(<<>>)} \cup {Array(<<x>>) : x \in Few} \cup {Array(<<x, y>>) : x, y \in Few}
Fields == {Integer(2), CompareText(2, "integer", 2), CompareText(4, "word", 0)}
Objects == {Object(f) : f \in UNION {[n -> Fields] : n \in SUBSET {"a", "b"}}}
Nested == {Array(<<Array(<<x>>), y>>) : x, y \in {Integer(2), Integer(4), CompareText(4, "word", 0)}}
MCIntMin == -2
MCValues == Scalars \cup Arrays \cup Objects \cup Nested

(***************************************************************************)
(* Conditions: up to two alternatives of up to two operands: literals,     *)
(* lookups that find something, nothing, or what is no Boolean, accesses,  *)
(* comparisons, negations, and groups of two that are negated.             *)
(***************************************************************************)
Leaf(name) == PostfixOf(LeafOf(name), <<>>)
Alone(postfix) == UnaryOf(ComparisonOf(postfix, "none", postfix))
Grouped(alternatives) == PostfixOf(GroupOf(EvaluationOrExpr(alternatives)), <<>>)

Leaves == {Alone(Leaf(n)) : n \in {"true", "false", "missing", "number"}}
Accessed == {PostfixOf(LeafOf("object"), <<"ok">>), PostfixOf(LeafOf("object"), <<"other", "first">>),
             PostfixOf(LeafOf("array"), <<"first", "ok">>), PostfixOf(LeafOf("absent"), <<"second">>)}
Comparisons == {UnaryOf(ComparisonOf(Leaf("number"), op, Leaf(r))) : op \in {"==", "<"}, r \in {"2", "missing", "text"}}
Groups == {Grouped(<<AndExpr(<<a, b>>)>>) : a, b \in Leaves}
          \cup {Grouped(<<AndExpr(<<a>>), AndExpr(<<b>>)>>) : a, b \in Leaves}
          \cup {Grouped(<<AndExpr(<<Alone(Leaf("number"))>>)>>)}
Operand == Leaves \cup {Alone(p) : p \in Accessed} \cup {UnaryNot(Leaf("missing"))}
OfGroups == {UnaryNot(g) : g \in Groups} \cup {Alone(g) : g \in Groups}

Conjunctions == {AndExpr(<<a>>) : a \in Operand \cup Comparisons}
                \cup {AndExpr(<<a, b>>) : a \in Operand, b \in Operand \cup Comparisons}
MCConditions ==
  {EvaluationOrExpr(<<a>>) : a \in Conjunctions} \cup {EvaluationOrExpr(<<a, b>>) : a, b \in Conjunctions}
  \cup {EvaluationOrExpr(<<AndExpr(<<g>>)>>) : g \in OfGroups}
  \cup {EvaluationOrExpr(<<AndExpr(<<a, g>>)>>) : a \in Operand, g \in OfGroups}
  \cup {EvaluationOrExpr(<<AndExpr(<<g>>), AndExpr(<<a>>)>>) : a \in Operand, g \in OfGroups}

(***************************************************************************)
(* Bodies: JSON objects with a list, a list of objects, and a member that  *)
(* has no name; an XML document of three nodes, and a text.                *)
(***************************************************************************)
Json == Scalar("object") @@ (<<"a">> :> "old") @@ (<<"items">> :> "array")
        @@ (<<"items", "0">> :> "old") @@ (<<"items", "1">> :> "old")
OneItem == Scalar("object") @@ (<<"items">> :> "array") @@ (<<"items", "0">> :> "object")
Xml == Scalar("xml") @@ (<<"x">> :> "old") @@ (<<"y">> :> "old") @@ (<<"comment">> :> "old")
Unnamed == Scalar("object") @@ (<<"">> :> "object") @@ (<<"", "b">> :> "old") @@ (<<"b">> :> "old")
MCBodies == {Json, OneItem, Unnamed, Xml, Scalar("text")}

(***************************************************************************)
(* Replacements: targets of every kind, that lead to what is there, to a   *)
(* new member, through nothing, to one place, none, several, and one place *)
(* twice; values that resolve, warn or fail, alone or in a list.           *)
(***************************************************************************)
Target(pointer, path, xpath) ==
  [empty |-> FALSE, pointer |-> pointer, query |-> path, xpath |-> xpath]
NotPointer(path, xpath) == Target(<<>>, path, xpath)
Empty == [NotPointer("malformed", "none") EXCEPT !.empty = TRUE]

Literal(v) == [source |-> "literal", value |-> v]
Selector(type, version, found, selected) ==
  [source |-> "selector", type |-> type, version |-> version, context |-> found, query |-> selected, selects |-> Scalar("chosen")]
List(items) == [source |-> "list", items |-> items]
New == Literal(Scalar("new"))

Sources ==
  {New, Literal(Scalar("object") @@ (<<"a">> :> "new")), Literal(Scalar("xml") @@ (<<"x">> :> "new")),
   Selector("jsonpath", "none", "resolved", "one"), Selector("jsonpath", "none", "resolved", "fails"),
   Selector("jsonpath", "none", "unresolved", "one"), Selector("xpath", "none", "resolved", "one"),
   List(<<Selector("jsonpath", "goessner", "resolved", "one"), New>>),
   List(<<New, Selector("jsonpath", "none", "resolved", "nothing")>>)}

Replacement(declared, version, target, value) ==
  [declared |-> declared, version |-> version, target |-> target, value |-> value]

Pointers == {Target(<<"a">>, "malformed", "x"), Target(<<"a", "b">>, "malformed", "x and y")}
            \cup {Target(pointer, "malformed", "none") : pointer \in
                    {<<"items", "01">>, <<"items", "-">>, <<"", "b">>, <<"new", "b">>, <<"items", "0", "b">>}}
Queries == {NotPointer(q, "none") : q \in {"$", "$.a", "$['a','a']", "$.items[*]", "malformed"}}
XPaths == {NotPointer("malformed", x) : x \in {"x and y", "x and a comment", "none"}}

MCReplacements ==
  {Replacement("none", "none", t, New) : t \in Pointers \cup {Empty}}
  \cup {Replacement("jsonpointer", "rfc6901", Target(<<"items", "1">>, "malformed", "none"), v) : v \in Sources}
  \cup {Replacement("jsonpath", "none", t, v) : t \in Queries, v \in {New, List(<<New, New>>)}}
  \cup {Replacement("xpath", "xpath-10", t, v) : t \in XPaths, v \in {New, List(<<New>>)}}
  \cup {Replacement("xpath", "xpath-31", NotPointer("malformed", "x and y"), New),
        Replacement("jsonpath", "goessner", NotPointer("$.a", "none"), New),
        Replacement("jsonpointer", "rfc9535", Target(<<"a">>, "malformed", "x"), New),
        Replacement("regex", "none", Target(<<"a">>, "malformed", "x"), New)}

(***************************************************************************)
(* Every version the validator knows of, one it does not, and none.        *)
(***************************************************************************)
MCVersions == {"", "blank", "rfc9535", "draft-goessner-dispatch-jsonpath-00", "rfc6901", "xpath-10", "xpath-31", "unknown"}

(***************************************************************************)
(* One component at work                                                   *)
(***************************************************************************)
IdleCompare == left = Null /\ right = Null /\ pending = <<>> /\ outcome = "equal"
IdleEvaluation == /\ condition = EvaluationOrExpr(<<AndExpr(<<Alone(Leaf("true"))>>)>>) /\ syntax = condition
                  /\ evaluationPhase = "parsed" /\ evaluation = None
IdlePayload == /\ payload = Json /\ contentType = "json" /\ warnings = <<>> /\ done = <<>>
               /\ rest = <<Replacement("none", "none", Empty, New)>>
IdleCriterion ==
  /\ it = [site |-> "criterion", type |-> [form |-> "none", name |-> "simple", version |-> ""], condition |-> "valid",
           substitutes |-> "valid", context |-> "blank", response |-> "none", answer |-> "holds"]
  /\ diagnostics = {} /\ criteriaPhase = "validated" /\ prepared = "none" /\ query = "none" /\ context = "null"
  /\ error = "none" /\ warned = FALSE /\ matched = FALSE

ExpressionsInit ==
  /\ CacheInit /\ SyntaxInit
  /\ \/ part \in {"cache", "syntax"} /\ IdleCompare /\ IdleEvaluation /\ IdlePayload /\ IdleCriterion
     \/ part = "compare" /\ CompareInit /\ IdleEvaluation /\ IdlePayload /\ IdleCriterion
     \/ part = "evaluation" /\ EvaluationInit /\ IdleCompare /\ IdlePayload /\ IdleCriterion
     \/ part = "payload" /\ PayloadInit /\ IdleCompare /\ IdleEvaluation /\ IdleCriterion
     \/ part = "criteria" /\ CriteriaInit /\ IdleCompare /\ IdleEvaluation /\ IdlePayload

ExpressionsNext ==
  \/ /\ part = "cache" /\ CacheNext
     /\ UNCHANGED <<syntaxVars, compareVars, evaluationVars, payloadVars, criteriaVars, part>>
  \/ /\ part = "syntax" /\ SyntaxNext
     /\ UNCHANGED <<cacheVars, compareVars, evaluationVars, payloadVars, criteriaVars, part>>
  \/ /\ part = "compare" /\ CompareNext
     /\ UNCHANGED <<cacheVars, syntaxVars, evaluationVars, payloadVars, criteriaVars, part>>
  \/ /\ part = "evaluation" /\ EvaluationNext
     /\ UNCHANGED <<cacheVars, syntaxVars, compareVars, payloadVars, criteriaVars, part>>
  \/ /\ part = "payload" /\ PayloadNext
     /\ UNCHANGED <<cacheVars, syntaxVars, compareVars, evaluationVars, criteriaVars, part>>
  \/ /\ part = "criteria" /\ CriteriaNext
     /\ UNCHANGED <<cacheVars, syntaxVars, compareVars, evaluationVars, payloadVars, part>>

ExpressionsSpec == ExpressionsInit /\ [][ExpressionsNext]_vars

\* A condition, from its text to its decision: it is refused exactly when it nests
\* too deep, its operands compare as the values they are, and it decides what the
\* grammar says its text means (parse_simple_condition, structural_equal, Evaluator).
ConditionsDecideRight == NestingIsLimited /\ ComparisonIsExact /\ DecidesWhatIsWritten
=============================================================================
