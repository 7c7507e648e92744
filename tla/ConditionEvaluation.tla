-------------------------- MODULE ConditionEvaluation --------------------------
(***************************************************************************)
(* A simple condition from the grammar's rules to its decision: the rules  *)
(* become a tree in which only what was written is left, the tree is       *)
(* evaluated with lookups that may find nothing, and the decision fails    *)
(* closed.  How two values compare is another module's.                    *)
(***************************************************************************)
EXTENDS Integers, Sequences, FiniteSets, SequencesExt

CONSTANT Conditions    (* or_expr pairs of the grammar                       *)

(***************************************************************************)
(* Pairs of the grammar.  Operators are left out but for a comparison's,   *)
(* a leaf is a literal or a runtime expression.                            *)
(***************************************************************************)
EvaluationOrExpr(inner) == [rule |-> "or_expr", inner |-> inner]
AndExpr(inner) == [rule |-> "and_expr", inner |-> inner]
UnaryNot(postfix) == [rule |-> "unary", negated |-> TRUE, operand |-> postfix]
UnaryOf(comparison) == [rule |-> "unary", negated |-> FALSE, operand |-> comparison]
ComparisonOf(left, op, right) == [rule |-> "comparison", left |-> left, op |-> op, right |-> right]
PostfixOf(primary, accesses) == [rule |-> "postfix", primary |-> primary, accesses |-> accesses]
GroupOf(expr) == [rule |-> "group", of |-> expr]
LeafOf(name) == [rule |-> "leaf", name |-> name]

Lookups == {"missing", "absent", "object", "array", "number"}

VARIABLES
  condition,
  evaluationPhase,  (* "parsed", "mapped" or "decided"                     *)
  syntax,           (* the tree; the condition until it is mapped          *)
  evaluation        (* result, warnings and error                          *)

evaluationVars == <<condition, evaluationPhase, syntax, evaluation>>

None == [result |-> FALSE, warnings |-> <<>>, error |-> "none"]

EvaluationInit ==
  /\ condition \in Conditions /\ evaluationPhase = "parsed"
  /\ syntax = condition /\ evaluation = None

(***************************************************************************)
(* Rules with nothing of their own are left out of the tree                *)
(***************************************************************************)
RECURSIVE MapSyntax(_)

Chain(kind, children) == IF Len(children) = 1 THEN children[1] ELSE [kind |-> kind, children |-> children]

\* mutant: what is joined by && within || joins the alternatives
MapSyntaxFlat(pair) ==
  CASE pair.rule = "or_expr" ->
         Chain("or", FlattenSeq([i \in DOMAIN pair.inner |->
           [j \in DOMAIN pair.inner[i].inner |-> MapSyntax(pair.inner[i].inner[j])]]))
    [] pair.rule = "and_expr" -> Chain("and", [i \in DOMAIN pair.inner |-> MapSyntax(pair.inner[i])])
    [] pair.rule = "unary" /\ pair.negated -> [kind |-> "not", child |-> MapSyntax(pair.operand)]
    [] pair.rule = "unary" /\ ~pair.negated -> MapSyntax(pair.operand)
    [] pair.rule = "comparison" ->
         IF pair.op = "none" THEN MapSyntax(pair.left)
         ELSE [kind |-> "comparison", left |-> MapSyntax(pair.left), op |-> pair.op, right |-> MapSyntax(pair.right)]
    [] pair.rule = "postfix" ->
         IF pair.accesses = <<>> THEN MapSyntax(pair.primary)
         ELSE [kind |-> "postfix", primary |-> MapSyntax(pair.primary), accesses |-> pair.accesses]
    [] pair.rule = "group" -> [kind |-> "group", child |-> MapSyntax(pair.of)]
    [] pair.rule = "leaf" -> [kind |-> "leaf", name |-> pair.name]

MapSyntax(pair) ==
  CASE pair.rule = "or_expr" -> Chain("or", [i \in DOMAIN pair.inner |-> MapSyntax(pair.inner[i])])
    [] pair.rule = "and_expr" -> Chain("and", [i \in DOMAIN pair.inner |-> MapSyntax(pair.inner[i])])
    [] pair.rule = "unary" /\ pair.negated -> [kind |-> "not", child |-> MapSyntax(pair.operand)]
    [] pair.rule = "unary" /\ ~pair.negated -> MapSyntax(pair.operand)
    [] pair.rule = "comparison" ->
         IF pair.op = "none" THEN MapSyntax(pair.left)
         ELSE [kind |-> "comparison", left |-> MapSyntax(pair.left), op |-> pair.op, right |-> MapSyntax(pair.right)]
    [] pair.rule = "postfix" ->
         IF pair.accesses = <<>> THEN MapSyntax(pair.primary)
         ELSE [kind |-> "postfix", primary |-> MapSyntax(pair.primary), accesses |-> pair.accesses]
    [] pair.rule = "group" -> [kind |-> "group", child |-> MapSyntax(pair.of)]
    [] pair.rule = "leaf" -> [kind |-> "leaf", name |-> pair.name]

\* Whether a tree can only decide.
RECURSIVE IsConditionDecision(_)
IsConditionDecision(tree) ==
  \/ tree.kind \in {"or", "and", "not", "comparison"}
  \/ tree.kind = "group" /\ IsConditionDecision(tree.child)
  \/ tree.kind = "leaf" /\ tree.name \in {"true", "false"}

(***************************************************************************)
(* Evaluation                                                              *)
(***************************************************************************)
Is(value, warnings) == [value |-> value, warnings |-> warnings, error |-> "none"]
Fails(error, warnings) == [value |-> "missing", warnings |-> warnings, error |-> error]
Boolean(b) == IF b THEN "true" ELSE "false"

\* What a lookup finds, and warns of.
EvaluationResolve(name) ==
  CASE name \in {"missing", "absent"} -> Is("missing", <<name>>)
    [] name = "number" -> Is("1", <<>>)
    [] OTHER -> Is(name, <<>>)

Truth(e) ==
  CASE e.error # "none" -> e
    [] e.error = "none" /\ e.value \in {"missing", "null"} -> Is("false", e.warnings)
    [] e.error = "none" /\ e.value \in {"true", "false"} -> e
    [] OTHER -> Fails("boolean required", e.warnings)

\* An object has the field "ok", which is true, an array one item, which is 1.
Step(value, access) ==
  CASE value = "missing" -> Is("missing", <<>>)
    [] value = "object" /\ access = "ok" -> Is("true", <<>>)
    [] value = "object" /\ access = "other" -> Is("missing", <<>>)
    [] value = "array" /\ access = "first" -> Is("1", <<>>)
    [] value = "array" /\ access = "second" -> Is("missing", <<>>)
    [] OTHER -> Fails(IF access \in {"ok", "other"} THEN "object required" ELSE "array required", <<>>)

Access(e, access) ==
  IF e.error # "none" THEN e
  ELSE LET next == Step(e.value, access) IN [next EXCEPT !.warnings = e.warnings]

Public(value) == IF value = "missing" THEN "null" ELSE value

\* How the few values of this module compare.
Compared(l, op, r) ==
  CASE op = "==" -> Is(Boolean(l = r), <<>>)
    [] op = "<" /\ (l = "null") # (r = "null") -> Is("false", <<>>)
    [] op = "<" /\ l \in {"1", "2"} /\ r \in {"1", "2"} -> Is(Boolean(l = "1" /\ r = "2"), <<>>)
    [] OTHER -> Fails("cannot compare", <<>>)

RECURSIVE Node(_), EvaluationOperands(_, _, _)

\* The operands of a chain until one of them decides it.
EvaluationOperands(until, children, warnings) ==
  IF children = <<>> THEN Is(IF until = "true" THEN "false" ELSE "true", warnings)
  ELSE LET e == Truth(Node(Head(children)))
           now == [e EXCEPT !.warnings = warnings \o @]
       IN  IF e.error # "none" \/ e.value = until THEN now
           ELSE EvaluationOperands(until, Tail(children), now.warnings)

Negated(e) ==
  LET t == Truth(e) IN IF t.error # "none" THEN t ELSE [t EXCEPT !.value = Boolean(t.value = "false")]

Node(tree) ==
  CASE tree.kind = "or" -> EvaluationOperands("true", tree.children, <<>>)
    [] tree.kind = "and" -> EvaluationOperands("false", tree.children, <<>>)
    [] tree.kind = "not" -> Negated(Node(tree.child))
    [] tree.kind = "group" -> Node(tree.child)
    [] tree.kind = "comparison" ->
         LET l == Node(tree.left)
             r == Node(tree.right)
             both == l.warnings \o r.warnings
         IN  CASE l.error # "none" -> l
               [] l.error = "none" /\ r.error # "none" -> [r EXCEPT !.warnings = both]
               [] OTHER -> [Compared(Public(l.value), tree.op, Public(r.value)) EXCEPT !.warnings = both]
    [] tree.kind = "postfix" -> FoldLeft(Access, Node(tree.primary), tree.accesses)
    [] tree.kind = "leaf" -> IF tree.name \in Lookups THEN EvaluationResolve(tree.name) ELSE Is(tree.name, <<>>)

Map ==
  /\ evaluationPhase = "parsed" /\ evaluationPhase' = "mapped"
  /\ syntax' = MapSyntax(condition)
  /\ UNCHANGED <<condition, evaluation>>

Evaluate ==
  /\ evaluationPhase = "mapped" /\ evaluationPhase' = "decided"
  /\ LET e == Truth(Node(syntax))
     IN  evaluation' = [result |-> e.error = "none" /\ e.value = "true", warnings |-> e.warnings, error |-> e.error]
  /\ UNCHANGED <<condition, syntax>>

EvaluationNext == Map \/ Evaluate
EvaluationSpec == EvaluationInit /\ [][EvaluationNext]_evaluationVars

(***************************************************************************)
(* Properties                                                              *)
(***************************************************************************)
EvaluationDecided == evaluationPhase = "decided"

\* A condition that cannot be evaluated does not hold.
EvaluationTypeOK ==
  /\ evaluationPhase \in {"parsed", "mapped", "decided"}
  /\ evaluation.result \in BOOLEAN /\ evaluation.warnings \in Seq(Lookups)
  /\ evaluation.error # "none" => ~evaluation.result

\* What the grammar's own rules mean: the operand of a chain that decides it is
\* the first that fails or has the deciding value, && within ||, ! before both.
RECURSIVE Means(_)
MeansChain(inner, until, otherwise) ==
  LET each == [i \in DOMAIN inner |-> Truth(Means(inner[i]))]
      deciding == {i \in DOMAIN each : each[i].error # "none" \/ each[i].value = until}
      last == IF deciding = {} THEN Len(inner) ELSE CHOOSE i \in deciding : \A j \in deciding : i <= j
      warned == FlattenSeq([i \in 1..last |-> each[i].warnings])
  IN  IF deciding = {} THEN Is(otherwise, warned) ELSE [each[last] EXCEPT !.warnings = warned]
Means(pair) ==
  CASE pair.rule = "or_expr" -> IF Len(pair.inner) = 1 THEN Means(pair.inner[1])
                                ELSE MeansChain(pair.inner, "true", "false")
    [] pair.rule = "and_expr" -> IF Len(pair.inner) = 1 THEN Means(pair.inner[1])
                                 ELSE MeansChain(pair.inner, "false", "true")
    [] pair.rule = "unary" /\ pair.negated ->
         LET t == Truth(Means(pair.operand))
         IN  IF t.error = "none" THEN Is(Boolean(t.value = "false"), t.warnings) ELSE t
    [] pair.rule = "unary" /\ ~pair.negated -> Means(pair.operand)
    [] pair.rule = "group" -> Means(pair.of)
    [] OTHER -> Node(MapSyntax(pair))

\* The tree means what was written: && binds its operands before ||, a group
\* keeps what is in it together, and the same error is met (map_syntax, node).
PrecedenceKept ==
  EvaluationDecided => LET m == Truth(Means(condition))
             IN  evaluation.error = m.error /\ (evaluation.result <=> (m.error = "none" /\ m.value = "true"))

\* An operand that is not reached is not looked up: nothing is warned of but the
\* lookups on the way to the decision, in the order they are written, and these
\* also when the condition fails.
WarnsOfWhatItReached == EvaluationDecided => evaluation.warnings = Truth(Means(condition)).warnings

\* What is taken for a decision decides: it is true or false, or fails for a
\* reason of its own, and never because it is no Boolean (is_condition_decision).
DecisionsDecide ==
  (EvaluationDecided /\ IsConditionDecision(syntax)) =>
     LET e == Node(syntax) IN e.error = "none" => e.value \in {"true", "false"}

Deny(child) == [kind |-> "not", child |-> [kind |-> "group", child |-> child]]
\* An alternative that does not hold is one none of whose parts holds, with the
\* same failures and the same lookups; and so for &&.
DeMorgan ==
  (EvaluationDecided /\ syntax.kind \in {"or", "and"}) =>
     LET other == [kind |-> IF syntax.kind = "or" THEN "and" ELSE "or",
                   children |-> [i \in DOMAIN syntax.children |-> Deny(syntax.children[i])]]
     IN  Node(Deny(syntax)) = Node(other)

\* A condition decides what its text means, fails closed, and warns of exactly the
\* lookups on the way to the decision (map_syntax, Evaluator::node).
DecidesWhatIsWritten ==
  EvaluationTypeOK /\ PrecedenceKept /\ WarnsOfWhatItReached /\ DecisionsDecide /\ DeMorgan
=================================================================================
