---------------------------- MODULE ComponentResolution ----------------------------
(***************************************************************************)
(* Reusable parameters and actions: references are replaced by the         *)
(* components they name before a document is validated, so that the typed  *)
(* document, the text it was read from and the record of what came from    *)
(* where have to share out the errors between a component and its uses.    *)
(***************************************************************************)
EXTENDS EffectiveParameters, SequencesExt

CONSTANTS
  ComponentsDocuments,      (* [parameters, actions, uses, steps, old]                 *)
  ComponentsNoName          (* the name of a parameter that has none                   *)

\* What is written.  A parameter is [reference, name, in, value]; an action is [reference,
\* value, name, type, retryAfter, retryLimit, workflowId, stepId, criteria, typo, parameters],
\* and a component action has a kind.  A use is an entry of a list of a workflow or a step:
\* [id, form, kind, entry].  A reference is absent, empty, not a text, unparsable, of a
\* foreign form, or the name of a component, which may be missing.
ComponentsKinds == {"success", "failure"}
Unnamed == {"absent", "empty", "not text", "unparsable", "foreign"}
Texts == {"text", "broken"}    \* broken: with an expression that cannot be parsed

\* An action with nothing but defaults.
NoAction ==
  [reference |-> "empty", value |-> "absent", name |-> "null", type |-> "absent", retryAfter |-> "zero",
   retryLimit |-> "absent", workflowId |-> "empty", stepId |-> "empty", criteria |-> "fine", typo |-> FALSE,
   parameters |-> <<>>]

ComponentsList(list) ==
  /\ list \in Seq({list[i] : i \in DOMAIN list})
  /\ \A i \in DOMAIN list : DOMAIN list[i] = {"reference", "name", "in", "value"}

\* What the typed document cannot be read from is left out: a delay or a target that is null.
ComponentsAction(a) ==
  /\ a.type \in {"absent", "end", "goto", "retry"} /\ a.typo \in BOOLEAN
  /\ a.retryAfter \in {"absent", "zero", "positive", "negative"}
  /\ a.retryLimit \in {"absent", "null", "zero", "positive"}
  /\ a.workflowId \notin {"null", "zero"} /\ a.stepId \notin {"null", "zero"}
  /\ ComponentsList(a.parameters)

\* A component or a use is one place of the document.
ASSUME DocumentAssumption ==
  \A d \in ComponentsDocuments :
    /\ d.uses \in Seq({d.uses[i] : i \in DOMAIN d.uses}) /\ d.old \in BOOLEAN
    /\ \A i, j \in DOMAIN d.uses : d.uses[i].id = d.uses[j].id => i = j
    /\ \A i \in DOMAIN d.uses : d.uses[i].id \notin DOMAIN d.parameters \union DOMAIN d.actions
    /\ DOMAIN d.parameters \intersect DOMAIN d.actions = {}
    /\ IsFiniteSet(DOMAIN d.parameters) /\ IsFiniteSet(DOMAIN d.actions)
    /\ \A n \in DOMAIN d.parameters : DOMAIN d.parameters[n] = {"reference", "name", "in", "value"}
    /\ \A n \in DOMAIN d.actions :
         ComponentsAction(d.actions[n]) /\ DOMAIN d.actions[n] = DOMAIN NoAction \union {"kind"}
    /\ \A i \in DOMAIN d.uses :
         \/ d.uses[i].form = "action" /\ ComponentsAction(d.uses[i].entry) /\ DOMAIN d.uses[i].entry = DOMAIN NoAction
         \/ d.uses[i].form = "parameter" /\ DOMAIN d.uses[i].entry = {"reference", "name", "in", "value"}

VARIABLES
  componentsDoc, raw,  (* the document, and whether its text is at hand                         *)
  ready,               (* the component actions whose parameters are resolved                   *)
  next,                (* how many uses are resolved                                            *)
  resolved,            (* the entries after resolution, by owner                                *)
  origin,              (* by owner and position: none, or what came from a component            *)
  componentsReport,    (* the errors and warnings: [at, nested, field, kind]                    *)
  componentsPhase      (* resolve, typed, text, done; failed: a reference could not be followed *)

componentsVars == <<componentsDoc, raw, ready, next, resolved, origin, componentsReport, componentsPhase>>

Diagnostic(at, nested, field, kind) == [at |-> at, nested |-> nested, field |-> field, kind |-> kind]
When(condition, diagnostic) == IF condition THEN <<diagnostic>> ELSE <<>>
Own == "its own"
From(inherited) == IF inherited THEN "component" ELSE "component, own value"

(***************************************************************************)
(* The typed document                                                      *)
(***************************************************************************)
\* Defaults hide what was not written, and what was written as null or empty.
TypedReference(r) == IF r \in {"absent", "not text"} THEN "empty" ELSE r
TypedParameter(p) ==
  [p EXCEPT !.reference = TypedReference(@), !.value = IF @ = "absent" THEN "null" ELSE @]
TypedAction(a) ==
  [a EXCEPT !.reference = TypedReference(@), !.value = IF @ = "null" THEN "absent" ELSE @,
            !.retryAfter = IF @ = "absent" THEN "zero" ELSE @,
            !.retryLimit = IF @ = "null" THEN "absent" ELSE @,
            !.workflowId = IF @ = "absent" THEN "empty" ELSE @,
            !.stepId = IF @ = "absent" THEN "empty" ELSE @,
            !.parameters = [i \in DOMAIN @ |-> TypedParameter(@[i])]]

(***************************************************************************)
(* Resolution                                                              *)
(***************************************************************************)
\* A reference that cannot be parsed is kept for the report; an empty one only if it is
\* written.
Unparsable(reference) == reference = "unparsable" \/ (raw /\ reference = "empty")
RejectParameter(p) ==
  ~(p.name # ComponentsNoName /\ p.reference \in {"absent", "empty"}) /\ Unparsable(p.reference)

\* With the text, a null that is written is a value; without it, it is not.
Omitted(p) == IF raw THEN p.value = "absent" ELSE p.value \in {"absent", "null"}

\* A use keeps its own name and location, and its own value if it has one.
Merged(p, component) ==
  [reference |-> "empty", name |-> IF p.name = ComponentsNoName THEN component.name ELSE p.name,
   in |-> IF p.in = "absent" THEN component.in ELSE p.in,
   value |-> TypedParameter(IF Omitted(p) THEN component ELSE p).value]

ParameterResult(p, at, nested) ==
  IF RejectParameter(p)
  THEN [entry |-> TypedParameter(p), origin |-> Own, failed |-> FALSE,
        found |-> <<Diagnostic(at, nested, "reference", "InvalidExpression")>>]
  ELSE IF TypedReference(p.reference) = "empty"
  THEN [entry |-> TypedParameter(p), origin |-> Own, failed |-> FALSE, found |-> <<>>]
  ELSE IF p.reference \notin DOMAIN componentsDoc.parameters
  THEN [entry |-> TypedParameter(p), origin |-> Own, failed |-> TRUE, found |-> <<>>]
  ELSE [entry |-> Merged(p, componentsDoc.parameters[p.reference]), origin |-> From(Omitted(p)), failed |-> FALSE,
        found |-> When(~raw /\ p.value \notin {"absent", "null"} \union Texts,
                       Diagnostic(at, nested, "value", "InvalidReference"))]

ListResult(list, at) ==
  LET each == [i \in DOMAIN list |-> ParameterResult(list[i], at, i)] IN
  [entries |-> [i \in DOMAIN list |-> each[i].entry], origins |-> [i \in DOMAIN list |-> each[i].origin],
   failed |-> \E i \in DOMAIN list : each[i].failed,
   found |-> FlattenSeq([i \in DOMAIN list |-> each[i].found])]

ComponentAction(name, kind) == name \in DOMAIN componentsDoc.actions /\ componentsDoc.actions[name].kind = kind

\* An action is replaced as a whole: its parameters were resolved where it is defined.
ActionResult(a, kind, at) ==
  LET reference == IF raw THEN a.reference ELSE TypedReference(a.reference)
      own == ListResult(a.parameters, at) IN
  IF reference = "not text" \/ Unparsable(reference)
  THEN [entry |-> NoAction, origin |-> Own, nested |-> <<>>, failed |-> FALSE,
        found |-> When(reference # "not text", Diagnostic(at, 0, "reference", "InvalidExpression"))]
  ELSE IF reference \in {"absent", "empty"}
  THEN [entry |-> [TypedAction(a) EXCEPT !.parameters = own.entries], origin |-> Own,
        nested |-> own.origins, failed |-> own.failed, found |-> own.found]
  ELSE IF ~ComponentAction(reference, kind)
  THEN [entry |-> NoAction, origin |-> Own, nested |-> <<>>, failed |-> TRUE, found |-> <<>>]
  ELSE [entry |-> [resolved[reference] EXCEPT !.reference = "empty", !.value = "absent"], origin |-> "component",
        nested |-> <<>>, failed |-> FALSE,
        found |-> When(~raw /\ TypedAction(a).value \notin {"absent"} \union Texts,
                       Diagnostic(at, 0, "value", "InvalidReference"))]

ComponentsBind(f, key, value) == [k \in DOMAIN f \union {key} |-> IF k = key THEN value ELSE f[k]]

ComponentsInit ==
  /\ componentsDoc \in ComponentsDocuments /\ raw \in BOOLEAN
  /\ ready = {} /\ next = 0 /\ resolved = <<>> /\ origin = <<>> /\ componentsReport = <<>>
  /\ componentsPhase = "resolve"

\* Component actions are definitions, never references to others; only their parameters
\* are resolved.
ResolveComponent ==
  \E name \in DOMAIN componentsDoc.actions \ ready :
    LET list == ListResult(componentsDoc.actions[name].parameters, name) IN
    /\ componentsPhase = "resolve" /\ ready' = ready \union {name}
    /\ resolved' = ComponentsBind(resolved, name, [TypedAction([f \in DOMAIN NoAction |-> componentsDoc.actions[name][f]])
                                            EXCEPT !.parameters = list.entries])
    /\ origin' = ComponentsBind(origin, name, [own |-> Own, nested |-> list.origins])
    /\ componentsReport' = componentsReport \o list.found
    /\ componentsPhase' = IF list.failed THEN "failed" ELSE componentsPhase
    /\ UNCHANGED <<componentsDoc, raw, next>>

\* The lists of the workflows and their steps, in the order of the document.
ResolveUse ==
  /\ componentsPhase = "resolve" /\ ready = DOMAIN componentsDoc.actions /\ next < Len(componentsDoc.uses)
  /\ LET use == componentsDoc.uses[next + 1]
         result == IF use.form = "action" THEN ActionResult(use.entry, use.kind, use.id)
                   ELSE ParameterResult(use.entry, use.id, 0) IN
     /\ next' = next + 1
     /\ resolved' = ComponentsBind(resolved, use.id, result.entry)
     /\ origin' = ComponentsBind(origin, use.id, [own |-> result.origin,
                                        nested |-> IF use.form = "action" THEN result.nested ELSE <<>>])
     /\ componentsReport' = componentsReport \o result.found
     /\ componentsPhase' = IF result.failed THEN "failed" ELSE componentsPhase
     /\ UNCHANGED <<componentsDoc, raw, ready>>

ComponentsResolved ==
  /\ componentsPhase = "resolve" /\ ready = DOMAIN componentsDoc.actions /\ next = Len(componentsDoc.uses)
  /\ componentsPhase' = "typed"
  /\ UNCHANGED <<componentsDoc, raw, ready, next, resolved, origin, componentsReport>>

(***************************************************************************)
(* The typed rules                                                         *)
(***************************************************************************)
ReferenceError(at, nested) ==
  \E i \in DOMAIN componentsReport : componentsReport[i] = Diagnostic(at, nested, "reference", "InvalidExpression")

ValueSource(p, at, nested) == When(p.value = "broken", Diagnostic(at, nested, "value", "InvalidExpression"))

\* An entry of a list may be a reference; a component is a definition.
ParameterRules(p, at, nested, entry) ==
  FlattenSeq(<<
    When(p.in = "querystring" /\ componentsDoc.old, Diagnostic(at, nested, "in", "UnsupportedVersion")),
    When(p.name = ComponentsNoName /\ (~entry \/ p.reference = "empty"), Diagnostic(at, nested, "name", "MissingRequiredField")),
    ValueSource(p, at, nested)>>)

\* What came from a component is checked there; a value of its own is checked at the use.
EntryRules(p, at, nested, from) ==
  IF ReferenceError(at, nested) THEN <<>>
  ELSE CASE from = Own -> ParameterRules(p, at, nested, TRUE)
         [] from = From(FALSE) -> ValueSource(p, at, nested)
         [] from = From(TRUE) -> <<>>

ActionParameterRules(a, at, origins) ==
  LET list == a.parameters
      repeated == {i \in DOMAIN list : list[i].name # ComponentsNoName /\ \E j \in 1..i - 1 : list[j].name = list[i].name}
  IN IF list = <<>> THEN <<>>
     ELSE FlattenSeq(<<
            When(componentsDoc.old, Diagnostic(at, 0, "parameters", "UnsupportedVersion")),
            When(a.workflowId = "empty", Diagnostic(at, 0, "parameters", "InvalidParameterLocation")),
            FlattenSeq([i \in DOMAIN list |-> FlattenSeq(<<
              When(list[i].in # "absent", Diagnostic(at, i, "in", "InvalidParameterLocation")),
              When(i \in repeated, Diagnostic(at, i, "name", "DuplicateIdentifier")),
              EntryRules(list[i], at, i, origins[i])>>)])>>)

Type(a) == IF a.type = "absent" THEN "end" ELSE a.type
Retries(kind, type) == kind = "failure" /\ type = "retry"
AllowsTarget(kind, type) == type = "goto" \/ Retries(kind, type)

\* The fields that fit the action's type; those whose default hides them are left to the
\* text where it is at hand.
FixedFields(a, kind, at) ==
  LET retries == Retries(kind, Type(a)) targets == AllowsTarget(kind, Type(a)) IN
  FlattenSeq(<<
    When(a.retryAfter = "negative", Diagnostic(at, 0, "retryAfter", "InvalidRetryField")),
    When(a.type = "absent" /\ ~raw, Diagnostic(at, 0, "type", "MissingRequiredField")),
    When(kind = "success" /\ Type(a) = "retry", Diagnostic(at, 0, "type", "InvalidRetryField")),
    When(~retries /\ a.retryLimit # "absent" /\ ~(raw /\ a.retryLimit = "zero"),
         Diagnostic(at, 0, "retryLimit", "InvalidRetryField")),
    When(~retries /\ a.retryAfter = "positive", Diagnostic(at, 0, "retryAfter", "InvalidRetryField")),
    When(~targets /\ a.workflowId # "empty", Diagnostic(at, 0, "workflowId", "InvalidReference")),
    When(~targets /\ a.stepId # "empty", Diagnostic(at, 0, "stepId", "InvalidReference")),
    When(Type(a) = "goto" /\ a.workflowId = "empty" /\ a.stepId = "empty", Diagnostic(at, 0, "target", "MissingRequiredField")),
    When(targets /\ a.workflowId # "empty" /\ a.stepId # "empty", Diagnostic(at, 0, "target", "InvalidReference"))>>)

\* A component may name a step of any workflow that uses it, so its target is looked up
\* at the use.
TargetReferences(a, kind, at) ==
  FlattenSeq(<<
    When(AllowsTarget(kind, Type(a)) /\ a.stepId \notin componentsDoc.steps \union {"empty", "expression"},
         Diagnostic(at, 0, "stepId", "InvalidReference")),
    When(AllowsTarget(kind, Type(a)) /\ a.workflowId \notin componentsDoc.workflows \union {"empty", "expression"},
         Diagnostic(at, 0, "workflowId", "InvalidReference"))>>)

CriteriaRules(a, at) == When(a.criteria = "broken", Diagnostic(at, 0, "criteria", "InvalidExpression"))
Typo(a, at) == When(a.typo, Diagnostic(at, 0, "typo", "UnknownField"))

ComponentRules(name) ==
  LET a == resolved[name] kind == componentsDoc.actions[name].kind IN
  FlattenSeq(<<
    CriteriaRules(a, name), Typo(a, name),
    When(a.reference # "empty", Diagnostic(name, 0, "reference", "UnknownField")),
    When(a.value # "absent", Diagnostic(name, 0, "value", "UnknownField")),
    FixedFields(a, kind, name), ActionParameterRules(a, name, origin[name].nested)>>)

ActionRules(use) ==
  LET a == resolved[use.id] at == use.id own == origin[use.id].own = Own IN
  IF ReferenceError(at, 0) THEN <<>>
  ELSE FlattenSeq(<<
         Typo(a, at),
         When(a.reference = "empty" /\ a.value # "absent", Diagnostic(at, 0, "value", "UnknownField")),
         IF own THEN ActionParameterRules(a, at, origin[at].nested) ELSE <<>>,
         IF own THEN FixedFields(a, use.kind, at) ELSE <<>>,
         TargetReferences(a, use.kind, at),
         IF own THEN CriteriaRules(a, at) ELSE <<>> >>)

ParameterNames == SetToSeq(DOMAIN componentsDoc.parameters)
ActionNames == SetToSeq(DOMAIN componentsDoc.actions)

TypedParameterReport(name) == ParameterRules(TypedParameter(componentsDoc.parameters[name]), name, 0, FALSE)
TypedUseReport(use) ==
  IF use.form = "action" THEN ActionRules(use) ELSE EntryRules(resolved[use.id], use.id, 0, origin[use.id].own)
TypedReport ==
  FlattenSeq(<<FlattenSeq([i \in DOMAIN ParameterNames |-> TypedParameterReport(ParameterNames[i])]),
               FlattenSeq([i \in DOMAIN ActionNames |-> ComponentRules(ActionNames[i])]),
               FlattenSeq([i \in DOMAIN componentsDoc.uses |-> TypedUseReport(componentsDoc.uses[i])])>>)

ValidateTyped ==
  /\ componentsPhase = "typed"
  /\ componentsReport' = componentsReport \o TypedReport
  /\ componentsPhase' = IF raw THEN "text" ELSE "done"
  /\ UNCHANGED <<componentsDoc, raw, ready, next, resolved, origin>>

(***************************************************************************)
(* The rules of the text                                                   *)
(***************************************************************************)
\* A reference may have a text for a value; a definition must have a value.
TextParameter(p, at, nested) ==
  IF p.reference # "absent"
  THEN When(p.value \notin {"absent"} \union Texts, Diagnostic(at, nested, "value", "InvalidReference"))
  ELSE When(p.value = "absent", Diagnostic(at, nested, "value", "MissingRequiredField"))

TextParameters(list, at) == FlattenSeq([i \in DOMAIN list |-> TextParameter(list[i], at, i)])

\* What the typed document takes for a default.
Defaulted(value) == value \in {"null", "empty", "zero"}

TextFields(a, kind, at) ==
  LET misfit(field) == IF Retries(kind, a.type) THEN a[field] = "null" ELSE Defaulted(a[field])
      pointless(field) == ~AllowsTarget(kind, a.type) /\ Defaulted(a[field]) IN
  FlattenSeq(<<
    When(misfit("retryAfter"), Diagnostic(at, 0, "retryAfter", "InvalidRetryField")),
    When(misfit("retryLimit"), Diagnostic(at, 0, "retryLimit", "InvalidRetryField")),
    When(pointless("workflowId"), Diagnostic(at, 0, "workflowId", "InvalidReference")),
    When(pointless("stepId"), Diagnostic(at, 0, "stepId", "InvalidReference"))>>)

\* What an action must have.
TextDefinition(a, kind, at) ==
  FlattenSeq(<<
    When(a.name # "text", Diagnostic(at, 0, "name", "MissingRequiredField")),
    When(a.type = "absent", Diagnostic(at, 0, "type", "MissingRequiredField")),
    IF a.type = "absent" THEN <<>> ELSE TextFields(a, kind, at),
    TextParameters(a.parameters, at)>>)

\* A reference in a list makes the other fields meaningless; among the components it is
\* itself unknown.
TextAction(a, kind, at, component) ==
  FlattenSeq(<<
    IF ~component /\ a.reference # "absent" THEN <<>> ELSE TextDefinition(a, kind, at),
    When(component /\ a.reference \in {"not text", "empty"}, Diagnostic(at, 0, "reference", "UnknownField")),
    When((component \/ a.reference = "absent") /\ a.value = "null", Diagnostic(at, 0, "value", "UnknownField")),
    When(~component /\ a.reference = "not text", Diagnostic(at, 0, "entry", "InvalidReference")),
    When(/\ ~component /\ a.reference \notin {"absent", "not text", "empty", "unparsable"}
         /\ a.value \notin {"absent"} \union Texts, Diagnostic(at, 0, "value", "InvalidReference"))>>)

TextParameterReport(name) ==
  When(componentsDoc.parameters[name].value = "absent", Diagnostic(name, 0, "value", "MissingRequiredField"))
TextComponentReport(name) == TextAction(componentsDoc.actions[name], componentsDoc.actions[name].kind, name, TRUE)
TextUseReport(use) ==
  IF use.form = "action" THEN TextAction(use.entry, use.kind, use.id, FALSE) ELSE TextParameter(use.entry, use.id, 0)
TextReport ==
  FlattenSeq(<<FlattenSeq([i \in DOMAIN ParameterNames |-> TextParameterReport(ParameterNames[i])]),
               FlattenSeq([i \in DOMAIN ActionNames |-> TextComponentReport(ActionNames[i])]),
               FlattenSeq([i \in DOMAIN componentsDoc.uses |-> TextUseReport(componentsDoc.uses[i])])>>)

ValidateText ==
  /\ componentsPhase = "text"
  /\ componentsReport' = componentsReport \o TextReport
  /\ componentsPhase' = "done"
  /\ UNCHANGED <<componentsDoc, raw, ready, next, resolved, origin>>

ComponentsNext == ResolveComponent \/ ResolveUse \/ ComponentsResolved \/ ValidateTyped \/ ValidateText

ComponentsSpec == ComponentsInit /\ [][ComponentsNext]_componentsVars

(***************************************************************************)
(* Properties                                                              *)
(***************************************************************************)
ComponentsResolutionTypeOK ==
  /\ ready \subseteq DOMAIN componentsDoc.actions /\ next \in 0..Len(componentsDoc.uses)
  /\ DOMAIN resolved = ready \union {componentsDoc.uses[i].id : i \in 1..next} /\ DOMAIN origin = DOMAIN resolved
  /\ componentsPhase = "failed" => \A i \in DOMAIN componentsReport : componentsReport[i].field \in {"reference", "value"}

Times(at, nested, field) ==
  Cardinality({i \in DOMAIN componentsReport : /\ componentsReport[i].at = at /\ componentsReport[i].nested = nested
                                     /\ componentsReport[i].field = field})

\* The actions a document defines: its components, and the entries without a reference.
Defined ==
  {[at |-> n, kind |-> componentsDoc.actions[n].kind, action |-> componentsDoc.actions[n], use |-> FALSE] : n \in DOMAIN componentsDoc.actions}
  \union {[at |-> u.id, kind |-> u.kind, action |-> u.entry, use |-> TRUE] :
            u \in {w \in {componentsDoc.uses[i] : i \in DOMAIN componentsDoc.uses} : w.form = "action" /\ w.entry.reference = "absent"}}

\* A field that does not fit the action, however it is written.
Misplaced(d, field) ==
  LET a == d.action IN
  IF field \in {"retryAfter", "retryLimit"}
  THEN IF Retries(d.kind, a.type) THEN a[field] \in {"null", "negative"} ELSE a[field] # "absent"
  ELSE IF AllowsTarget(d.kind, a.type)
       THEN d.use /\ a[field] \notin {"absent", "empty", "expression"}
                             \union (IF field = "stepId" THEN componentsDoc.steps ELSE componentsDoc.workflows)
       ELSE a[field] # "absent"

\* The typed rules and the rules of the text look at the same fields; together they report
\* each misplaced one, once, where the action is defined and nowhere else.
MisplacedFieldOnce ==
  componentsPhase = "done" /\ raw =>
    \A d \in Defined : d.action.type # "absent" =>
      \A field \in {"retryAfter", "retryLimit", "workflowId", "stepId"} :
        Times(d.at, 0, field) = (IF Misplaced(d, field) THEN 1 ELSE 0)

\* A missing type is reported once with the text and once without it.
MissingTypeOnce ==
  componentsPhase = "done" => \A d \in Defined : d.action.type = "absent" => Times(d.at, 0, "type") = 1

\* The entries that take something from a component.
Uses == {u \in {componentsDoc.uses[i] : i \in DOMAIN componentsDoc.uses} : u.id \in DOMAIN origin /\ origin[u.id].own # Own}

\* An error of a component is an error there: a use is only blamed for its own value, and
\* for a target its workflow does not have.
UseNotBlamed ==
  componentsPhase = "done" => \A u \in Uses : \A i \in DOMAIN componentsReport : componentsReport[i].at = u.id =>
    \/ componentsReport[i].field = "value" /\ u.entry.value \notin {"absent", "text"}
    \/ componentsReport[i].field \in {"stepId", "workflowId"} /\ u.form = "action"
    \/ componentsReport[i].field = "typo"

\* Every parameter definition has a value, wherever it stands, and its lack is reported once.
MissingValueOnce ==
  componentsPhase = "done" /\ raw =>
    /\ \A n \in DOMAIN componentsDoc.parameters : componentsDoc.parameters[n].value = "absent" => Times(n, 0, "value") = 1
    /\ \A d \in Defined : \A i \in DOMAIN d.action.parameters :
         d.action.parameters[i].reference = "absent" /\ d.action.parameters[i].value = "absent"
         => Times(d.at, i, "value") = 1

\* A value that is written at a use is the value, a null as well; otherwise the
\* component's is.
WrittenValueWins ==
  raw => \A u \in Uses : u.form = "parameter" =>
    resolved[u.id].value = TypedParameter(IF u.entry.value = "absent" THEN componentsDoc.parameters[u.entry.reference]
                                          ELSE u.entry).value

\* No reference is left in what an accepted document runs with.
NoReferenceLeft ==
  componentsPhase = "done" /\ componentsReport = <<>> =>
    \A i \in DOMAIN componentsDoc.uses : LET e == resolved[componentsDoc.uses[i].id] IN
      /\ e.reference = "empty"
      /\ componentsDoc.uses[i].form = "action" => \A j \in DOMAIN e.parameters : e.parameters[j].reference = "empty"

\* What is wrong is reported once, where it is defined, and what is accepted has no
\* reference left.
ComponentsAreClear ==
  /\ ComponentsResolutionTypeOK /\ MisplacedFieldOnce /\ MissingTypeOnce /\ UseNotBlamed
  /\ MissingValueOnce /\ WrittenValueWins /\ NoReferenceLeft

\* Where a document is accepted every parameter has one value and one place, and every
\* reference to a component has been replaced, with each error told once
\* (validate_effective_parameter_context, resolve_components).
DeclarationsAreClear == ParametersAreClear /\ ComponentsAreClear
=============================================================================
