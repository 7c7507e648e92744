---------------------------- MODULE EffectiveParameters ----------------------------
(***************************************************************************)
(* Which parameters reach a step's target, and how a document is checked   *)
(* against them: workflow parameters are inherited by every step that does *)
(* not override them, while identity, location and querystring rules are   *)
(* checked list by list and step by step.                                  *)
(***************************************************************************)
EXTENDS Integers, Sequences, FiniteSets

CONSTANTS
  Workflows,        (* sets of [parameters, steps]; a step is [target, action, parameters] *)
  ParametersNoName, (* the name of a parameter that has none                               *)
  CookieHeader,     (* the name of the header that carries the cookies                     *)
  BodyHeader,       (* the name of the header that says what a body is                     *)
  Replaces          (* pairs of header names equal but for case, the later byte for byte   *)
                    (* first: it takes the place of the other                              *)

\* A parameter is [name, in, broken]: broken says that its reference could not be parsed.
\* A target is absent, an operation, a workflow or a channel; an action is absent or present.
ParametersTargets == {"absent", "operation", "workflow", "channel"}

ParametersLocations == {"absent", "path", "query", "querystring", "header", "cookie"}

\* A list is a finite sequence of whatever is in it.
ParametersList(list) ==
  /\ list \in Seq({list[i] : i \in DOMAIN list})
  /\ \A i \in DOMAIN list : list[i].in \in ParametersLocations /\ list[i].broken \in BOOLEAN

ASSUME WorkflowAssumption ==
  \A w \in Workflows :
    /\ ParametersList(w.parameters)
    /\ w.steps \in Seq({w.steps[n] : n \in DOMAIN w.steps})
    /\ \A n \in DOMAIN w.steps :
         /\ w.steps[n].target \in ParametersTargets /\ w.steps[n].action \in BOOLEAN
         /\ ParametersList(w.steps[n].parameters)

VARIABLES
  workflow,         (* the document's workflow; it never changes                    *)
  checked,          (* how many of its steps are checked; -1: not even its own list *)
  parametersSeen,   (* the declarations reported, each with the rule it breaks      *)
  parametersReport  (* the errors: [at, rule], in the order found                   *)

parametersVars == <<workflow, checked, parametersSeen, parametersReport>>

InWorkflow(i) == [step |-> 0, index |-> i]
InStep(s, i) == [step |-> s, index |-> i]
ParametersStep(s) == workflow.steps[s]

(***************************************************************************)
(* Inheritance                                                             *)
(***************************************************************************)
ParametersIdentity(p) == <<p.name, p.in>>

Overridden(i, s) ==
  \E j \in DOMAIN ParametersStep(s).parameters : ParametersIdentity(ParametersStep(s).parameters[j]) = ParametersIdentity(workflow.parameters[i])

\* The workflow's parameters that the step does not override, and the step's own; duplicates
\* of either list stay visible.
Effective(s) ==
  {[parameter |-> workflow.parameters[i], declared |-> InWorkflow(i)] :
     i \in {k \in DOMAIN workflow.parameters : ~Overridden(k, s)}}
  \union {[parameter |-> ParametersStep(s).parameters[j], declared |-> InStep(s, j)] : j \in DOMAIN ParametersStep(s).parameters}

(***************************************************************************)
(* Rules                                                                   *)
(***************************************************************************)
\* The entries of a list that repeat an earlier one: by name and location for operations,
\* by name for what becomes the inputs of a workflow.
Duplicates(list, mode) ==
  {i \in DOMAIN list :
     /\ list[i].name # ParametersNoName
     /\ \E j \in 1..i - 1 : IF mode = "name" THEN list[j].name = list[i].name
                            ELSE ParametersIdentity(list[j]) = ParametersIdentity(list[i])}

\* What the target asks of each parameter that reaches it.
Context(s) ==
  LET reaching == {e \in Effective(s) : ~e.parameter.broken} IN
  CASE ParametersStep(s).target = "operation" /\ ParametersStep(s).action -> {<<e.declared, "AsyncOperation">> : e \in reaching}
    [] ParametersStep(s).target = "operation" /\ ~ParametersStep(s).action ->
         {<<e.declared, "OperationRequiresIn">> : e \in {r \in reaching : r.parameter.in = "absent"}}
    [] ParametersStep(s).target = "channel" -> {<<e.declared, "ChannelPath">> : e \in reaching}
    [] OTHER -> {}

Located(s, location) == {e \in Effective(s) : e.parameter.in = location}

\* mutant: only the step's own list is searched
QuerystringOwn(s) ==
  LET whole == {p \in {ParametersStep(s).parameters[i] : i \in DOMAIN ParametersStep(s).parameters} : p.in = "querystring"}
      query == {p \in {ParametersStep(s).parameters[i] : i \in DOMAIN ParametersStep(s).parameters} : p.in = "query"} IN
  IF ParametersStep(s).target = "operation" /\ ~ParametersStep(s).action /\ whole # {}
  THEN (IF Cardinality({p.name : p \in whole}) > 1 THEN {"ManyQuerystrings"} ELSE {})
       \union (IF query # {} THEN {"QuerystringBesideQuery"} ELSE {})
  ELSE {}

\* An HTTP operation has one querystring, and then no query parameter.
Querystring(s) ==
  LET whole == Located(s, "querystring") IN
  IF ParametersStep(s).target = "operation" /\ ~ParametersStep(s).action /\ whole # {}
  THEN (IF Cardinality({e.parameter.name : e \in whole}) > 1 THEN {"ManyQuerystrings"} ELSE {})
       \union (IF Located(s, "query") # {} THEN {"QuerystringBesideQuery"} ELSE {})
  ELSE {}

(***************************************************************************)
(* The request that the engine builds.  Of the value that a parameter is   *)
(* resolved to the model keeps whether it is null, a text, a text that     *)
(* would change the URL around it (a raw # in a query, dots for a whole    *)
(* path segment), an array with nothing in it, or another structure.       *)
(***************************************************************************)
ValueKinds == {"null", "text", "unsafe", "empty", "structure"}

\* What the step inherits of the first n of the workflow's parameters.
InheritedOf(s) ==
  LET inherited[n \in 0..Len(workflow.parameters)] ==
        IF n = 0 THEN <<>>
        ELSE IF Overridden(n, s) THEN inherited[n - 1]
        ELSE Append(inherited[n - 1], [parameter |-> workflow.parameters[n], declared |-> InWorkflow(n)]) IN inherited

OwnOf(s) == [j \in DOMAIN ParametersStep(s).parameters |->
               [parameter |-> ParametersStep(s).parameters[j], declared |-> InStep(s, j)]]

\* What is inherited goes before the step's own.
MergedParameters(s) ==
  (IF ParametersStep(s).target = "workflow" THEN <<>> ELSE InheritedOf(s)[Len(workflow.parameters)]) \o OwnOf(s)

Placed(list, location) == {i \in DOMAIN list : list[i].parameter.in = location}

\* The entries that a map by name keeps.
LastOfName(list, indices) ==
  {i \in indices : \A j \in indices : j > i => list[j].parameter.name # list[i].parameter.name}

\* A querystring is the query, and the last one counts.
Whole(list, values) ==
  LET texts == {i \in Placed(list, "querystring") : values[i] \in {"text", "unsafe"}} IN
  {i \in texts : \A j \in texts : j <= i}

UrlRefused(list, values, queried) ==
  \/ \E i \in Placed(list, "querystring") : values[i] \in {"empty", "structure"}
  \/ Whole(list, values) # {} /\ (queried \/ \E i \in Whole(list, values) : values[i] = "unsafe")
  \/ \E i \in LastOfName(list, Placed(list, "path")) : values[i] = "unsafe"

\* The template of an operation's path names all its path parameters. A query has a pair for
\* each entry of an array.
InUrl(list, values) ==
  LastOfName(list, Placed(list, "path"))
  \union IF Whole(list, values) # {} THEN Whole(list, values)
         ELSE {i \in Placed(list, "query") : values[i] \notin {"null", "empty"}}

\* The map of the headers tells names apart by case; the cookies are put together last and
\* take the place of a header of their very name.
HeaderNames(list, bodied) ==
  {list[i].parameter.name : i \in Placed(list, "header")}
  \union (IF Placed(list, "cookie") = {} THEN {} ELSE {CookieHeader}) \union (IF bodied THEN {BodyHeader} ELSE {})

\* The name under which a parameter is in that map.
HeaderOf(parameter) == IF parameter.in = "cookie" THEN CookieHeader ELSE parameter.name

\* The client goes through the map in the order of the bytes, and to it names that are equal
\* but for case are one.
InHeaders(list, bodied) ==
  LET cookies == Placed(list, "cookie")
      headers == {i \in LastOfName(list, Placed(list, "header")) :
                    cookies = {} \/ list[i].parameter.name # CookieHeader} IN
  {i \in headers \union cookies :
     \A name \in HeaderNames(list, bodied) : <<name, HeaderOf(list[i].parameter)>> \notin Replaces}

\* queried: the URL of the operation has a query of its own; bodied: the step sends a body.
RequestOf(s, values, queried, bodied) ==
  LET list == MergedParameters(s) IN
  IF ParametersStep(s).target = "channel" \/ ParametersStep(s).action \/ UrlRefused(list, values, queried)
  THEN [refused |-> TRUE, carries |-> {}]
  ELSE [refused |-> FALSE, carries |-> InUrl(list, values) \union InHeaders(list, bodied)]

(***************************************************************************)
(* Validation                                                              *)
(***************************************************************************)
ParametersInit ==
  /\ workflow \in Workflows
  /\ checked = -1 /\ parametersSeen = {} /\ parametersReport = {}

ValidateWorkflowList ==
  /\ checked = -1
  /\ checked' = 0
  /\ parametersReport' = parametersReport \union ({[at |-> InWorkflow(i), rule |-> "Duplicate", by |-> 0] :
                            i \in Duplicates(workflow.parameters, "name and location")})
  /\ UNCHANGED <<workflow, parametersSeen>>

\* A step's list, what its target asks of the effective parameters, and the querystring.
\* A declaration that several steps inherit is reported by the first that breaks a rule.
ValidateStep ==
  /\ checked \in 0..Len(workflow.steps) - 1
  /\ LET s == checked + 1
         mode == IF ParametersStep(s).target = "workflow" THEN "name" ELSE "name and location"
         new == Context(s) \ parametersSeen IN
     /\ checked' = s
     /\ parametersSeen' = parametersSeen \union Context(s)
     /\ parametersReport' = parametersReport \union ({[at |-> InStep(s, i), rule |-> "Duplicate", by |-> s] : i \in Duplicates(ParametersStep(s).parameters, mode)}
                           \union {[at |-> c[1], rule |-> c[2], by |-> s] : c \in new}
                           \union {[at |-> InStep(s, 0), rule |-> r, by |-> s] : r \in Querystring(s)})
     /\ UNCHANGED workflow

ParametersNext == ValidateWorkflowList \/ ValidateStep

ParametersSpec == ParametersInit /\ [][ParametersNext]_parametersVars

(***************************************************************************)
(* Properties                                                              *)
(***************************************************************************)
EffectiveTypeOK ==
  /\ checked \in -1..Len(workflow.steps)
  /\ parametersSeen \subseteq {<<r.at, r.rule>> : r \in parametersReport}

ParametersAccepted == checked = Len(workflow.steps) /\ parametersReport = {}
Requests == {s \in DOMAIN workflow.steps : ParametersStep(s).target = "operation" /\ ~ParametersStep(s).action}
Reaching(s) == {e \in Effective(s) : e.parameter.name # ParametersNoName /\ ~e.parameter.broken}

\* The lists are checked apart and merged afterwards; still, no two parameters of an
\* accepted document meet in one request under the same name and location.
OneValueEach ==
  ParametersAccepted => \A s \in Requests : \A e, f \in Reaching(s) :
                ParametersIdentity(e.parameter) = ParametersIdentity(f.parameter) => e = f

\* Every parameter of an accepted request has a place in it, also one that the workflow
\* declares for steps of other kinds.
EveryParameterPlaced == ParametersAccepted => \A s \in Requests : \A e \in Reaching(s) : e.parameter.in # "absent"

\* No accepted request has two query components, wherever its parameters are declared.
OneQuery ==
  ParametersAccepted => \A s \in Requests : Located(s, "querystring") # {} =>
                /\ Cardinality({e.parameter.name : e \in Located(s, "querystring")}) = 1
                /\ Located(s, "query") = {}

\* Another header of the request, the cookies and the type of the body included, has the
\* name of the parameter but for case, or the cookies have it exactly.
NameIsShared(list, i, bodied) ==
  /\ list[i].parameter.in \in {"header", "cookie"}
  /\ LET name == HeaderOf(list[i].parameter) IN
     \/ list[i].parameter.in = "header" /\ name = CookieHeader /\ Placed(list, "cookie") # {}
     \/ \E other \in HeaderNames(list, bodied) : <<other, name>> \in Replaces

\* The validator looks at what the engine merges, and a request of an accepted document
\* carries every parameter that has a value, whatever the values: none is overwritten by
\* another, but for what the validator does not see: headers that a name told apart by
\* case takes the place of, and the empty array, for which a query has no pair.
RequestIsComplete ==
  ParametersAccepted => \A s \in Requests :
    LET list == MergedParameters(s) IN
    /\ {list[i] : i \in DOMAIN list} = Effective(s)
    /\ \A values \in [DOMAIN list -> ValueKinds], queried \in BOOLEAN, bodied \in BOOLEAN :
         LET built == RequestOf(s, values, queried, bodied) IN
         ~built.refused => \A i \in DOMAIN list :
           list[i] \in Reaching(s) /\ values[i] # "null" =>
             \/ i \in built.carries
             \/ NameIsShared(list, i, bodied)
             \/ list[i].parameter.in = "query" /\ values[i] = "empty"

\* A workflow parameter that several steps inherit is reported once for each rule it
\* breaks, and for every rule it breaks.
DeclarationReportedOnce ==
  checked = Len(workflow.steps) =>
    \A i \in DOMAIN workflow.parameters : \A rule \in {"AsyncOperation", "OperationRequiresIn", "ChannelPath"} :
      LET breaking == {s \in DOMAIN workflow.steps : <<InWorkflow(i), rule>> \in Context(s)} IN
      Cardinality({r \in parametersReport : r.at = InWorkflow(i) /\ r.rule = rule}) = (IF breaking = {} THEN 0 ELSE 1)

\* An accepted step has one place for each parameter that reaches it, and sends all of them.
ParametersAreClear ==
  /\ EffectiveTypeOK /\ OneValueEach /\ EveryParameterPlaced /\ OneQuery /\ RequestIsComplete
  /\ DeclarationReportedOnce
=============================================================================
