------------------------------ MODULE MCDocuments ------------------------------
(***************************************************************************)
(* What is made of a document before it runs, for TLC: the search for      *)
(* cycles, the rules of the validator, parameters and components, and the  *)
(* binding of sources, operations and receive steps.  A behaviour is one   *)
(* of these at work, the others stay at a first state of theirs.           *)
(***************************************************************************)
EXTENDS DependencyCycles, DocumentRules, EffectiveParameters, ComponentResolution,
        DocumentBinding, OperationResolution, ReceiveTarget

VARIABLE part      (* the component at work                                *)

vars == <<cyclesVars, rulesVars, parametersVars, componentsVars, bindingVars, operationVars, targetVars, part>>

UpTo(n, set) == UNION {[1..k -> set] : k \in 0..n}

(***************************************************************************)
(* Cycles: every graph of three nodes whose lists have up to two entries.  *)
(***************************************************************************)
MCGraphs == [1..Nodes -> UpTo(2, 0..Nodes)]

(***************************************************************************)
(* Rules: families of documents, each varied in what one group reads.      *)
(***************************************************************************)
AStep == [id |-> "s1", targets |-> {"operationId"}, source |-> "", formed |-> FALSE, action |-> "",
          correlated |-> FALSE, dependsOn |-> <<>>, criteria |-> "absent"]
AWorkflow == [id |-> "w1", dependsOn |-> <<>>, stepsGiven |-> TRUE, steps |-> <<AStep>>, outputs |-> {}]
ASource == [name |-> "a", type |-> "openapi"]
ADocument == [version |-> <<<<1>>, <<1>>, <<0>>>>, self |-> "absent", titled |-> TRUE, keys |-> {},
              sources |-> <<ASource>>, workflows |-> <<AWorkflow>>]
Ref(kind, source, id) == [kind |-> kind, source |-> source, id |-> id]
WithSteps(steps) == [AWorkflow EXCEPT !.steps = steps]

\* The head of the document, and its version.
VersionParts == {<<>>, <<0>>, <<1>>, <<0, 1>>, <<1, 0>>, <<0, 0>>, <<2>>, <<1, 10>>}
Versions == [1..3 -> VersionParts] \union {<<>>, <<<<1>>>>, <<<<1>>, <<1>>>>, <<<<1>>, <<1>>, <<0>>, <<0>>>>}
Heads ==
  {[ADocument EXCEPT !.version = v] : v \in Versions}
  \union {[ADocument EXCEPT !.self = self, !.titled = titled, !.keys = keys, !.sources = list, !.workflows = wfs] :
            self \in {"absent", "plain", "fragment", "malformed"}, titled \in BOOLEAN,
            keys \in SUBSET {"k.1", "k 1"}, list \in {<<>>, <<ASource>>}, wfs \in {<<>>, <<AWorkflow>>}}

\* Sources, two of them of one name, and the dependencies of workflows.
Typed(name, t) == [name |-> name, type |-> t]
SourceLists ==
  {<<Typed("", "arazzo")>>, <<Typed("a", "openapi")>>, <<Typed("a", "arazzo")>>,
   <<Typed("a", "arazzo"), Typed("a", "openapi")>>, <<Typed("a", "openapi"), Typed("b", "arazzo")>>}
WorkflowRefs == {Ref("local", "", "w1"), Ref("local", "", "w2"), Ref("external", "a", "w1"),
                 Ref("external", "b", "w1"), Ref("invalid", "", "")}
SomeWorkflows == {[AWorkflow EXCEPT !.id = id, !.dependsOn = d] : id \in {"", "w1", "w2"}, d \in UpTo(1, WorkflowRefs)}
Dependencies ==
  {[ADocument EXCEPT !.sources = list, !.workflows = <<[a EXCEPT !.id = "w1"], b>>] :
     list \in SourceLists, a \in SomeWorkflows, b \in SomeWorkflows}
  \union {[ADocument EXCEPT !.workflows = <<[AWorkflow EXCEPT !.id = "w 1"]>>]}

\* The steps of a workflow, their names and their dependencies, in one workflow and in two.
StepRefs == {Ref("local", "", "s1"), Ref("local", "", "s2"), Ref("cross", "", "s1"),
             Ref("external", "a", "s1"), Ref("invalid", "", "")}
SomeSteps == {[AStep EXCEPT !.id = id, !.dependsOn = d] : id \in {"", "s1", "s2", "s.1"}, d \in UpTo(1, StepRefs)}
ThreeSteps == {[j \in 1..3 |-> [AStep EXCEPT !.id = <<"s1", "s2", "s3">>[j], !.dependsOn = d[j]]] :
                 d \in [1..3 -> {<<>>} \union {<<Ref("local", "", id)>> : id \in {"s1", "s2", "s3"}}]}
StepLists ==
  {[ADocument EXCEPT !.workflows = <<[WithSteps(steps) EXCEPT !.outputs = out]>>] :
     steps \in UpTo(2, SomeSteps), out \in {{}, {"s2"}}}
  \union {[ADocument EXCEPT !.workflows = <<WithSteps(steps)>>] : steps \in ThreeSteps}
  \union {[ADocument EXCEPT !.workflows = <<WithSteps(<<a>>), [WithSteps(<<a>>) EXCEPT !.id = "w2"]>>] : a \in SomeSteps}
  \union {[ADocument EXCEPT !.workflows = <<[WithSteps(<<>>) EXCEPT !.stepsGiven = yes]>>] : yes \in BOOLEAN}

\* One step: its target, its source and the fields of an exchange; its criteria.
StepSources == {<<Typed("a", t)>> : t \in {"openapi", "asyncapi", "arazzo"}}
               \union {<<Typed("a", "asyncapi"), Typed("a", "openapi")>>}
OneStep ==
  {[ADocument EXCEPT !.sources = list,
      !.workflows = <<WithSteps(<<[AStep EXCEPT !.targets = t, !.source = n, !.formed = f, !.action = a, !.correlated = c]>>)>>] :
     list \in StepSources, t \in {x \in SUBSET Kinds : Cardinality(x) <= 2}, n \in {"a", "b"}, f \in BOOLEAN,
     a \in {"", "send", "receive"}, c \in BOOLEAN}
  \union {[ADocument EXCEPT !.workflows = <<WithSteps(<<[AStep EXCEPT !.targets = t, !.criteria = cr]>>)>>] :
            t \in SUBSET {"operationId"}, cr \in {"null", "empty", "listed"}}

RuleDocuments == Heads \union Dependencies \union StepLists \union OneStep

(***************************************************************************)
(* Parameters: a workflow with up to two, a step with up to two and a step *)
(* with up to one, of every kind of target; one step with parameters of    *)
(* every location.                                                         *)
(***************************************************************************)
Given(name, in) == [name |-> name, in |-> in, broken |-> FALSE]
SomeParameters ==
  {Given("q", "query"), Given("q", "querystring"), Given("r", "querystring"), Given("q", "absent"),
   [name |-> ParametersNoName, in |-> "absent", broken |-> TRUE]}
OtherParameters ==
  {Given("q", "path"), Given("q", "query"), Given("q", "querystring"), Given("q", "header"), Given("Q", "header"),
   Given("Cookie", "header"), Given("cookie", "header"), Given("CONTENT-TYPE", "header"), Given("q", "cookie")}
MCReplaces == {<<"q", "Q">>, <<"cookie", "Cookie">>, <<"Content-Type", "CONTENT-TYPE">>}
TargetKinds == {<<"operation", FALSE>>, <<"operation", TRUE>>, <<"workflow", FALSE>>, <<"channel", TRUE>>, <<"absent", FALSE>>}
StepOf(kind, parameters) == [target |-> kind[1], action |-> kind[2], parameters |-> parameters]
MCWorkflows ==
  {[parameters |-> wp, steps |-> <<StepOf(a, p), StepOf(b, q)>>] :
     wp \in UpTo(2, SomeParameters), a \in TargetKinds, p \in UpTo(2, SomeParameters),
     b \in {<<"operation", FALSE>>}, q \in UpTo(1, SomeParameters)}
  \union {[parameters |-> wp, steps |-> <<StepOf(<<"operation", FALSE>>, p)>>] :
           wp \in UpTo(1, OtherParameters), p \in UpTo(2, OtherParameters)}

(***************************************************************************)
(* Components: a parameter, an action, and uses of each; one set varies    *)
(* the fields of an action, one how it is referred to, one the parameters. *)
(***************************************************************************)
Plain ==
  [reference |-> "absent", value |-> "absent", name |-> "text", type |-> "end", retryAfter |-> "absent",
   retryLimit |-> "absent", workflowId |-> "absent", stepId |-> "absent", criteria |-> "fine", typo |-> FALSE,
   parameters |-> <<>>]
Component(action, kind) == [f \in DOMAIN action \union {"kind"} |-> IF f = "kind" THEN kind ELSE action[f]]
Parameter(reference, name, in, value) == [reference |-> reference, name |-> name, in |-> in, value |-> value]
Refer(name) == [Plain EXCEPT !.reference = name, !.name = "absent", !.type = "absent"]
ActionUse(id, kind, entry) == [id |-> id, form |-> "action", kind |-> kind, entry |-> entry]
ParameterUse(id, entry) == [id |-> id, form |-> "parameter", kind |-> "success", entry |-> entry]
ComponentDocument(parameters, actions, list) ==
  [parameters |-> parameters, actions |-> actions, uses |-> list, steps |-> {"s"}, workflows |-> {"w"}, old |-> FALSE]

ActionFields ==
  {[Plain EXCEPT !.type = t, !.retryAfter = a, !.retryLimit = l, !.workflowId = wf, !.stepId = st] :
     t \in {"absent", "end", "goto", "retry"}, a \in {"absent", "zero", "positive", "negative"},
     l \in {"absent", "null", "zero", "positive"}, wf \in {"absent", "empty", "w"},
     st \in {"absent", "empty", "s", "t"}}
FieldDocuments ==
  {ComponentDocument(<<>>, [n \in {"A"} |-> Component(a, k)], <<ActionUse("u1", k, Refer("A")), ActionUse("u2", k, a)>>) :
     a \in ActionFields, k \in ComponentsKinds}

Referring ==
  {[Plain EXCEPT !.reference = r, !.value = v, !.name = n, !.type = t] :
     r \in {"absent", "empty", "not text", "unparsable", "foreign", "A", "missing"},
     v \in {"absent", "null", "text"}, n \in {"absent", "text"}, t \in {"absent", "end"}}
NestedParameters == {<<>>, <<Parameter("P", ComponentsNoName, "absent", "absent")>>, <<Parameter("absent", "n", "absent", "absent")>>}
ActionComponents ==
  {[a EXCEPT !.criteria = IF p = <<>> THEN "fine" ELSE "broken", !.parameters = p] :
     a \in {b \in Referring : b.reference \in {"absent", "empty", "A"} /\ b.name = "text" /\ b.type = "end"},
     p \in NestedParameters}
NumberParameter == [n \in {"P"} |-> Parameter("absent", "p", "absent", "number")]
ReferenceDocuments ==
  {ComponentDocument(NumberParameter, [n \in {"A"} |-> Component(a, "success")],
            <<ActionUse("u1", "success", u), ActionUse("u2", "success", Refer("A"))>>) :
     a \in ActionComponents, u \in Referring}
  \union {[ComponentDocument(NumberParameter, [n \in {"A"} |-> Component(Plain, "failure")], <<ActionUse("u1", "success", Refer("A"))>>)
             EXCEPT !.old = TRUE]}

ParameterEntries ==
  {Parameter(r, n, in, v) :
     r \in {"absent", "empty", "unparsable", "foreign", "P", "missing"}, n \in {"n", ComponentsNoName},
     in \in {"absent", "query"}, v \in {"absent", "null", "text", "broken"}}
ParameterDocuments ==
  {[ComponentDocument([n \in {"P"} |-> Parameter("absent", name, io[1], v)], <<>>,
             <<ParameterUse("u1", e), ParameterUse("u2", Parameter("P", ComponentsNoName, "absent", "absent")),
               ActionUse("u3", "success", [Plain EXCEPT !.type = "goto", !.workflowId = "w",
                                             !.parameters = <<Parameter("P", "n", "absent", "text"), e>>])>>)
      EXCEPT !.old = io[2]] :
     name \in {"p", ComponentsNoName}, v \in {"absent", "null", "text"}, e \in ParameterEntries,
     io \in {<<"absent", FALSE>>, <<"querystring", FALSE>>, <<"querystring", TRUE>>}}

MCComponents == FieldDocuments \union ReferenceDocuments \union ParameterDocuments

(***************************************************************************)
(* Binding: two sources; references that are absolute, relative, ascending *)
(* or broken; $self absent, absolute, relative or opaque; up to two        *)
(* provided documents, which may share an identity.                        *)
(***************************************************************************)
Uri(scheme, host, path) == [scheme |-> scheme, host |-> host, path |-> path]
Absolute(uri) == [form |-> "absolute", uri |-> uri]
Relative(path) == [form |-> "relative", path |-> path]
ApiFile == <<"srv", "api">>
OnWeb == Uri("https", "h", <<"docs", "api">>)

SourceReferences ==
  {Absolute(Uri("file", "", ApiFile)), Absolute(OnWeb), Relative(<<"api">>), Relative(<<"..", "api">>),
   [form |-> "unjoinable"], [form |-> "malformed"]}
Selfs ==
  {BindingNone, Absolute(Uri("https", "h", <<"docs", "flow">>)), Absolute(Uri("file", "", <<"etc", "flow">>)),
   Absolute(Uri("urn", "", <<>>)), Relative(<<"sub", "flow">>), [form |-> "malformed"]}
MCDescriptions ==
  {[self |-> self, sources |-> <<[type |-> "openapi", ref |-> r], [type |-> t, ref |-> Relative(<<"api">>)]>>] :
     self \in Selfs, r \in SourceReferences, t \in {"openapi", "asyncapi", "arazzo"}}
MCDirectories == {BindingNone, <<"tmp", "..", "srv">>}
ProvidedDocuments ==
  {[self |-> self, path |-> p, content |-> c] :
     self \in {BindingNone, Absolute(OnWeb)}, p \in {BindingNone, ApiFile}, c \in {"usable", "no server"}}
MCCollections ==
  {<<>>} \union {<<d>> : d \in ProvidedDocuments} \union {<<d, e>> : d, e \in {x \in ProvidedDocuments : x.path # BindingNone}}
Paths == {ApiFile, <<"api">>, <<"etc", "api">>, <<"srv", "sub", "api">>}
MCDisks == {[p \in Paths |-> IF p = ApiFile THEN c ELSE "usable"] : c \in {"usable", "not YAML", Missing}}

(***************************************************************************)
(* Operations: two OpenAPI documents, or one beside another source.  The   *)
(* first has two path items, with an operation each; their servers,        *)
(* references and ids vary.                                                *)
(***************************************************************************)
MCFixedMethods == {"get", "post"}
MCWire(m) == IF m = "get" THEN "GET" ELSE IF m = "post" THEN "POST" ELSE IF m = "copy" THEN "COPY" ELSE m
MCTokens == {"GET", "copy"}
NoMethods == [m \in {} |-> OperationNone]
PathItem(path, ref, servers, fixed, additional) ==
  [path |-> path, routable |-> path # "x-path", ref |-> ref, servers |-> servers, fixed |-> fixed,
   additional |-> additional]
Op(id, ref, servers) == [id |-> id, ref |-> ref, servers |-> servers]

FirstDocuments ==
  {[servers |-> "doc1",
    items |-> {PathItem("/a", r, i, [m \in {"get"} |-> Op("one", FALSE, sv)], NoMethods),
               PathItem(p, FALSE, "absent", NoMethods, [m \in {k} |-> Op(id, q, "op2")])}] :
     r \in BOOLEAN, i \in {"absent", "item", "relative"}, sv \in {"absent", "empty", "op1", "no url"},
     p \in {"/b", "x-path"}, k \in {"copy", "GET", "bad name"}, id \in {"one", "two", OperationNone}, q \in BOOLEAN}
SecondDocuments ==
  {[servers |-> "doc2", items |-> {PathItem("/a", FALSE, "absent", [m \in {"get", "post"} |->
      Op(IF m = "get" THEN "one" ELSE id, FALSE, "absent")], NoMethods)}] : id \in {"one", "two"}}
MCCatalogues ==
  {<<[name |-> "s", type |-> "openapi", document |-> d]>> \o rest :
     d \in FirstDocuments,
     rest \in {<<>>, <<[name |-> "t", type |-> "arazzo"]>>, <<[name |-> "t", type |-> "asyncapi"]>>}
              \union {<<[name |-> "t", type |-> "openapi", document |-> e]>> : e \in SecondDocuments}}
MCTargets ==
  {[form |-> f] : f \in {"malformed id", "malformed path"}}
  \union {[form |-> "bare", id |-> i] : i \in {"one", "two"}}
  \union {[form |-> "qualified", source |-> n, id |-> i] : n \in {"s", "t"}, i \in {"one", "two"}}
  \union {[form |-> "pointer", source |-> n, path |-> p, method |-> m, additional |-> m = "copy"] :
            n \in {"s", "t"}, p \in {"/a", "/b"}, m \in {"get", "copy"}}

(***************************************************************************)
(* One component at work                                                   *)
(***************************************************************************)
IdleCycles ==
  /\ dependsOn = [n \in 1..Nodes |-> <<>>] /\ first = 1 /\ last = Nodes /\ start = 1
  /\ states = [n \in 1..Nodes |-> 0] /\ stack = <<>> /\ verdict = "searching"
IdleRules ==
  /\ doc = ADocument /\ phase = "parse" /\ w = 1 /\ s = 1
  /\ seen = [sources |-> {}, workflows |-> {}, steps |-> {}]
  /\ sourceTypes = <<>> /\ found = {} /\ written = FALSE
IdleParameters ==
  /\ workflow = [parameters |-> <<>>, steps |-> <<>>]
  /\ checked = -1 /\ parametersSeen = {} /\ parametersReport = {}
IdleComponents ==
  /\ componentsDoc = ComponentDocument(<<>>, <<>>, <<>>) /\ raw = TRUE
  /\ ready = {} /\ next = 0 /\ resolved = <<>> /\ origin = <<>> /\ componentsReport = <<>>
  /\ componentsPhase = "resolve"
IdleBinding ==
  /\ description = [self |-> BindingNone, sources |-> <<>>] /\ directory = BindingNone
  /\ provided = <<>> /\ disk = [p \in Paths |-> "usable"]
  /\ pc = "identify" /\ identities = <<>> /\ at = 1 /\ bound = <<>> /\ reads = {} /\ kept = {}
IdleOperation == sources = <<>> /\ pending = {} /\ index = <<>> /\ answer = OperationNone

DocumentsInit ==
  /\ TargetInit
  /\ \/ part = "cycles" /\ CyclesInit /\ IdleRules /\ IdleParameters /\ IdleComponents /\ IdleBinding /\ IdleOperation
     \/ part = "rules" /\ IdleCycles /\ RulesInit /\ IdleParameters /\ IdleComponents /\ IdleBinding /\ IdleOperation
     \/ part = "parameters" /\ IdleCycles /\ IdleRules /\ ParametersInit /\ IdleComponents /\ IdleBinding /\ IdleOperation
     \/ part = "components" /\ IdleCycles /\ IdleRules /\ IdleParameters /\ ComponentsInit /\ IdleBinding /\ IdleOperation
     \/ part = "binding" /\ IdleCycles /\ IdleRules /\ IdleParameters /\ IdleComponents /\ BindingInit /\ IdleOperation
     \/ part = "operation" /\ IdleCycles /\ IdleRules /\ IdleParameters /\ IdleComponents /\ IdleBinding /\ OperationInit
     \/ part = "target" /\ IdleCycles /\ IdleRules /\ IdleParameters /\ IdleComponents /\ IdleBinding /\ IdleOperation

DocumentsNext ==
  \/ part = "cycles" /\ CyclesNext
     /\ UNCHANGED <<rulesVars, parametersVars, componentsVars, bindingVars, operationVars, targetVars, part>>
  \/ part = "rules" /\ RulesNext
     /\ UNCHANGED <<cyclesVars, parametersVars, componentsVars, bindingVars, operationVars, targetVars, part>>
  \/ part = "parameters" /\ ParametersNext
     /\ UNCHANGED <<cyclesVars, rulesVars, componentsVars, bindingVars, operationVars, targetVars, part>>
  \/ part = "components" /\ ComponentsNext
     /\ UNCHANGED <<cyclesVars, rulesVars, parametersVars, bindingVars, operationVars, targetVars, part>>
  \/ part = "binding" /\ BindingNext
     /\ UNCHANGED <<cyclesVars, rulesVars, parametersVars, componentsVars, operationVars, targetVars, part>>
  \/ part = "operation" /\ OperationNext
     /\ UNCHANGED <<cyclesVars, rulesVars, parametersVars, componentsVars, bindingVars, targetVars, part>>
  \/ part = "target" /\ TargetNext
     /\ UNCHANGED <<cyclesVars, rulesVars, parametersVars, componentsVars, bindingVars, operationVars, part>>

DocumentsSpec == DocumentsInit /\ [][DocumentsNext]_vars
=============================================================================
