------------------------------ MODULE DocumentRules ------------------------------
(***************************************************************************)
(* What the validator says of a document whose components are resolved:    *)
(* one pass over it in order, the two searches for cycles, and the pass    *)
(* over its text for what the typed document does not tell apart.          *)
(***************************************************************************)
EXTENDS Integers, Sequences, FiniteSets

CONSTANTS
  Documents,   (* the documents that are looked at                          *)
  Dotted,      (* names with a dot in them                                  *)
  Spaced       (* names with a character that no identifier has             *)

VARIABLES
  doc,
  phase,        (* parse, top, sources, workflow, steps, done                 *)
  w, s,         (* the workflow or source at hand, and its step               *)
  seen,         (* identifiers met so far: of sources, workflows, steps       *)
  sourceTypes,  (* the types of the sources, by name                          *)
  found,        (* findings: severity, kind, place and field                  *)
  written       (* the document at hand was written out after it was accepted *)

rulesVars == <<doc, phase, w, s, seen, sourceTypes, found, written>>

Kinds == {"operationId", "operationPath", "channelPath", "workflowId"}
Nowhere == <<>>
Blank == ""       \* a name or a field that is not there, or is there without a letter

\* A document as it is read, with the references in it parsed; a part of a version is a
\* sequence of digits, 10 for any other character.
References == [kind : {"local", "cross", "external", "invalid"}, source : STRING, id : STRING]
DocumentSteps ==
  [id : STRING, targets : SUBSET Kinds, source : STRING, formed : BOOLEAN, action : {Blank, "send", "receive"},
   correlated : BOOLEAN, dependsOn : Seq(References), criteria : {"absent", "null", "empty", "listed"}]
DocumentWorkflows ==
  [id : STRING, dependsOn : Seq(References), stepsGiven : BOOLEAN, steps : Seq(DocumentSteps), outputs : SUBSET STRING]
DocumentTexts ==
  [version : Seq(Seq(0..10)), self : {"absent", "plain", "fragment", "malformed"}, titled : BOOLEAN, keys : SUBSET STRING,
   sources : Seq([name : STRING, type : {"arazzo", "asyncapi", "openapi"}]), workflows : Seq(DocumentWorkflows)]

ASSUME DocumentsAssumption == Documents \subseteq DocumentTexts /\ "arazzo" \notin Spaced

Finding(severity, kind, place, field) ==
  [severity |-> severity, kind |-> kind, place |-> place, field |-> field]
Error(kind, place, field) == Finding("error", kind, place, field)
If(condition, findings) == IF condition THEN findings ELSE {}
Refused(findings) == \E f \in findings : f.severity = "error"

RulesInit ==
  /\ doc \in Documents
  /\ phase = "parse" /\ w = 1 /\ s = 1
  /\ seen = [sources |-> {}, workflows |-> {}, steps |-> {}]
  /\ sourceTypes = <<>> /\ found = {} /\ written = FALSE

Workflow == doc.workflows[w]
Step == Workflow.steps[s]
Target == CHOOSE t \in Step.targets : TRUE

(***************************************************************************)
(* The head of the document                                                *)
(***************************************************************************)
\* The text must name one target per step; one that is empty is absent.
Parse ==
  /\ phase = "parse"
  /\ IF \E i \in DOMAIN doc.workflows : \E j \in DOMAIN doc.workflows[i].steps :
           Cardinality(doc.workflows[i].steps[j].targets) > 1
     THEN found' = {Error("ParseYaml", Nowhere, Blank)} /\ phase' = "done"
     ELSE found' = {} /\ phase' = "top"
  /\ UNCHANGED <<doc, w, s, seen, sourceTypes, written>>

Digits(part) == part # <<>> /\ \A i \in DOMAIN part : part[i] < 10
Significant(part) == LET zeros == {i \in 0..Len(part) : \A k \in 1..i : part[k] = 0}
                     leading == CHOOSE i \in zeros : \A k \in zeros : k <= i
                 IN  SubSeq(part, leading + 1, Len(part))

\* Whether the declared version is one whose features are known; the patch does not matter.
Classify(version) ==
  CASE version = <<<<>>>> -> "Missing"
    [] Len(version) # 3 \/ (\E i \in DOMAIN version : ~Digits(version[i])) -> "Malformed"
    [] OTHER -> IF Significant(version[1]) = <<1>> /\ Significant(version[2]) \in {<<>>, <<1>>}
                THEN "Supported" ELSE "Unsupported"

VersionRule ==
  LET class == Classify(doc.version) IN
  If(class = "Missing", {Error("MissingRequiredField", Nowhere, "arazzo")})
  \union If(class \in {"Malformed", "Unsupported"}, {Error("UnsupportedVersion", Nowhere, "arazzo")})

KeyRule(key) == If(key \in Spaced, {Error("InvalidIdentifier", Nowhere, key)})

RulesTop ==
  /\ phase = "top"
  /\ found' = found \union VersionRule
       \union If(doc.self \in {"fragment", "malformed"}, {Error("InvalidReference", Nowhere, "$self")})
       \union If(~doc.titled, {Error("MissingRequiredField", Nowhere, "info.title")})
       \union If(doc.sources = <<>>, {Error("MissingRequiredField", Nowhere, "sourceDescriptions")})
       \union If(doc.workflows = <<>>, {Error("MissingRequiredField", Nowhere, "workflows")})
       \union UNION {KeyRule(key) : key \in doc.keys}
  /\ phase' = "sources"
  /\ UNCHANGED <<doc, w, s, seen, sourceTypes, written>>

\* What is said of an identifier: that it is missing, given before, or unusual.
IdentifierRule(id, before, place, field) ==
  IF id = Blank THEN {Error("MissingRequiredField", place, field)}
  ELSE IF id \in before THEN {Error("DuplicateIdentifier", place, field)}
  ELSE If(id \in Dotted \union Spaced, {Finding("warning", "InvalidIdentifier", place, field)})

\* The type of the last source of a name is kept.
Source ==
  /\ phase = "sources" /\ w <= Len(doc.sources)
  /\ LET source == doc.sources[w] IN
     /\ found' = found \union IdentifierRule(source.name, seen.sources, <<"source", w>>, "name")
     /\ seen' = [seen EXCEPT !.sources = @ \union ({source.name} \ {Blank})]
     /\ sourceTypes' = [n \in DOMAIN sourceTypes \union {source.name} |->
                          IF n = source.name THEN source.type ELSE sourceTypes[n]]
  /\ w' = w + 1
  /\ UNCHANGED <<doc, phase, s, written>>

SourcesDone ==
  /\ phase = "sources" /\ w > Len(doc.sources)
  /\ phase' = "workflow" /\ w' = 1
  /\ UNCHANGED <<doc, s, seen, sourceTypes, found, written>>

(***************************************************************************)
(* Workflows                                                               *)
(***************************************************************************)
WorkflowIds == {doc.workflows[i].id : i \in DOMAIN doc.workflows} \ {Blank}
StepIds == {Workflow.steps[j].id : j \in DOMAIN Workflow.steps} \ {Blank}

\* An entry of a workflow's dependsOn: a workflow of this document, or of one that is an
\* Arazzo source, which is not loaded.
Dependency(reference, place) ==
  CASE reference.kind = "local" ->
         If(reference.id \notin WorkflowIds, {Error("InvalidReference", place, "dependsOn")})
    [] reference.kind = "external" ->
         IF reference.source \notin DOMAIN sourceTypes THEN {Error("InvalidReference", place, "dependsOn")}
         ELSE IF sourceTypes[reference.source] = "arazzo"
              THEN {Finding("warning", "UnsupportedDependencyScope", place, "dependsOn")}
         ELSE {Error("InvalidReference", place, "dependsOn")}
    [] OTHER -> {Error("InvalidReference", place, "dependsOn")}

BeginWorkflow ==
  /\ phase = "workflow" /\ w <= Len(doc.workflows)
  /\ found' = found \union IdentifierRule(Workflow.id, seen.workflows, <<"workflow", w>>, "workflowId")
       \union UNION {Dependency(Workflow.dependsOn[k], <<"workflow", w, k>>) : k \in DOMAIN Workflow.dependsOn}
  /\ seen' = [seen EXCEPT !.workflows = @ \union ({Workflow.id} \ {Blank}), !.steps = {}]
  /\ phase' = "steps" /\ s' = 1
  /\ UNCHANGED <<doc, w, sourceTypes, written>>

(***************************************************************************)
(* Steps                                                                   *)
(***************************************************************************)
Place == <<"step", w, s>>

\* The target and the fields that only some targets have.
TargetRule ==
  IF Step.targets = {} THEN {Error("InvalidStepTarget", Place, "target")}
  ELSE CASE Target = "operationPath" ->
              If(Step.formed /\ Step.source \notin seen.sources, {Error("InvalidReference", Place, "operationPath")})
              \union If(~Step.formed, {Error("UnsupportedOperationPath", Place, "operationPath")})
              \union If(Step.action # Blank, {Error("InvalidAsyncStep", Place, "action")})
         [] Target = "channelPath" -> If(Step.action = Blank, {Error("InvalidAsyncStep", Place, "action")})
         [] Target = "workflowId" -> If(Step.action # Blank, {Error("InvalidAsyncStep", Place, "action")})
         [] OTHER -> {}

CorrelationRule ==
  If(/\ Step.correlated
     /\ Step.action # "receive" \/ Step.targets \cap {"operationId", "channelPath"} = {},
     {Error("InvalidAsyncStep", Place, "correlationId")})

Named(source) == {i \in DOMAIN doc.sources : doc.sources[i].name = source}

\* The fields of an exchange need a source of the type asyncapi where the target names one;
\* the first source of the name is asked.
Applicability ==
  IF Step.targets \in {{"operationId"}, {"channelPath"}} /\ Step.formed /\ Named(Step.source) # {}
  THEN LET asked == CHOOSE i \in Named(Step.source) : \A k \in Named(Step.source) : i <= k IN
       IF doc.sources[asked].type = "asyncapi" THEN {}
       ELSE IF Target = "channelPath" THEN {Error("InvalidAsyncStep", Place, "channelPath")}
       ELSE If(Step.action # Blank, {Error("InvalidAsyncStep", Place, "action")})
            \union If(Step.correlated, {Error("InvalidAsyncStep", Place, "correlationId")})
  ELSE {}

StepDependency(reference, place) ==
  CASE reference.kind = "local" ->
         If(reference.id \notin StepIds, {Error("InvalidReference", place, "dependsOn")})
    [] reference.kind \in {"cross", "external"} -> {Error("UnsupportedDependencyScope", place, "dependsOn")}
    [] OTHER -> {Error("InvalidReference", place, "dependsOn")}

StepRules ==
  /\ phase = "steps" /\ s <= Len(Workflow.steps)
  /\ found' = found \union IdentifierRule(Step.id, seen.steps, Place, "stepId")
       \union TargetRule \union CorrelationRule \union Applicability
       \union UNION {StepDependency(Step.dependsOn[k], Append(Place, k)) : k \in DOMAIN Step.dependsOn}
  /\ seen' = [seen EXCEPT !.steps = @ \union ({Step.id} \ {Blank})]
  /\ s' = s + 1
  /\ UNCHANGED <<doc, phase, w, sourceTypes, written>>

(***************************************************************************)
(* Cycles, outputs and the text                                            *)
(***************************************************************************)
\* The local entries of an item's list, as positions; the last item of a name is meant.
Position(items, id) == {i \in DOMAIN items : items[i].id = id /\ \A k \in DOMAIN items : items[k].id = id => k <= i}
Targets(items, i) ==
  UNION {Position(items, items[i].dependsOn[k].id) :
           k \in {k \in DOMAIN items[i].dependsOn : items[i].dependsOn[k].kind = "local"}}
Closed(items, set) == \A i \in set : Targets(items, i) \subseteq set
Reached(items, from) == {i \in DOMAIN items : \A set \in SUBSET DOMAIN items : from \in set /\ Closed(items, set) => i \in set}
\* mutant: the search follows no entry but those of the node it starts from
HasCycleSelf(items, from) == from \in Targets(items, from)

\* The answer of the search that DependencyCycles models.
HasCycle(items, from) ==
  \E set \in SUBSET Reached(items, from) : set # {} /\ \A i \in set : Targets(items, i) \cap set # {}

EndWorkflow ==
  /\ phase = "steps" /\ s > Len(Workflow.steps)
  /\ found' = found
       \union If(\E i \in DOMAIN Workflow.steps : HasCycle(Workflow.steps, i),
                 {Error("DependencyCycle", <<"workflow", w>>, "steps")})
       \union If(HasCycle(doc.workflows, w), {Error("DependencyCycle", <<"workflow", w>>, "dependsOn")})
       \union UNION {If(id \notin StepIds, {Error("InvalidReference", <<"workflow", w>>, "outputs")}) : id \in Workflow.outputs}
  /\ phase' = "workflow" /\ w' = w + 1
  /\ UNCHANGED <<doc, s, seen, sourceTypes, written>>

TextStep(i, j) ==
  If(doc.workflows[i].steps[j].criteria \in {"null", "empty"},
     {Error("MissingRequiredField", <<"step", i, j>>, "successCriteria")})

TextWorkflow(i) ==
  IF ~doc.workflows[i].stepsGiven THEN {Error("MissingRequiredField", <<"workflow", i>>, "steps")}
  ELSE UNION {TextStep(i, j) : j \in DOMAIN doc.workflows[i].steps}

\* What the text shows: a list that is absent, one that is given and empty.
Text ==
  /\ phase = "workflow" /\ w > Len(doc.workflows)
  /\ found' = found \union UNION {TextWorkflow(i) : i \in DOMAIN doc.workflows}
  /\ phase' = "done"
  /\ UNCHANGED <<doc, w, s, seen, sourceTypes, written>>

\* The text that an accepted document is written to: the steps always, criteria where there are any.
WrittenStep(step) == [step EXCEPT !.criteria = IF step.criteria = "listed" THEN "listed" ELSE "absent"]
WrittenWorkflow(workflow) ==
  [workflow EXCEPT !.stepsGiven = TRUE, !.steps = [j \in DOMAIN workflow.steps |-> WrittenStep(workflow.steps[j])]]
WrittenOut(d) == [d EXCEPT !.workflows = [i \in DOMAIN d.workflows |-> WrittenWorkflow(d.workflows[i])]]

\* A document that was accepted is written out and read again.
WriteOut ==
  /\ phase = "done" /\ ~Refused(found) /\ ~written
  /\ doc' = WrittenOut(doc) /\ written' = TRUE
  /\ phase' = "parse" /\ w' = 1 /\ s' = 1 /\ found' = {}
  /\ seen' = [sources |-> {}, workflows |-> {}, steps |-> {}] /\ sourceTypes' = <<>>

RulesNext ==
  \/ Parse \/ RulesTop \/ Source \/ SourcesDone \/ BeginWorkflow \/ StepRules \/ EndWorkflow \/ Text
  \/ WriteOut

RulesSpec == RulesInit /\ [][RulesNext]_rulesVars

(***************************************************************************)
(* Properties                                                              *)
(***************************************************************************)
RulesTypeOK ==
  /\ phase \in {"parse", "top", "sources", "workflow", "steps", "done"} /\ written \in BOOLEAN
  /\ w \in 1..Len(IF phase = "sources" THEN doc.sources ELSE doc.workflows) + 1
  /\ phase = "steps" => s \in 1..Len(Workflow.steps) + 1 /\ seen.steps \subseteq StepIds
  /\ DOMAIN sourceTypes \subseteq {doc.sources[i].name : i \in DOMAIN doc.sources}
  /\ \A f \in found : f.severity \in {"error", "warning"}

Accepted == phase = "done" /\ ~Refused(found)

\* Items with distinct names, whose local dependencies can be put in an order.
Orderable(items) ==
  /\ \A i, k \in DOMAIN items : items[i].id # Blank /\ (items[i].id = items[k].id => i = k)
  /\ \E rank \in [DOMAIN items -> DOMAIN items] :
       \A i \in DOMAIN items : \A k \in DOMAIN items[i].dependsOn :
         items[i].dependsOn[k].kind = "local" =>
           \E j \in DOMAIN items : items[j].id = items[i].dependsOn[k].id /\ rank[j] < rank[i]

\* What the schedulers rely on: in a document that is accepted every name names one thing
\* and the steps and workflows can be run one after another.
AcceptedIsOrdered ==
  Accepted => Orderable(doc.workflows) /\ \A i \in DOMAIN doc.workflows : Orderable(doc.workflows[i].steps)

\* What the document binding relies on: an external dependency names one source, and whichever
\* of the two lookups is asked (the last or the first of a name) calls it Arazzo.
AcceptedExternal ==
  Accepted =>
    \A i \in DOMAIN doc.workflows : \A k \in DOMAIN doc.workflows[i].dependsOn :
      LET reference == doc.workflows[i].dependsOn[k] IN
      reference.kind = "external" =>
        /\ Cardinality(Named(reference.source)) = 1
        /\ \A n \in Named(reference.source) : doc.sources[n].type = "arazzo"

\* What the receive and the exchange rely on: an action stands where a message can be sent or
\* received, on a source that has channels where it is known, and a correlation id on a receive.
AcceptedShape ==
  Accepted =>
    \A i \in DOMAIN doc.workflows : \A j \in DOMAIN doc.workflows[i].steps :
      LET step == doc.workflows[i].steps[j]
          async == step.action # Blank \/ step.targets = {"channelPath"}
      IN  /\ Cardinality(step.targets) = 1
          /\ async => step.targets \subseteq {"operationId", "channelPath"} /\ step.action \in {"send", "receive"}
          /\ async /\ step.formed => \A n \in Named(step.source) : doc.sources[n].type = "asyncapi"
          /\ step.correlated => async /\ step.action = "receive"

\* The value of a part, digit by digit.
Value(part) ==
  LET total[n \in 0..Len(part)] == IF n = 0 THEN 0 ELSE 10 * total[n - 1] + part[n] IN total[Len(part)]
Rightful ==
  /\ Len(doc.version) = 3 /\ \A i \in 1..3 : Digits(doc.version[i])
  /\ Value(doc.version[1]) = 1 /\ Value(doc.version[2]) \in {0, 1}

\* A version is known exactly if its first two numbers are: neither zeros in front nor the
\* patch make a difference.
VersionByValue == phase = "sources" => (Rightful <=> \A f \in found : f.field # "arazzo")

\* The same name in two workflows is no duplicate, and every repetition in one is reported.
RepetitionReported ==
  phase = "done" /\ (\A f \in found : f.kind # "ParseYaml") =>
    \A i \in DOMAIN doc.workflows : \A j \in DOMAIN doc.workflows[i].steps :
      LET steps == doc.workflows[i].steps IN
      Error("DuplicateIdentifier", <<"step", i, j>>, "stepId") \in found
        <=> steps[j].id # Blank /\ \E k \in 1..j - 1 : steps[k].id = steps[j].id

\* A list of criteria that is given has one: the text tells it, though the typed document
\* cannot, and reading the typed document alone would accept it.
AcceptedCriteria ==
  Accepted => \A i \in DOMAIN doc.workflows : \A j \in DOMAIN doc.workflows[i].steps :
                doc.workflows[i].steps[j].criteria \in {"absent", "listed"}

\* What is accepted is accepted again after it was written out.
WrittenIsAccepted == written => ~Refused(found)

\* Whatever relies on a document's having been accepted may rely on it.
AcceptanceIsSound ==
  /\ RulesTypeOK /\ AcceptedIsOrdered /\ AcceptedExternal /\ AcceptedShape /\ VersionByValue
  /\ RepetitionReported /\ AcceptedCriteria /\ WrittenIsAccepted
=============================================================================
