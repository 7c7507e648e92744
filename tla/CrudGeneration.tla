----------------------------- MODULE CrudGeneration -----------------------------
(***************************************************************************)
(* The generator of workflows from an OpenAPI document: it refuses what it *)
(* cannot use, groups the operations by the path of their collection, and  *)
(* writes one workflow per group that creates, lists, reads, updates and   *)
(* deletes.  The bodies of its requests are in ExampleValues.              *)
(***************************************************************************)
EXTENDS Integers, Sequences, FiniteSets, SequencesExt

CONSTANTS
  Documents,      (* the OpenAPI documents that are looked at               *)
  PathOrder,      (* the paths of collections, in the order of their text   *)
  Unspeakable,    (* operation ids that no source reference can name        *)
  UnfitSources,   (* source names that no source reference can name         *)
  IdLike          (* property names that look like an id                    *)

VARIABLES
  doc,
  crudPhase,               (* check, ids, collect, group, sort, build, done, refused  *)
  next,                    (* the path item, or the group, at hand                    *)
  warnings,
  collectionOps, itemOps,  (* operations by the path of their collection              *)
  pending,                 (* paths that are not grouped yet: a hash set, in no order *)
  groups,
  workflows

crudVars == <<doc, crudPhase, next, warnings, collectionOps, itemOps, pending, groups, workflows>>

None == "none"
Methods == <<"GET", "POST", "PUT", "PATCH", "DELETE">>
Roles == <<"create", "list", "read", "update", "delete">>
Success(code) == code \in 200..299

CrudInit ==
  /\ doc \in Documents
  /\ crudPhase = "check" /\ next = 1 /\ warnings = {}
  /\ collectionOps = <<>> /\ itemOps = <<>> /\ pending = {}
  /\ groups = <<>> /\ workflows = <<>>

Refuse == crudPhase' = "refused" /\ UNCHANGED <<next, collectionOps, itemOps, pending, groups, workflows>>

(***************************************************************************)
(* What is refused before anything is grouped                              *)
(***************************************************************************)
\* A variable of the server's URL stands for its default.
ServerUrl == IF doc.server.text = "variable" THEN doc.server.default ELSE doc.server.text
ServerFits == ServerUrl = "absolute"

\* The version, and the first server.
Check ==
  /\ crudPhase = "check"
  /\ warnings' = IF doc.version = "2.0" THEN {}
                 ELSE (IF doc.version = "3.1" THEN {<<"version">>} ELSE {})
                        \cup (IF doc.server.text = "variable" THEN {<<"variable">>} ELSE {})
  /\ IF doc.version = "2.0" \/ ~ServerFits
     THEN Refuse
     ELSE crudPhase' = "ids" /\ UNCHANGED <<next, collectionOps, itemOps, pending, groups, workflows>>
  /\ UNCHANGED doc

\* Path items that are references are passed over everywhere.
Items == {i \in DOMAIN doc.paths : ~doc.paths[i].reference}
Declared == {<<i, m>> : i \in Items, m \in {"GET", "POST", "PUT", "PATCH", "DELETE", "HEAD"}}
              \cap UNION {{<<i, m>> : m \in DOMAIN doc.paths[i].ops} : i \in Items}
IdOf(o) == doc.paths[o[1]].ops[o[2]].id
RepeatedId == \E o, p \in Declared : o # p /\ IdOf(o) = IdOf(p) /\ IdOf(o) # None

\* Operation ids are unique, those of methods no workflow uses included.
CheckIds ==
  /\ crudPhase = "ids"
  /\ IF RepeatedId THEN Refuse
     ELSE crudPhase' = "collect" /\ UNCHANGED <<next, collectionOps, itemOps, pending, groups, workflows>>
  /\ UNCHANGED <<doc, warnings>>

(***************************************************************************)
(* Grouping                                                                *)
(***************************************************************************)
Variables(path) == {i \in DOMAIN path : path[i].variable}
Trailing(path) == path # <<>> /\ Last(path).variable
Name(path) ==
  LET literal == {i \in DOMAIN path : ~path[i].variable}
  IN  IF literal = {} THEN "resource" ELSE path[CHOOSE i \in literal : \A k \in literal : k <= i].name

Operations(i) ==
  [k \in DOMAIN SelectSeq(Methods, LAMBDA m : m \in DOMAIN doc.paths[i].ops) |->
     LET m == SelectSeq(Methods, LAMBDA x : x \in DOMAIN doc.paths[i].ops)[k]
     IN  [path |-> doc.paths[i].path, method |-> m, item |-> i]]

Extended(map, key, ops) ==
  [k \in DOMAIN map \cup {key} |-> (IF k \in DOMAIN map THEN map[k] ELSE <<>>)
                                     \o (IF k = key THEN ops ELSE <<>>)]

\* One path item.  A path with two variables or more is left out.
Collect ==
  /\ crudPhase = "collect" /\ next <= Len(doc.paths)
  /\ LET path == doc.paths[next].path
         ops == IF next \in Items THEN Operations(next) ELSE <<>>
         nested == Cardinality(Variables(path)) >= 2
     IN  /\ warnings' = warnings \cup (IF ops # <<>> /\ nested THEN {<<"nested", path>>} ELSE {})
         /\ IF ops = <<>> \/ nested THEN UNCHANGED <<collectionOps, itemOps>>
            ELSE IF Trailing(path)
                 THEN itemOps' = Extended(itemOps, Front(path), ops) /\ UNCHANGED collectionOps
                 ELSE collectionOps' = Extended(collectionOps, path, ops) /\ UNCHANGED itemOps
  /\ next' = next + 1
  /\ UNCHANGED <<doc, crudPhase, pending, groups, workflows>>

Collected ==
  /\ crudPhase = "collect" /\ next > Len(doc.paths)
  /\ crudPhase' = "group" /\ next' = 1
  /\ pending' = DOMAIN collectionOps \cup DOMAIN itemOps
  /\ UNCHANGED <<doc, warnings, collectionOps, itemOps, groups, workflows>>

With(slots, role, op) == [r \in DOMAIN slots \cup {role} |-> IF r = role THEN op ELSE slots[r]]

TakeCollection(slots, op) ==
  CASE op.method = "POST" -> With(slots, "create", op)
    [] op.method = "GET"  -> With(slots, "list", op)
    [] OTHER              -> slots

\* A PUT is preferred over a PATCH, in whichever order they come.
TakeItem(slots, op) ==
  CASE op.method = "GET"    -> With(slots, "read", op)
    [] op.method = "PUT"    -> With(slots, "update", op)
    [] op.method = "PATCH" /\ "update" \notin DOMAIN slots -> With(slots, "update", op)
    [] op.method = "DELETE" -> With(slots, "delete", op)
    [] OTHER                -> slots

Ops(map, path) == IF path \in DOMAIN map THEN map[path] ELSE <<>>
Group(path) ==
  LET items == Ops(itemOps, path)
  IN  [path |-> path, name |-> Name(path),
       idParam |-> IF items = <<>> THEN None ELSE Last(items[1].path).name,
       slots |-> FoldLeft(TakeItem, FoldLeft(TakeCollection, <<>>, Ops(collectionOps, path)), items)]

Enough(group) == Cardinality(DOMAIN group.slots) >= 2

\* The paths come out of a hash set.
GroupOne(path) ==
  /\ crudPhase = "group" /\ path \in pending
  /\ pending' = pending \ {path}
  /\ groups' = IF Enough(Group(path)) THEN Append(groups, Group(path)) ELSE groups
  /\ UNCHANGED <<doc, crudPhase, next, warnings, collectionOps, itemOps, workflows>>

Rank(path) == CHOOSE i \in DOMAIN PathOrder : PathOrder[i] = path

Sorted(s) == SortSeq(s, LAMBDA a, b : Rank(a.path) < Rank(b.path))

SortGroups ==
  /\ crudPhase = "group" /\ pending = {}
  /\ IF groups = <<>> THEN Refuse
     ELSE /\ groups' = Sorted(groups) /\ crudPhase' = "build"
          /\ UNCHANGED <<next, collectionOps, itemOps, pending, workflows>>
  /\ UNCHANGED <<doc, warnings>>

(***************************************************************************)
(* One workflow per group                                                  *)
(***************************************************************************)
\* A key that is kept under its own name; a token; credentials.
Auth ==
  CASE doc.auth.kind = "apiKey" -> {doc.auth.scheme}
    [] doc.auth.kind = "bearer" -> {"token"}
    [] doc.auth.kind = "basic"  -> {"credentials"}
    [] OTHER                    -> {}

Op(o) == doc.paths[o.item].ops[o.method]

\* The title with its separators folded, or the stem of the file's name.
SourceName == IF doc.title \in {"empty", "long"} THEN doc.stem ELSE doc.title

\* The first success response decides, whatever its content.
\* A property is "" where the response is no JSON object that resolves.
RECURSIVE IdInResponses(_)
IdInResponses(responses) ==
  IF responses = <<>> THEN None
  ELSE LET first == Head(responses)
       IN  IF ~Success(first.code) THEN IdInResponses(Tail(responses))
           ELSE IF first.content # "object" THEN None
           ELSE IF first.property \in IdLike THEN first.property
           ELSE IdInResponses(Tail(responses))

IdParam(group) == IF group.idParam = None THEN "id" ELSE group.idParam
IdField(group) ==
  IF "create" \in DOMAIN group.slots /\ IdInResponses(Op(group.slots["create"]).responses) # None
  THEN IdInResponses(Op(group.slots["create"]).responses)
  ELSE IdParam(group)

Lowest(codes) == CHOOSE c \in codes : \A k \in codes : c <= k

StatusCode(method, responses) ==
  LET codes == {c \in {responses[i].code : i \in DOMAIN responses} : Success(c)}
      usual == CASE method = "POST" -> 201 [] method = "DELETE" -> 204 [] OTHER -> 200
  IN  IF codes = {} THEN usual
      ELSE IF method \in {"POST", "DELETE"} /\ usual \in codes THEN usual
      ELSE Lowest(codes)

\* An id that a reference can name, or the operation's place in the document.
Target(o) ==
  IF Op(o).id # None /\ Op(o).id \notin Unspeakable
  THEN [kind |-> "operationId", id |-> Op(o).id]
  ELSE [kind |-> "operationPath", path |-> o.path, method |-> o.method]

HasCreate(group) == "create" \in DOMAIN group.slots
IdValue(group) == IF HasCreate(group) THEN [from |-> "create", name |-> IdField(group)]
                                      ELSE [from |-> "inputs", name |-> IdParam(group)]
CrudStep(group, role) ==
  LET o == group.slots[role]
  IN  [role |-> role, path |-> o.path, method |-> o.method, target |-> Target(o),
       code |-> StatusCode(o.method, Op(o).responses),
       outputs |-> IF role = "create" THEN {IdField(group)} ELSE {},
       parameters |-> IF role \in {"read", "update", "delete"} /\ group.idParam # None
                      THEN <<[name |-> group.idParam, value |-> IdValue(group)]>> ELSE <<>>]

StepsOf(group) ==
  LET roles == SelectSeq(Roles, LAMBDA r : r \in DOMAIN group.slots)
  IN  [k \in DOMAIN roles |-> CrudStep(group, roles[k])]

CrudWorkflow(group) ==
  [id |-> group.name,
   inputs |-> Auth \cup IF ~HasCreate(group) /\ group.idParam # None THEN {IdParam(group)} ELSE {},
   steps |-> StepsOf(group),
   outputs |-> IF HasCreate(group) THEN {IdField(group)} ELSE {}]

\* A source whose name no target can hold refuses the whole document.
CrudBuild ==
  /\ crudPhase = "build" /\ next <= Len(groups)
  /\ IF SourceName \in UnfitSources THEN Refuse
     ELSE /\ workflows' = Append(workflows, CrudWorkflow(groups[next]))
          /\ next' = next + 1
          /\ UNCHANGED <<crudPhase, collectionOps, itemOps, pending, groups>>
  /\ UNCHANGED <<doc, warnings>>

CrudFinish ==
  /\ crudPhase = "build" /\ next > Len(groups)
  /\ crudPhase' = "done"
  /\ UNCHANGED <<doc, next, warnings, collectionOps, itemOps, pending, groups, workflows>>

CrudNext == Check \/ CheckIds \/ Collect \/ Collected \/ (\E path \in pending : GroupOne(path))
        \/ SortGroups \/ CrudBuild \/ CrudFinish

CrudSpec == CrudInit /\ [][CrudNext]_crudVars

(***************************************************************************)
(* Properties                                                              *)
(***************************************************************************)
CrudSteps == UNION {{workflows[w].steps[s] : s \in DOMAIN workflows[w].steps} : w \in DOMAIN workflows}

\* Every part of the state has its shape, and a group's steps come from it.
CrudTypeOK ==
  /\ crudPhase \in {"check", "ids", "collect", "group", "build", "done", "refused"}
  /\ \A map \in {collectionOps, itemOps} : \A p \in DOMAIN map : map[p] # <<>>
  /\ pending \subseteq DOMAIN collectionOps \cup DOMAIN itemOps
  /\ \A i \in DOMAIN groups : DOMAIN groups[i].slots \subseteq Range(Roles)
  /\ crudPhase = "done" => Len(workflows) = Len(groups)
  /\ \A s \in CrudSteps : s.code \in 200..299 /\ s.method \in Range(Methods)

\* The paths that have two uses or more, in the order of their text.
UsesOf(path) ==
  LET of == {o \in Declared : LET q == doc.paths[o[1]].path
               IN  /\ Cardinality(Variables(q)) <= 1
                   /\ IF Trailing(q) THEN Front(q) = path /\ o[2] \in {"GET", "PUT", "PATCH", "DELETE"}
                                     ELSE q = path /\ o[2] \in {"GET", "POST"}}
  IN  {<<Trailing(doc.paths[o[1]].path), IF o[2] = "PATCH" THEN "PUT" ELSE o[2]>> : o \in of}
UsedPaths == SelectSeq(PathOrder, LAMBDA path : Cardinality(UsesOf(path)) >= 2)

\* The order the hash set gives the paths in does not reach the document: the
\* workflows are those of the used paths, in the order of the paths' text
\* (group_resources).
OrderDoesNotShow ==
  crudPhase = "done" =>
    /\ Len(workflows) = Len(UsedPaths)
    /\ \A k \in DOMAIN UsedPaths : groups[k].path = UsedPaths[k] /\ workflows[k].id = Name(UsedPaths[k])

\* No operation is performed by two steps, one that is left out is performed
\* by none, and where both methods update an item it is PUT that does.
OperationsOnce ==
  crudPhase = "done" =>
    /\ \A v, w \in DOMAIN workflows : \A s \in DOMAIN workflows[v].steps, t \in DOMAIN workflows[w].steps :
         workflows[v].steps[s].path = workflows[w].steps[t].path
           /\ workflows[v].steps[s].method = workflows[w].steps[t].method => <<v, s>> = <<w, t>>
    /\ \A s \in CrudSteps : Cardinality(Variables(s.path)) <= 1
    /\ \A s \in CrudSteps : s.method = "PATCH" =>
         \A o \in Declared : doc.paths[o[1]].path = s.path => o[2] # "PUT"

\* The target a step is given leads to the operation its method and path name:
\* no other operation has that id, and a place is the operation's own.
TargetIsTheOperation ==
  \A s \in CrudSteps :
    IF s.target.kind = "operationId"
    THEN {<<doc.paths[o[1]].path, o[2]>> : o \in {p \in Declared : IdOf(p) = s.target.id}} = {<<s.path, s.method>>}
    ELSE s.target.path = s.path /\ s.target.method = s.method

\* A step waits for a code its operation declares, where that declares any success.
WaitsForDeclared ==
  \A s \in CrudSteps : \A o \in Declared :
    doc.paths[o[1]].path = s.path /\ o[2] = s.method =>
      LET codes == {doc.paths[o[1]].ops[o[2]].responses[i].code : i \in DOMAIN doc.paths[o[1]].ops[o[2]].responses}
      IN  (\E c \in codes : Success(c)) => s.code \in codes

Readable(w, s, value) ==
  \/ value.from = "inputs" /\ value.name \in workflows[w].inputs
  \/ value.from = "create" /\ \E t \in 1..(s - 1) :
       workflows[w].steps[t].role = "create" /\ value.name \in workflows[w].steps[t].outputs

FillsVariables(w, s) ==
  LET step == workflows[w].steps[s]
  IN  \A i \in Variables(step.path) :
        \E p \in DOMAIN step.parameters :
          /\ step.parameters[p].name = step.path[i].name
          /\ Readable(w, s, step.parameters[p].value)

\* Every variable at the end of a step's path is filled, by an input the
\* workflow declares or by what a step before it puts out, as long as the items
\* of a collection are all at one path (find_id_field, build_workflow).
ItemIsNamed ==
  \A w \in DOMAIN workflows : \A s \in DOMAIN workflows[w].steps :
    LET path == workflows[w].steps[s].path
    IN  Trailing(path) /\ (\A i, k \in Items : LET p == doc.paths[i].path q == doc.paths[k].path
                             IN  Trailing(p) /\ Trailing(q) /\ Front(p) = Front(q) => p = q)
          => FillsVariables(w, s)

\* What is refused: another version, no absolute server, an id that is there
\* twice, a document with no group, and a source that no target can name.
RefusedForCause ==
  crudPhase = "refused" =>
    \/ doc.version = "2.0" \/ ServerUrl # "absolute"
    \/ \E o, p \in Declared : o # p /\ IdOf(o) = IdOf(p) /\ IdOf(o) # None
    \/ UsedPaths = <<>>
    \/ SourceName \in UnfitSources

\* What is built comes of a document that could be: its server is one a request
\* can be sent to, and no two of its operations have the same id.
BuiltIsUsable ==
  workflows # <<>> =>
    /\ doc.version # "2.0"
    /\ doc.server.text = "absolute" \/ doc.server = [text |-> "variable", default |-> "absolute"]
    /\ \A o, p \in Declared : IdOf(o) # None /\ IdOf(o) = IdOf(p) => o = p

\* What is generated names operations of the document, and can be run (generate_crud).
WorkflowsAreUsable ==
  /\ CrudTypeOK /\ OrderDoesNotShow /\ OperationsOnce /\ TargetIsTheOperation /\ WaitsForDeclared
  /\ ItemIsNamed /\ RefusedForCause /\ BuiltIsUsable
==================================================================================
