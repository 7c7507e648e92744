------------------------------ MODULE MCCommands ------------------------------
(***************************************************************************)
(* The ways into the engine and what they report, for TLC: the MCP server, *)
(* the test and the run command, single steps, replay, and the generator   *)
(* of documents.  A behaviour is one of these at work, the others stay at  *)
(* a first state of theirs.                                                *)
(***************************************************************************)
EXTENDS McpServer, SingleStep, Replay, TestRunner, RunCommand, CrudGeneration, SourceUrl, ExampleValues, TLC

VARIABLE part      (* the component at work                                *)

vars == <<mcpVars, singleVars, replayVars, testsVars, runVars, crudVars, urlVars, exampleVars, part>>

(***************************************************************************)
(* The server: up to four pieces of input, each an object, a frame, a      *)
(* blank line or garbage.                                                  *)
(***************************************************************************)
Ping == [method |-> "ping", answered |-> TRUE, tool |-> "", workflow |-> "", path |-> ""]
ToolCall == [Ping EXCEPT !.method = "tools/call"]

MCRequests == <<
  Ping,
  [Ping EXCEPT !.method = "notifications/initialized", !.answered = FALSE],
  [Ping EXCEPT !.method = "malformed"],
  [Ping EXCEPT !.method = "unknown"],
  [ToolCall EXCEPT !.tool = "run_workflow", !.workflow = "w"],
  [ToolCall EXCEPT !.tool = "run_workflow", !.workflow = "twice"],
  [ToolCall EXCEPT !.tool = "run_workflow", !.workflow = "mixed"],
  [ToolCall EXCEPT !.tool = "file", !.path = "inside"],
  [ToolCall EXCEPT !.tool = "file", !.path = "outside"],
  [ToolCall EXCEPT !.tool = "other"],
  [ToolCall EXCEPT !.tool = "describe_workflow", !.workflow = "w"],
  [ToolCall EXCEPT !.tool = "list_workflows"]>>

MCSpecs == << [workflows |-> <<"w", "twice">>, sources |-> {"inside"}],
              [workflows |-> <<"twice">>, sources |-> {}],
              [workflows |-> <<"mixed">>, sources |-> {"inside", "outside"}] >>

Object(id) == <<[kind |-> "object", id |-> id]>>
Plainly(kind) == [kind |-> kind]
Frame(id) == <<Plainly("length"), Plainly("blank"), [kind |-> "body", id |-> id]>>
TypedFrame(id) == <<Plainly("text"), Plainly("length"), Plainly("blank"), [kind |-> "body", id |-> id]>>
Cut == <<Plainly("length"), Plainly("blank")>>
Sane == {Object(i) : i \in DOMAIN MCRequests} \union {Frame(1), Frame(3), Frame(7), TypedFrame(2), <<Plainly("blank")>>}
Garbage == {<<Plainly("text")>>, <<Plainly("badLength")>>, <<Plainly("text"), Plainly("blank")>>}
Endings == {Object(1), Object(7), Frame(8), Cut}

MCInputs == {<<a, b, c>> : a, b \in Sane, c \in Endings}
              \union {<<a, g, b, Object(1)>> : a, b \in {Object(1), Object(3), Object(5), Frame(1), TypedFrame(2)}, g \in Garbage}

(***************************************************************************)
(* Single steps: three steps, any of which may read any, itself and one    *)
(* that does not exist included; and actions that redirect or retry.       *)
(***************************************************************************)
base == [type |-> "end", guarded |-> TRUE, step |-> 0, workflow |-> NoWorkflow,
         limit |-> 1, delay |-> "zero"]
retry == [base EXCEPT !.type = "retry"]
goto(i) == [base EXCEPT !.type = "goto", !.step = i]

Doing(success, failure) ==
  [target |-> NoWorkflow, onSuccess |-> success, onFailure |-> failure]
Flow(steps) ==
  [steps |-> steps, onSuccess |-> <<>>, onFailure |-> <<retry>>, dependsOn |-> {},
   receives |-> FALSE]

Straight == Flow(<<Doing(<<>>, <<>>), Doing(<<>>, <<>>), Doing(<<>>, <<>>)>>)
Going == {Flow(<<Doing(s, <<>>), Doing(<<>>, f), Doing(<<>>, <<>>)>>) :
            s \in {<<goto(3)>>, <<goto(2)>>, <<base>>}, f \in {<<goto(1)>>, <<base>>}}

ReadGraphs == {<<r1, r2, r3>> : r1 \in SUBSET (0 .. 3), r2 \in SUBSET (1 .. 3), r3 \in SUBSET {1, 2} \union {{3}}}
Backwards == {<<{}, r2, r3>> : r2 \in SUBSET {1}, r3 \in SUBSET {1, 2}}

\* What a step refers to at one place.
RefsAt(place, ids) == [[p \in RefPlaces |-> {}] EXCEPT ![place] = ids]
Running(graph) == [i \in DOMAIN graph |-> RefsAt("run", graph[i])]

\* The last step refers to the second one at any place, and that to the first one; the
\* id of the second may be odd.
Placed ==
  {[workflow |-> Straight, refs |-> <<RefsAt("run", {}), RefsAt(p, {1}), RefsAt(q, {2})>>, odd |-> odd] :
     p \in {"run", "context"}, q \in RefPlaces, odd \in {{}, {2}}}

MCPlans ==
  {[workflow |-> Straight, refs |-> Running(g), odd |-> {}] : g \in ReadGraphs}
    \union {[workflow |-> f, refs |-> Running(g), odd |-> {}] : f \in Going, g \in Backwards}
    \union Placed

(***************************************************************************)
(* Replay: a request that the trace has as it is, and one of which it has  *)
(* what is left when its secret is masked, which is the other request.     *)
(***************************************************************************)
MCAsWritten == [q \in ReplayRequests |-> "open"]

(***************************************************************************)
(* The test command: one file with every graph of dependencies on three    *)
(* workflows, and runs of several files, some of which cannot be run.      *)
(***************************************************************************)
Suite(deps, selected) == [parses |-> TRUE, builds |-> TRUE, deps |-> deps, selected |-> selected]

CasePlans == {<<Suite(<<d1, d2, d3>>, f)>> :
                d1 \in SUBSET {2, 3} \union {{1}}, d2 \in SUBSET {1, 3}, d3 \in SUBSET {1, 2}, f \in {1 .. 3, {1, 3}}}
               \union {<<Suite(<<{0}, {1}>>, f)>> : f \in {{1}, {2}, {1, 2}}}

Chain == Suite(<<{}, {1}>>, {1, 2})
Single == Suite(<<{}>>, {1})
MCRuns == {<<a, b, c>> : a, b \in {Chain, [Single EXCEPT !.parses = FALSE], [Single EXCEPT !.builds = FALSE]},
                         c \in {Single, Suite(<<{1}>>, {1})}}
            \union CasePlans

(***************************************************************************)
(* The run command: a description, an OpenAPI file, a source and two more  *)
(* files, some with two names; a trace may be asked for at an input.       *)
(***************************************************************************)
MCFiles == {{"spec", "linked/spec"}, {"openapi"}, {"source", "SOURCE"}, {"a", "linked/a"}, {"b"}}
MCLines ==
  {[spec |-> "spec", openapi |-> "openapi", source |-> "source", trace |-> t, export |-> e,
    strict |-> b, dryRun |-> ~b] :
     t \in {NoPath, "a", "openapi", "linked/spec"}, e \in {NoPath, "a", "linked/a", "b", "openapi", "linked/spec", "SOURCE"}, b \in BOOLEAN}

(***************************************************************************)
(* The generator: documents of up to three paths, a collection, its item   *)
(* under two names, the same resource elsewhere, one below another and a   *)
(* nested item; then every set of methods, every pair of responses, ids,   *)
(* servers and versions.                                                   *)
(***************************************************************************)
Literal(name) == [variable |-> FALSE, name |-> name]
Variable(name) == [variable |-> TRUE, name |-> name]

ItemsPath == <<Literal("items")>>
AdminPath == <<Literal("admin"), Literal("items")>>
BelowPath == <<Literal("items"), Variable("id"), Literal("parts")>>
ItemPath == Append(ItemsPath, Variable("id"))
MCPathOrder == <<<<>>, AdminPath, ItemsPath, BelowPath>>

Response(c, content, property) == [code |-> c, content |-> content, property |-> property]
OperationOf(id) == [id |-> id, responses |-> <<Response(201, "object", "id")>>]
PathItem(path, methods) == [path |-> path, reference |-> FALSE, ops |-> [m \in methods |-> OperationOf(None)]]

Api == [version |-> "3.0.3", server |-> [text |-> "absolute", default |-> "absolute"], title |-> "api",
        stem |-> "file", auth |-> [kind |-> "none", scheme |-> "key"]]
WithPaths(paths) == [paths |-> paths] @@ Api

Collections == {PathItem(p, m) : p \in {<<>>, ItemsPath, AdminPath, BelowPath}, m \in {{"GET", "POST"}, {"GET"}}}
ItemPaths == {PathItem(p, m) : p \in {<<Variable("id")>>, ItemPath, Append(ItemsPath, Variable("key")),
                                      Append(AdminPath, Variable("id")), Append(BelowPath, Variable("part"))},
                               m \in {{"GET", "DELETE"}, {"PATCH", "PUT"}}}
Few == {<<p>> : p \in Collections \union ItemPaths}
         \union {<<p, q>> : p \in Collections \union ItemPaths, q \in Collections \union ItemPaths}
Threes == {<<p, q, r>> : p \in Collections, q \in ItemPaths, r \in Collections \union ItemPaths}
DistinctPaths(paths) == \A i, k \in DOMAIN paths : paths[i].path = paths[k].path => i = k
Shapes == {WithPaths(paths) : paths \in {q \in Few \union Threes : DistinctPaths(q)}}

EveryMethod ==
  {WithPaths(<<PathItem(ItemsPath, c), PathItem(ItemPath, m)>>) :
     c \in SUBSET {"GET", "POST", "PUT"}, m \in SUBSET {"GET", "PUT", "PATCH", "DELETE", "POST"}}

Responses == {Response(c, content, p) : c \in {200, 201, 202, 404}, content \in {"object", "other"}, p \in {"id", "label", "ownerId"}}
EveryResponse ==
  {WithPaths(<<[path |-> ItemsPath, reference |-> FALSE,
                ops |-> [m \in {"GET", "POST"} |-> [id |-> None, responses |-> rs]]],
               PathItem(ItemPath, {"GET"})>>) :
     rs \in {<<>>} \union {<<r>> : r \in Responses} \union {<<r, t>> : r \in Responses, t \in {u \in Responses : u.code # 201}}}
CodesOnce(d) == LET rs == d.paths[1].ops["POST"].responses IN \A i, k \in DOMAIN rs : rs[i].code = rs[k].code => i = k

EveryId ==
  {WithPaths(<<[path |-> ItemsPath, reference |-> ref,
                ops |-> ("GET" :> OperationOf(a)) @@ ("HEAD" :> OperationOf(b)) @@ ("POST" :> OperationOf(c))],
               [path |-> ItemPath, reference |-> FALSE, ops |-> ("GET" :> OperationOf(d)) @@ ("DELETE" :> OperationOf(None))]>>) :
     a \in {None, "a", "a b"}, b \in {None, "a", "b"}, c \in {None, "b", "a b"}, d \in {None, "a", "d"}, ref \in BOOLEAN}

EverySetting ==
  {[version |-> v, server |-> [text |-> t, default |-> f], title |-> title, stem |-> stem,
    auth |-> [kind |-> kind, scheme |-> scheme],
    paths |-> <<PathItem(ItemsPath, {"GET"}), PathItem(ItemPath, {"GET"})>>] :
     v \in {"2.0", "3.0.3", "3.1"}, t \in {"none", "empty", "relative", "absolute", "variable"}, f \in {"relative", "absolute"},
     title \in {"api", "empty", "long", "unfit"}, stem \in {"file", "unfit"}, kind \in {"none", "apiKey", "bearer", "basic", "oauth2"},
     scheme \in {"id", "key"}}

MCApis == Shapes \union EveryMethod \union {d \in EveryResponse : CodesOnce(d)} \union EveryId \union EverySetting

(***************************************************************************)
(* The url of the source: four directories, a link to one of them at the   *)
(* root and one below, and every spelling of up to three components.       *)
(***************************************************************************)
MCDirectories == {Root, <<"a">>, <<"a", "b">>, <<"c">>}
MCLinks == (<<"l">> :> <<"a", "b">>) @@ (<<"c", "m">> :> <<"a">>)
MCAsUrl == [n \in {"a", "b", "c", "l", "m", "f", "p:q", "r%41", "rA"} |-> IF n = "r%41" THEN "rA" ELSE n]

Names == {"a", "b", "c", "l", "m", ".."}
Spelled == {<<>>} \union {<<x>> : x \in Names} \union {<<x, y>> : x \in Names, y \in Names}
             \union {<<x, y, z>> : x \in Names, y \in Names, z \in Names}
PathsOfDirectories == {p \in Spelled : Walk(p) \in Directories}
Spellings == {[relative |-> r, path |-> p] : r \in BOOLEAN, p \in {q \in Spelled : Len(q) <= 2}}

PlaceFrom(cwd, spelling) == IF spelling.relative THEN Walk(cwd \o spelling.path) ELSE Walk(spelling.path)
MCUrls ==
  {r \in [spec : {[relative |-> x.relative, path |-> Append(x.path, "f")] : x \in Spellings},
          output : Spellings, reader : {[relative |-> FALSE, path |-> p] : p \in PathsOfDirectories}, cwd : {<<"a", "b">>}] :
     PlaceFrom(r.cwd, r.output) \in {Nothing, Walk(r.reader.path)}
       /\ (PlaceFrom(r.cwd, r.output) = Nothing => r.reader.path = <<>>)}
  \union {[spec |-> [relative |-> FALSE, path |-> <<d, n>>], cwd |-> Root,
           output |-> [relative |-> FALSE, path |-> <<e>>], reader |-> [relative |-> FALSE, path |-> <<e>>]] :
            d \in {"a", "c", "z"}, e \in {"a", "c"}, n \in {"p:q", "r%41", "rA", "f", "x"}}

(***************************************************************************)
(* Examples: every number and text with bounds around 1 and around the     *)
(* length of the text; objects and arrays of some of them; and schemas     *)
(* that refer to themselves, to each other, and to nothing; and schemas    *)
(* with keywords that nothing looks at.                                    *)
(***************************************************************************)
Ungiven == [example |-> <<>>, default |-> <<>>]
Bound == {<<>>, <<-1>>, <<0>>, <<1>>, <<3>>}
Num(kind, min, max, a, b) == [kind |-> kind, min |-> min, max |-> max, aboveMin |-> a, belowMax |-> b,
                                multipleOf |-> <<>>, enum |-> <<>>] @@ Ungiven
Str(format, min, max) == [kind |-> "string", format |-> format, min |-> min, max |-> max, pattern |-> FALSE, enum |-> <<>>] @@ Ungiven
Bool == [kind |-> "boolean", enum |-> <<>>] @@ Ungiven
Arr(items, minItems) == [kind |-> "array", items |-> items, minItems |-> minItems, maxItems |-> <<>>,
                        uniqueItems |-> FALSE] @@ Ungiven
Obj(kind, names, properties, required) ==
  [kind |-> kind, order |-> names, properties |-> properties, required |-> required, least |-> <<>>, most |-> <<>>] @@ Ungiven
SchemaRef(name) == [kind |-> "ref", name |-> name]
Composite == [kind |-> "composite"] @@ Ungiven
Simple == Num("integer", <<>>, <<>>, FALSE, FALSE)
Given(x, e, d) == [x EXCEPT !.example = e, !.default = d]

MCNameOrder == <<"a", "b", "c", "d", "e", "f", "g">>
MCNaturalLength == [f \in {"date", "other"} |-> IF f = "date" THEN 4 ELSE 2]

Numbers == {Num(k, mn, mx, a, b) : k \in {"integer", "number"}, mn \in Bound, mx \in Bound, a \in BOOLEAN, b \in BOOLEAN}
Texts == {Str(f, mn, mx) : f \in {"date", "other"}, mn \in {<<>>, <<0>>, <<3>>, <<6>>}, mx \in {<<>>, <<1>>, <<3>>, <<9>>}}
Enums == {[Simple EXCEPT !.enum = <<Number("integer", 7), Number("integer", 8)>>], [Bool EXCEPT !.enum = <<[is |-> "boolean", v |-> FALSE]>>],
          [Str("date", <<>>, <<1>>) EXCEPT !.enum = <<Text(3)>>]}
Givens == {Given(x, e, d) : x \in {Simple, Bool, Str("date", <<6>>, <<>>), Composite},
                            e \in {<<>>, <<Text(8)>>}, d \in {<<>>, <<Number("integer", 9)>>}}
Leaves == {Simple, Bool, Str("other", <<3>>, <<>>), Composite, SchemaRef("Node"), SchemaRef("Loop"), SchemaRef("None"),
           Arr(<<>>, <<>>), SchemaRef("Alias")}
Arrays == {Arr(<<x>>, m) : x \in Leaves, m \in {<<>>, <<0>>, <<1>>, <<3>>, <<9>>}} \union {Arr(<<Arr(<<Simple>>, <<2>>)>>, <<3>>)}
Unread == {[Num("integer", <<mn>>, <<>>, FALSE, FALSE) EXCEPT !.multipleOf = <<2>>] : mn \in {1, 2}}
            \union {[Str("other", <<>>, <<>>) EXCEPT !.pattern = TRUE]}
            \union {[Arr(<<Simple>>, <<m>>) EXCEPT !.maxItems = <<t>>, !.uniqueItems = u] : m \in {0, 3}, t \in {0, 3}, u \in BOOLEAN}
            \union {[Obj("object", <<"a", "b">>, ("a" :> Simple) @@ ("b" :> Simple), {"a"}) EXCEPT !.least = <<l>>, !.most = <<m>>] :
                       l \in {1, 3}, m \in {1, 3}}
Seven == [n \in Range(MCNameOrder) |-> Simple]
Wide == {Obj(k, o, Seven, r) : k \in {"object", "any"}, o \in {MCNameOrder, Reverse(MCNameOrder)},
                               r \in {{}, {"g"}, {"a", "z"}, {"b", "c", "d", "e", "f", "g"}}}
Small == {Obj("object", <<"a", "b">>, ("a" :> x) @@ ("b" :> y), r) : x \in Leaves, y \in Leaves, r \in {{}, {"b"}, {"a", "z"}}}
Empty == {Obj(k, <<>>, <<>>, {}) : k \in {"object", "any"}}
Deep == {Obj("object", <<"a">>, "a" :> x, {"a"}) : x \in Small}
Schemas == Numbers \union Texts \union Enums \union Givens \union Leaves \union Arrays \union Unread \union Wide \union Small \union Empty \union Deep

MCComponents ==
  ("Node" :> Obj("object", <<"a", "b">>, ("a" :> SchemaRef("Node")) @@ ("b" :> Arr(<<SchemaRef("Node")>>, <<2>>)), {"b"}))
    @@ ("Loop" :> SchemaRef("Pool")) @@ ("Pool" :> SchemaRef("Loop")) @@ ("Alias" :> SchemaRef("Simple")) @@ ("Simple" :> Simple)
MCExamples == {[schema |-> x, components |-> MCComponents] : x \in Schemas}

(***************************************************************************)
(* One component at work                                                   *)
(***************************************************************************)
IdleMcp ==
  /\ input = <<>> /\ readAt = <<1, 1>> /\ reading = "start" /\ length = FALSE /\ channel = <<>>
  /\ serving = "idle" /\ current = Message(0, 0) /\ answer = "none" /\ sent = <<>> /\ opened = {} /\ broken = FALSE
IdleSingle ==
  /\ plan = [workflow |-> Straight, refs |-> Running(<<{}, {}, {}>>), odd |-> {}] /\ target = 1 /\ noDeps = FALSE
  /\ singlePc = "search" /\ queue = <<1>> /\ visited = {} /\ scope = <<>> /\ cursor = 1
  /\ left = 0 /\ counts = [x \in Sites |-> 0] /\ ran = <<>> /\ cancelled = FALSE /\ outcome = "none"
IdleReplay ==
  /\ stage = "live" /\ asks = [i \in ReplaySteps |-> CHOOSE r \in ReplayRequests : TRUE]
  /\ limit = 1 /\ tolerant = FALSE /\ done = [i \in ReplaySteps |-> <<>>] /\ live = done
  /\ buffers = done /\ merged = 0 /\ trace = <<>> /\ loaded = 0 /\ queues = done /\ held = done
  /\ answered = done /\ changed = FALSE
IdleTests ==
  /\ files = <<Single>> /\ failFast = FALSE /\ strict = FALSE /\ at = 1 /\ testsPc = "parse"
  /\ remaining = {} /\ order = <<>> /\ position = 1
  /\ summary = [tests |-> 0, pass |-> 0, fail |-> 0, error |-> 0, suites |-> 0]
  /\ cases = <<>> /\ completed = {} /\ bail = FALSE /\ warned = {} /\ used = {} /\ notes = <<>>
IdleRun ==
  /\ line = [spec |-> "spec", openapi |-> "openapi", source |-> "source", trace |-> NoPath, export |-> NoPath,
             strict |-> TRUE, dryRun |-> FALSE]
  /\ runPc = "destination" /\ runError = "none" /\ traceError = "none" /\ exportError = "none"
  /\ diagnostics = FALSE /\ temp = [x \in Artifacts |-> "none"]
  /\ disk = [f \in RunFiles |-> IF f \intersect {"spec", "openapi", "source"} # {} THEN "input" ELSE Absent]
  /\ shown = "nothing" /\ code = "none" /\ causes = <<>>
IdleCrud ==
  /\ doc = WithPaths(<<PathItem(ItemsPath, {"GET"})>>) /\ crudPhase = "check" /\ next = 1
  /\ warnings = {} /\ collectionOps = <<>> /\ itemOps = <<>> /\ pending = {} /\ groups = <<>> /\ workflows = <<>>
IdleUrl ==
  /\ urlRequest = [spec |-> [relative |-> FALSE, path |-> <<"a", "f">>], cwd |-> Root,
                   output |-> [relative |-> FALSE, path |-> <<"a">>], reader |-> [relative |-> FALSE, path |-> <<"a">>]]
  /\ urlPhase = "resolve" /\ spec = Root /\ output = Root /\ url = <<>> /\ urlOpened = Nothing
IdleExample ==
  /\ exampleRequest = [schema |-> Simple, components |-> MCComponents]
  /\ examplePhase = "typed" /\ typed = Null /\ plain = Null /\ described = "none"

CommandsInit ==
  \/ part = "mcp" /\ McpInit /\ IdleSingle /\ IdleReplay /\ IdleTests /\ IdleRun /\ IdleCrud /\ IdleUrl /\ IdleExample
  \/ part = "single" /\ IdleMcp /\ SingleInit /\ IdleReplay /\ IdleTests /\ IdleRun /\ IdleCrud /\ IdleUrl /\ IdleExample
  \/ part = "replay" /\ IdleMcp /\ IdleSingle /\ ReplayInit /\ IdleTests /\ IdleRun /\ IdleCrud /\ IdleUrl /\ IdleExample
  \/ part = "tests" /\ IdleMcp /\ IdleSingle /\ IdleReplay /\ TestsInit /\ IdleRun /\ IdleCrud /\ IdleUrl /\ IdleExample
  \/ part = "run" /\ IdleMcp /\ IdleSingle /\ IdleReplay /\ IdleTests /\ RunInit /\ IdleCrud /\ IdleUrl /\ IdleExample
  \/ part = "crud" /\ IdleMcp /\ IdleSingle /\ IdleReplay /\ IdleTests /\ IdleRun /\ CrudInit /\ IdleUrl /\ IdleExample
  \/ part = "url" /\ IdleMcp /\ IdleSingle /\ IdleReplay /\ IdleTests /\ IdleRun /\ IdleCrud /\ UrlInit /\ IdleExample
  \/ part = "example" /\ IdleMcp /\ IdleSingle /\ IdleReplay /\ IdleTests /\ IdleRun /\ IdleCrud /\ IdleUrl /\ ExampleInit

CommandsNext ==
  \/ part = "mcp" /\ McpNext
     /\ UNCHANGED <<singleVars, replayVars, testsVars, runVars, crudVars, urlVars, exampleVars, part>>
  \/ part = "single" /\ SingleNext
     /\ UNCHANGED <<mcpVars, replayVars, testsVars, runVars, crudVars, urlVars, exampleVars, part>>
  \/ part = "replay" /\ ReplayNext
     /\ UNCHANGED <<mcpVars, singleVars, testsVars, runVars, crudVars, urlVars, exampleVars, part>>
  \/ part = "tests" /\ TestsNext
     /\ UNCHANGED <<mcpVars, singleVars, replayVars, runVars, crudVars, urlVars, exampleVars, part>>
  \/ part = "run" /\ RunNext
     /\ UNCHANGED <<mcpVars, singleVars, replayVars, testsVars, crudVars, urlVars, exampleVars, part>>
  \/ part = "crud" /\ CrudNext
     /\ UNCHANGED <<mcpVars, singleVars, replayVars, testsVars, runVars, urlVars, exampleVars, part>>
  \/ part = "url" /\ UrlNext
     /\ UNCHANGED <<mcpVars, singleVars, replayVars, testsVars, runVars, crudVars, exampleVars, part>>
  \/ part = "example" /\ ExampleNext
     /\ UNCHANGED <<mcpVars, singleVars, replayVars, testsVars, runVars, crudVars, urlVars, part>>

CommandsSpec == CommandsInit /\ [][CommandsNext]_vars

=============================================================================
