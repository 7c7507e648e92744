-------------------------------- MODULE TestRunner --------------------------------
(***************************************************************************)
(* The test command: the workflows of each file are planned in an order of *)
(* their dependencies and run one after the other, those that completed    *)
(* before being handed to the engine; the results are summed up.  The run  *)
(* command stands beside it.                                               *)
(***************************************************************************)
EXTENDS RunCommand, FiniteSetsExt, SequencesExt

CONSTANTS
  Runs,          (* sequences of files, each with its workflows            *)
  Hosts,         (* hosts that requests are sent to in clear text          *)
  Excepted       (* the hosts for which an exception is configured         *)

\* A file: whether it parses and its engine can be built, the dependencies of its
\* workflows, and the selected ones.  0 stands for a dependency that is external,
\* invalid or unknown.
ASSUME TestAssumption ==
  /\ Excepted \subseteq Hosts /\ IsFiniteSet(Hosts)
  /\ \A run \in Runs :
       /\ Len(run) \in Nat \ {0} /\ DOMAIN run = 1 .. Len(run)
       /\ \A s \in DOMAIN run :
            /\ run[s].parses \in BOOLEAN /\ run[s].builds \in BOOLEAN
            /\ Len(run[s].deps) \in Nat /\ DOMAIN run[s].deps = 1 .. Len(run[s].deps)
            /\ run[s].selected \subseteq DOMAIN run[s].deps

VARIABLES
  files, failFast, strict,  (* of the command line; strict: diagnostics are errors       *)
  at,                       (* the file that is run                                      *)
  testsPc,                  (* "parse", "plan", "build", "case", "settle" or "done"      *)
  remaining, order,         (* of the planning                                           *)
  position,                 (* in the order                                              *)
  summary,                  (* the counts that are reported                              *)
  cases,                    (* by file: the cases, or the error of the suite             *)
  completed,                (* the workflows of the file that completed                  *)
  bail,
  warned, used, notes       (* transport warnings: hosts, exceptions used, and the notes *)

testsVars == <<files, failFast, strict, at, testsPc, remaining, order, position, summary, cases, completed, bail,
          warned, used, notes>>
options == <<files, failFast, strict>>
transport == <<warned, used, notes>>

File == files[at]
Deps(w) == File.deps[w]

TestsInit ==
  /\ files \in Runs /\ failFast \in BOOLEAN /\ strict \in BOOLEAN
  /\ at = 1 /\ testsPc = "parse" /\ remaining = {} /\ order = <<>> /\ position = 1
  /\ summary = [tests |-> 0, pass |-> 0, fail |-> 0, error |-> 0, suites |-> 0]
  /\ cases = <<>> /\ completed = {} /\ bail = FALSE
  /\ warned = {} /\ used = {} /\ notes = <<>>

\* The file whose turn is next, unless there is none left or the run bails.
NextFile(stop) ==
  IF stop \/ at = Len(files) THEN testsPc' = "settle" /\ UNCHANGED at
  ELSE testsPc' = "parse" /\ at' = at + 1

\* A suite that cannot be run is an error of its own, with no case.
SuiteError(error) ==
  /\ summary' = [summary EXCEPT !.suites = @ + 1]
  /\ cases' = Append(cases, [error |-> error, results |-> <<>>])
  /\ bail' = failFast
  /\ NextFile(failFast)
  /\ UNCHANGED <<options, remaining, order, position, completed, transport>>

ParseError == testsPc = "parse" /\ ~File.parses /\ SuiteError("parse")

TestsParse ==
  /\ testsPc = "parse" /\ File.parses
  /\ testsPc' = "plan" /\ remaining' = File.selected /\ order' = <<>>
  /\ UNCHANGED <<options, at, position, summary, cases, completed, bail, transport>>

\* What a selected workflow depends on has to be another selected one of the file.
Required(w) == Deps(w) \subseteq File.selected

\* Its dependencies have all been placed.
Ready == {w \in remaining : Deps(w) \intersect remaining = {}}

PlanError ==
  /\ testsPc = "plan"
  /\ \/ ~(\A w \in File.selected : Required(w)) /\ SuiteError("dependency")
     \/ (\A w \in File.selected : Required(w)) /\ remaining # {} /\ Ready = {} /\ SuiteError("cycle")

\* The first in the document of those that are ready is placed.
Place ==
  /\ testsPc = "plan" /\ (\A w \in File.selected : Required(w)) /\ remaining # {} /\ Ready # {}
  /\ remaining' = remaining \ {Min(Ready)} /\ order' = Append(order, Min(Ready))
  /\ UNCHANGED <<options, at, testsPc, position, summary, cases, completed, bail, transport>>

Planned ==
  /\ testsPc = "plan" /\ (\A w \in File.selected : Required(w)) /\ remaining = {}
  /\ testsPc' = "build"
  /\ UNCHANGED <<options, at, remaining, order, position, summary, cases, completed, bail, transport>>

BuildError == testsPc = "build" /\ ~File.builds /\ SuiteError("build")

TestsBuild ==
  /\ testsPc = "build" /\ File.builds
  /\ testsPc' = "case" /\ position' = 1 /\ completed' = {}
  /\ cases' = Append(cases, [error |-> "none", results |-> <<>>])
  /\ UNCHANGED <<options, at, remaining, order, summary, bail, transport>>

Status(result) ==
  CASE result = "ok" -> "pass"
    [] result = "okWithDiagnostics" -> IF strict THEN "error" ELSE "pass"
    [] result = "SuccessCriteriaFailed" -> "fail"
    [] OTHER -> "error"

\* The engine refuses a workflow whose dependencies have not completed.
TestsResults(w) ==
  IF Deps(w) \subseteq completed
  THEN {"ok", "okWithDiagnostics", "SuccessCriteriaFailed", "RuntimeError", "ExecutionTimeout"}
  ELSE {"WorkflowDependencyUnsatisfied"}

Count(status) == summary' = [summary EXCEPT !.tests = @ + 1, ![status] = @ + 1]
Warning(host) == [kind |-> "cleartext", hosts |-> {host}]

\* mutant: a failure does not end the run
CaseOn ==
  /\ testsPc = "case" /\ position <= Len(order)
  /\ LET w == order[position] IN
     \E result \in TestsResults(w) :
       /\ cases' = [cases EXCEPT ![at].results = Append(@, [workflow |-> w, result |-> result])]
       /\ Count(Status(result))
       /\ completed' = IF result = "ExecutionTimeout" THEN completed ELSE completed \union {w}
  /\ position' = position + 1
  /\ UNCHANGED <<options, at, testsPc, remaining, order, bail, transport>>

\* One workflow, with the events of its run: a host is warned about once per
\* command, and the exceptions that requests used are kept.  All that ends without a
\* timeout has completed, failed or not.
Case ==
  /\ testsPc = "case" /\ position <= Len(order)
  /\ LET w == order[position] IN
     \E result \in TestsResults(w) :
       /\ cases' = [cases EXCEPT ![at].results = Append(@, [workflow |-> w, result |-> result])]
       /\ Count(Status(result))
       /\ completed' = IF result = "ExecutionTimeout" THEN completed ELSE completed \union {w}
       /\ bail' = (failFast /\ Status(result) # "pass")
       /\ position' = IF bail' THEN Len(order) + 1 ELSE position + 1
  /\ \E requests \in SUBSET Hosts :
       /\ used' = used \union (requests \intersect Excepted)
       /\ warned' = warned \union requests
       /\ notes' = notes \o SetToSeq({Warning(h) : h \in requests \ warned})
  /\ UNCHANGED <<options, at, testsPc, remaining, order>>

SuiteEnd ==
  /\ testsPc = "case" /\ position > Len(order)
  /\ NextFile(bail)
  /\ UNCHANGED <<options, remaining, order, position, summary, cases, completed, bail, transport>>

Live == \E s \in DOMAIN cases : cases[s].error = "none"
Unused == Excepted \ used

\* The exceptions that no request of any suite used.
Settle ==
  /\ testsPc = "settle" /\ testsPc' = "done"
  /\ notes' = IF Live /\ Unused # {} THEN Append(notes, [kind |-> "unused", hosts |-> Unused]) ELSE notes
  /\ UNCHANGED <<options, at, remaining, order, position, summary, cases, completed, bail, warned, used>>

TestsNext ==
  \/ ParseError \/ TestsParse \/ PlanError \/ Place \/ Planned \/ BuildError \/ TestsBuild
  \/ Case \/ SuiteEnd \/ Settle

TestsSpec == TestsInit /\ [][TestsNext]_testsVars

(***************************************************************************)
(* The report                                                              *)
(***************************************************************************)
\* One line for each suite that could not be run and one for each case, by their places.
TapLines ==
  UNION {{s} \X (IF cases[s].error # "none" THEN {0} ELSE DOMAIN cases[s].results) : s \in DOMAIN cases}
Tap ==
  [l \in TapLines |->
     LET suite == cases[l[1]] IN
     IF suite.error = "none" /\ Status(suite.results[l[2]].result) = "pass" THEN "ok" ELSE "not ok"]
TapPlan == summary.tests + summary.suites

\* The totals of the other report are counted over the cases.
Cases(status) ==
  UNION {{s} \X {k \in DOMAIN cases[s].results : Status(cases[s].results[k].result) = status} : s \in DOMAIN cases}
JunitTotals ==
  [tests |-> Cardinality(DOMAIN Tap), failures |-> Cardinality(Cases("fail")),
   errors |-> summary.suites + Cardinality(Cases("error"))]

HasFailures == summary.fail > 0 \/ summary.error > 0 \/ summary.suites > 0

(***************************************************************************)
(* Properties                                                              *)
(***************************************************************************)
TestTypeOK ==
  /\ testsPc \in {"parse", "plan", "build", "case", "settle", "done"} /\ at \in DOMAIN files
  /\ Len(cases) \in {at - 1, at} /\ (testsPc = "case" => Len(cases) = at)
  /\ testsPc = "plan" => remaining \subseteq File.selected
  /\ testsPc = "case" => completed \subseteq ToSet(order)
  /\ bail \in BOOLEAN /\ used \subseteq Excepted /\ warned \subseteq Hosts

\* A plan has each selected workflow once, behind all it depends on, and of those that
\* could be next it always takes the first of the document.
PlanInOrder ==
  testsPc = "build" =>
    /\ ToSet(order) = File.selected /\ Len(order) = Cardinality(File.selected)
    /\ \A k \in DOMAIN order :
         LET placed == {order[i] : i \in 1 .. k - 1} IN
         /\ Deps(order[k]) \subseteq placed
         /\ \A w \in File.selected \ placed : Deps(w) \subseteq placed => order[k] <= w

Broken(f) == \E w \in f.selected : ~(f.deps[w] \subseteq f.selected)
Cyclic(f) == \E knot \in SUBSET f.selected : knot # {} /\ \A w \in knot : f.deps[w] \intersect knot # {}

\* A file is refused for its dependencies exactly if one of the selected workflows
\* reaches itself, or a workflow that is not selected or does not exist.
RefusedOnlyIfNeeded ==
  \A s \in DOMAIN cases :
    /\ cases[s].error = "dependency" <=> files[s].parses /\ Broken(files[s])
    /\ cases[s].error = "cycle" <=> files[s].parses /\ ~Broken(files[s]) /\ Cyclic(files[s])

\* A workflow is run after all that it depends on has completed, failed or not; when
\* one timed out, what depends on it is an error.
DependenciesCompleted ==
  \A s \in DOMAIN cases : \A k \in DOMAIN cases[s].results :
    LET done == {cases[s].results[i].workflow : i \in {j \in 1 .. k - 1 :
                    cases[s].results[j].result \notin {"ExecutionTimeout"}}} IN
    cases[s].results[k].result = "WorkflowDependencyUnsatisfied" <=>
      ~(files[s].deps[cases[s].results[k].workflow] \subseteq done)

\* With fail-fast nothing is run after the first failure, and without it every file
\* has its result, and every workflow of a plan its case.
FailFastExactly ==
  testsPc = "done" =>
    /\ HasFailures /\ failFast =>
         LET last == cases[Len(cases)] IN
         /\ \A s \in 1 .. Len(cases) - 1 : cases[s].error = "none"
               /\ \A k \in DOMAIN cases[s].results : Status(cases[s].results[k].result) = "pass"
         /\ last.error = "none" =>
              \A k \in 1 .. Len(last.results) - 1 : Status(last.results[k].result) = "pass"
    /\ ~(HasFailures /\ failFast) =>
         /\ Len(cases) = Len(files)
         /\ \A s \in DOMAIN cases : cases[s].error = "none" =>
              Len(cases[s].results) = Cardinality(files[s].selected)

\* A host is warned about once however many suites request it, and an exception is
\* reported as unused only if no request of the whole command used it.
WarnedOnce ==
  /\ \A i, j \in DOMAIN notes : notes[i] = notes[j] => i = j
  /\ \A i \in DOMAIN notes : notes[i].kind = "unused" => notes[i].hosts \intersect used = {}

\* The counts of the summary, which decide on the exit status, are those of both
\* reports: a TAP plan has as many lines as it says, and the command fails exactly
\* if one of them is not ok.
ReportsAgree ==
  testsPc = "done" =>
    /\ Cardinality(DOMAIN Tap) = TapPlan /\ (HasFailures <=> \E l \in DOMAIN Tap : Tap[l] = "not ok")
    /\ JunitTotals = [tests |-> TapPlan, failures |-> summary.fail,
                      errors |-> summary.suites + summary.error]
    /\ summary.tests = summary.pass + summary.fail + summary.error

\* What is said of the plans and of the suites that are run by them.
SuitesGoAsPlanned ==
  /\ TestTypeOK /\ PlanInOrder /\ RefusedOnlyIfNeeded /\ DependenciesCompleted
  /\ FailFastExactly /\ WarnedOnce

\* The report of the test command is the truth about runs in a right order
\* (run_test_suite, plan_workflow_ids).
TestsTellTruth == SuitesGoAsPlanned /\ ReportsAgree

\* What the two commands report is what has happened: the test command of its suites, the
\* run command (RunCommand) of its run and its artifacts.
ReportsTellTruth == TestsTellTruth /\ RunTellsTruth
=============================================================================
