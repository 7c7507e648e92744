------------------------------- MODULE SingleStep -------------------------------
(***************************************************************************)
(* Single-step execution: the steps a selected step depends on, found by a *)
(* search over what its texts refer to, are run with it in the order of the *)
(* workflow.  Routing goes on as in the whole workflow, but only into the  *)
(* steps that were found.                                                  *)
(***************************************************************************)
EXTENDS StepRouting, SequencesExt

CONSTANT Plans      (* workflows, with the ids their steps refer to        *)

\* 0 stands for an id that names no step; odd ones are those that STEP_REF_RE does not
\* match.  The iteration budget saturates far above what any number of steps asks for.
ASSUME SingleAssumption ==
  /\ MaxU128 >= 10 * MaxSteps
  /\ \A p \in Plans :
       /\ Regular(p.workflow) /\ DOMAIN p.refs = DOMAIN p.workflow.steps
       /\ \A i \in DOMAIN p.refs : p.refs[i] \in [RefPlaces -> SUBSET (DOMAIN p.refs \union {0})]

VARIABLES
  plan, target, noDeps,  (* the selection; it never changes                *)
  singlePc,              (* "search", "arm", "run", or "ended"             *)
  queue, visited,        (* of the search                                  *)
  scope,                 (* the steps to run, in order                     *)
  cursor,                (* the position in the scope that runs next       *)
  left,                  (* iterations that are left                       *)
  counts,                (* retries                                        *)
  ran,                   (* history: the attempts, with their results      *)
  cancelled, outcome

singleVars == <<plan, target, noDeps, singlePc, queue, visited, scope, cursor, left, counts, ran,
          cancelled, outcome>>
selection == <<plan, target, noDeps>>

wf == plan.workflow
SingleSteps == DOMAIN wf.steps
\* extract_step_refs scans less than build_levels: of routing only the conditions, and
\* only those of a step's own actions.
Scanned(i) == plan.refs[i]["dependsOn"] \union (Referred(plan.refs[i], {"run", "condition"}) \ plan.odd)
Found(i)   == Scanned(i) \intersect SingleSteps

SingleInit ==
  /\ plan \in Plans /\ target \in DOMAIN plan.workflow.steps /\ noDeps \in BOOLEAN
  /\ singlePc = "search" /\ queue = <<target>> /\ visited = {} /\ scope = <<>> /\ cursor = 1
  /\ left = 0 /\ counts = [s \in Sites |-> 0] /\ ran = <<>>
  /\ cancelled = FALSE /\ outcome = "none"

End(result) == singlePc' = "ended" /\ outcome' = result

\* The steps in the order of the workflow: one sequence.
Ascending(steps) ==
  {s \in SetToSeqs(steps) : \A j, k \in DOMAIN s : j < k => s[j] < s[k]}

Begin(steps) ==
  /\ scope' \in Ascending(steps) /\ left' = IterationLimit(wf, steps)
  /\ singlePc' = "arm" /\ UNCHANGED <<queue, visited, outcome>>

\* mutant: only what the step itself refers to is resolved
VisitDirect ==
  /\ singlePc = "search" /\ ~noDeps /\ queue # <<>>
  /\ visited' = visited \union (Found(Head(queue)) \ {target})
  /\ queue' = <<>>
  /\ UNCHANGED <<selection, singlePc, scope, cursor, left, counts, ran, cancelled, outcome>>

\* What a step is found to refer to is visited once, and the target never again.  The order is that
\* of the ids, which says nothing of the order in the workflow.
Visit ==
  /\ singlePc = "search" /\ ~noDeps /\ queue # <<>>
  /\ LET new == Found(Head(queue)) \ (visited \union {target}) IN
     /\ visited' = visited \union new
     /\ \E order \in SetToSeqs(new) : queue' = Tail(queue) \o order
  /\ UNCHANGED <<selection, singlePc, scope, cursor, left, counts, ran, cancelled, outcome>>

\* Without its dependencies a step that refers to another one is refused, be it one of
\* the workflow or not.
Select ==
  /\ singlePc = "search" /\ (noDeps \/ queue = <<>>)
  /\ IF noDeps /\ Scanned(target) \ {target} # {}
     THEN End("StepMissingDependency") /\ UNCHANGED <<queue, visited, scope, left>>
     ELSE Begin(IF noDeps THEN {target} ELSE visited \union {target})
  /\ UNCHANGED <<selection, cursor, counts, ran, cancelled>>

\* Inputs are validated and the receive steps of the scope are armed.
Arm ==
  /\ singlePc = "arm"
  /\ \/ singlePc' = "run" /\ UNCHANGED outcome
     \/ \E e \in {"InputValidation", "MessageTransport"} : End(e)
  /\ UNCHANGED <<selection, queue, visited, scope, cursor, left, counts, ran, cancelled>>

CursorFor(i) == {k \in DOMAIN scope : scope[k] >= i /\ \A j \in 1 .. k - 1 : scope[j] < i}

GoOnTo(i) ==
  IF CursorFor(i) = {} THEN End("ok") /\ UNCHANGED cursor
  ELSE cursor' \in CursorFor(i) /\ UNCHANGED <<singlePc, outcome>>

\* A step of the scope that is retried is always the one that ran; what the retry
\* refers to runs first, and may fail.
Again(site) ==
  \/ /\ counts' = CountRetry(counts, site) /\ UNCHANGED <<cursor, singlePc, outcome>>
  \/ End("RetryReferenceFailed") /\ UNCHANGED <<counts, cursor>>

Follow(d) ==
  CASE d.kind = "done" -> End("ok") /\ UNCHANGED <<cursor, counts>>
    [] d.kind = "next" -> GoOnTo(d.step) /\ UNCHANGED counts
    [] d.kind = "retry" -> Again(d.site)
    [] d.kind = "gotoWorkflow" ->
         (\E r \in {"ok", "SubWorkflowFailed"} : End(r)) /\ UNCHANGED <<cursor, counts>>
    [] d.kind = "error" -> End(d.error) /\ UNCHANGED <<cursor, counts>>

\* One attempt: announced, run, settled and routed.
SingleAttempt ==
  /\ singlePc = "run" /\ ~cancelled /\ left > 0 /\ cursor <= Len(scope)
  /\ left' = left - 1
  /\ \E result \in {"ok", "SuccessCriteriaFailed"} :
       /\ ran' = Append(ran, [step |-> scope[cursor], result |-> result])
       /\ \E d \in Routes(wf, scope[cursor], counts, result, FALSE) : Follow(d)
  /\ UNCHANGED <<selection, queue, visited, scope, cancelled>>

\* The loop has run out; a workflow that is cancelled fails instead.
SingleFinish ==
  /\ singlePc = "run" /\ (cancelled \/ left = 0 \/ cursor > Len(scope))
  /\ End(IF cancelled THEN "ExecutionCancelled" ELSE "ok")
  /\ UNCHANGED <<selection, queue, visited, scope, cursor, left, counts, ran, cancelled>>

Cancel ==
  /\ ~cancelled /\ singlePc # "ended"
  /\ cancelled' = TRUE
  /\ UNCHANGED <<selection, singlePc, queue, visited, scope, cursor, left, counts, ran, outcome>>

Advance == Visit \/ Select \/ Arm \/ SingleAttempt \/ SingleFinish
SingleNext == Advance \/ Cancel

SingleSpec == SingleInit /\ [][SingleNext]_singleVars

(***************************************************************************)
(* Properties                                                              *)
(***************************************************************************)
\* The kinds of the variables; the cursor of a run is a position of its scope.
SingleTypeOK ==
  /\ singlePc \in {"search", "arm", "run", "ended"} /\ visited \subseteq SingleSteps
  /\ (outcome # "none" <=> singlePc = "ended") /\ counts \in Counts
  /\ singlePc = "run" => cursor \in DOMAIN scope
  /\ \A k \in DOMAIN ran : ran[k].step \in SingleSteps

\* What the selected step is found to refer to, directly or not: what is in every set
\* that holds all that is found in it, and all that is found in its members.
FoundReach ==
  {j \in SingleSteps : \A closed \in SUBSET SingleSteps :
     Found(target) \subseteq closed /\ (\A i \in closed : Found(i) \subseteq closed) => j \in closed}

\* The search ends with all the steps that the selected one is found to refer to,
\* directly or not, and no others, whatever cycles there are and whoever refers to
\* itself or to a step that does not exist.
ScopeIsClosure ==
  singlePc \in {"arm", "run"} =>
    ToSet(scope) = {target} \union (IF noDeps THEN {} ELSE FoundReach)

\* What a step waits for or reads, until it has run and been routed.
Needs(i) == Referred(plan.refs[i], RefPlaces) \intersect SingleSteps

\* What a step reads and the search does not see: the id is none that STEP_REF_RE
\* matches, or it is written only in the context of a criterion, in an inherited action,
\* or where it is read late.
Overlooked(i, j) ==
  /\ j \notin plan.refs[i]["dependsOn"]
  /\ j \in plan.odd \/ j \notin Referred(plan.refs[i], {"run", "condition"})

\* What a step of the scope needs is in the scope, but what the search overlooks; so is
\* what a step that may run without its dependencies needs, itself apart.
ScopeHasNeeds ==
  singlePc \in {"arm", "run"} =>
    \A k \in DOMAIN scope : \A j \in Needs(scope[k]) \ ToSet(scope) : Overlooked(scope[k], j)

\* A step outside of the scope is never run, wherever actions send the run, and
\* without its dependencies nothing is run but a step found to refer to no other.
OnlyScopeRuns ==
  ran # <<>> =>
    /\ \A k \in DOMAIN ran : ran[k].step \in {target} \union FoundReach
    /\ noDeps => Scanned(target) \subseteq {target} /\ \A k \in DOMAIN ran : ran[k].step = target

\* Where the run may be sent by an attempt: to the next step, if nothing else is asked
\* for, and where an action that applies goes.
Sends(step, result) ==
  LET actions == IF result = "ok" THEN SuccessActions(wf, step) ELSE FailureActions(wf, step)
  IN  (IF result = "ok" THEN {step + 1} ELSE {})
        \union {actions[j].step : j \in {j \in DOMAIN actions : actions[j].type = "goto"}}

Retries(step) == \E j \in DOMAIN FailureActions(wf, step) : FailureActions(wf, step)[j].type = "retry"

\* One attempt follows another where it was sent, or at the first step of the scope
\* behind that, never at one before it; only a failed step that has a retry runs again.
AttemptsFollow ==
  [][\A i \in DOMAIN ran : i = Len(ran) /\ Len(ran') = i + 1 =>
       LET next == ran'[i + 1].step IN
       \/ ran[i].result # "ok" /\ Retries(ran[i].step) /\ next = ran[i].step
       \/ \E to \in Sends(ran[i].step, ran[i].result) :
            next >= to /\ \A k \in DOMAIN scope : scope[k] >= to => scope[k] >= next]_singleVars

\* The step has run, after all that it is found to refer to had.
RanAfterFound(step) ==
  \E j \in DOMAIN ran :
    /\ ran[j].step = step /\ ran[j].result = "ok"
    /\ noDeps \/ \A d \in Found(step) : \E i \in 1 .. j - 1 : ran[i].step = d /\ ran[i].result = "ok"

\* Every step refers to earlier ones only, and no action redirects the run.
Undirected ==
  \A i \in SingleSteps :
    /\ Scanned(i) \subseteq 1 .. i - 1 /\ SuccessActions(wf, i) = <<>>
    /\ \A j \in DOMAIN FailureActions(wf, i) : FailureActions(wf, i)[j].type # "goto"

\* If all that is referred to is declared earlier, and no action redirects the run, then
\* what succeeds has run every step of its scope, each one after all that, unless
\* retries have taken ten attempts for each of them.
RunsInDependencyOrder ==
  outcome = "ok" /\ Undirected =>
    \/ \A k \in DOMAIN scope : RanAfterFound(scope[k])
    \/ left = 0 /\ Len(ran) >= 10 * Len(scope)

\* A single step runs with exactly what it is found to refer to, which is what it needs
\* but for what the search overlooks, in the order of the workflow, and leaves that order
\* only where an action says so (compute_transitive_deps, execute_step_inner).
ScopeRunsExactly ==
  [](SingleTypeOK /\ ScopeIsClosure /\ ScopeHasNeeds /\ OnlyScopeRuns /\ RunsInDependencyOrder) /\ AttemptsFollow
=============================================================================
