----------------------------- MODULE StepRouting -----------------------------
(***************************************************************************)
(* What an Arazzo document says about control flow, and how the runtime    *)
(* routes one settled attempt at a step through the success or failure     *)
(* actions that apply to it.  Everything here is a constant-level          *)
(* operator: the sequential scheduler and the parallel one share it.       *)
(*                                                                         *)
(* Steps and actions are numbered from 1 (the code counts from 0); 0 is    *)
(* "no step".  Criteria are abstracted to a guard: an action with criteria *)
(* may or may not match an attempt, one without always does.               *)
(***************************************************************************)
EXTENDS Integers, Sequences, FiniteSets, TLAPS

CONSTANTS
  Workflows,     (* the workflowIds the document defines                   *)
  Unknown,       (* a workflowId, interpolated at run time, it does not    *)
  NoWorkflow,    (* an empty workflowId                                    *)
  MaxU128,       (* where the iteration budget saturates (u128::MAX)       *)
  MaxSteps,      (* bound of the model: steps in a workflow                *)
  MaxActions     (* bound of the model: actions in a list                  *)

ASSUME NamesAssumption ==
  /\ Unknown \notin Workflows
  /\ NoWorkflow \notin Workflows \union {Unknown}
ASSUME BoundsAssumption ==
  MaxU128 \in Nat /\ MaxSteps \in Nat \ {0} /\ MaxActions \in Nat \ {0}

(***************************************************************************)
(* The document.                                                           *)
(***************************************************************************)
Targets == Workflows \union {Unknown, NoWorkflow}

Unset == -1                       \* retryLimit: None

\* An action's retryAfter: zero, some wait, or a finite decimal that no
\* Duration can represent.
Delays == {"zero", "some", "unrepresentable"}

Action == [type : {"end", "goto", "retry"}, guarded : BOOLEAN,
           step : Nat, workflow : Targets,
           limit : Nat \union {Unset}, delay : Delays]

\* A step calls a workflow, or (NoWorkflow) sends a request or receives a
\* message.
Step == [target : Targets, onSuccess : Seq(Action), onFailure : Seq(Action)]

Workflow == [steps : Seq(Step), onSuccess : Seq(Action),
             onFailure : Seq(Action), dependsOn : SUBSET Targets,
             receives : BOOLEAN]

\* Where the ids that a step needs are written: in dependsOn; in what it reads while
\* it runs (target, parameters, body, success criteria, outputs); in the condition or
\* the context of a criterion of its own actions; in the criteria of the workflow's
\* actions that it inherits; and in what is read late: the workflow's parameters, which
\* a step takes over when it runs, and correlationId.
RefPlaces == {"dependsOn", "run", "condition", "context", "inherited", "late"}
StepRefs  == [RefPlaces -> SUBSET Nat]

Referred(refs, places) == UNION {refs[p] : p \in places}

Fits(list) == Len(list) <= MaxActions

\* A workflow within the bounds, as validation leaves it: a Success Action
\* Object is never a retry.
Regular(wf) ==
  /\ wf \in Workflow
  /\ Len(wf.steps) <= MaxSteps
  /\ Fits(wf.onSuccess) /\ Fits(wf.onFailure)
  /\ \A j \in DOMAIN wf.onSuccess : wf.onSuccess[j].type # "retry"
  /\ \A i \in DOMAIN wf.steps :
       LET step == wf.steps[i] IN
       /\ Fits(step.onSuccess) /\ Fits(step.onFailure)
       /\ \A j \in DOMAIN step.onSuccess : step.onSuccess[j].type # "retry"

WellFormed(doc) ==
  doc \in [Workflows -> Workflow] /\ \A w \in Workflows : Regular(doc[w])

(***************************************************************************)
(* Error kinds that a step's attempt, or a workflow's invocation, ends in. *)
(***************************************************************************)
Cancellations == {"ExecutionCancelled", "ExecutionTimeout"}

Errors == Cancellations \union
  {"WorkflowNotFound", "MaxCallDepthExceeded", "WorkflowDependencyUnsatisfied",
   "InputValidation", "MessageTransport", "SuccessCriteriaFailed",
   "HttpRequest", "GotoTargetNotFound", "GotoTargetMissing",
   "RetryLimitExceeded", "SubWorkflowFailed", "RetryReferenceFailed",
   "IterationLimitExceeded"}

Results == {"none", "ok"} \union Errors

(***************************************************************************)
(* Routing decisions (FlowDecision).                                       *)
(***************************************************************************)
\* RetrySite: a step and the index of its action.
Sites == (1 .. MaxSteps) \X (1 .. MaxActions)
NoSite == <<0, 0>>

Decision ==
  [kind : {"none", "next", "done", "retry", "gotoWorkflow", "error"},
   step : Nat, workflow : Targets, site : Sites \union {NoSite}, waits : BOOLEAN,
   error : Results]

NoDecision == [kind |-> "none", step |-> 0, workflow |-> NoWorkflow,
               site |-> NoSite, waits |-> FALSE, error |-> "none"]
GoOn(i)  == [NoDecision EXCEPT !.kind = "next", !.step = i]
Done     == [NoDecision EXCEPT !.kind = "done"]
Fail(e)  == [NoDecision EXCEPT !.kind = "error", !.error = e]
Leave(w) == [NoDecision EXCEPT !.kind = "gotoWorkflow", !.workflow = w]

\* For a retry, step and workflow name its recovery reference, if any.
Retry(a, site, wait) ==
  [NoDecision EXCEPT !.kind = "retry", !.step = a.step,
                     !.workflow = a.workflow, !.site = site, !.waits = wait]

(***************************************************************************)
(* Retry budgets.                                                          *)
(***************************************************************************)
ApplicableActions(stepActions, workflowActions) ==
  IF stepActions = <<>> THEN workflowActions ELSE stepActions

EffectiveLimit(a) == IF a.limit = Unset THEN 1 ELSE a.limit

FailureActions(wf, i) ==
  ApplicableActions(wf.steps[i].onFailure, wf.onFailure)
SuccessActions(wf, i) ==
  ApplicableActions(wf.steps[i].onSuccess, wf.onSuccess)

\* retry_count, with 0 at the sites the map does not hold.
Counts == [Sites -> Nat]

CountRetry(counts, site) == [counts EXCEPT ![site] = @ + 1]

ExhaustedLate(a, counts, site) ==       \* mutant: one retry too many
  a.type = "retry" /\ counts[site] > EffectiveLimit(a)

Exhausted(a, counts, site) ==
  a.type = "retry" /\ counts[site] >= EffectiveLimit(a)

\* The sums of the first n numbers of a sequence, for every n.
Sums(numbers) ==
  LET upTo[n \in 0 .. Len(numbers)] ==
        IF n = 0 THEN 0 ELSE upTo[n - 1] + numbers[n]
  IN  upTo

Total(numbers) == Sums(numbers)[Len(numbers)]

RetryLimits(actions) ==
  [j \in DOMAIN actions |->
     IF actions[j].type = "retry" THEN EffectiveLimit(actions[j]) ELSE 0]

RetryBudget(actions) == Total(RetryLimits(actions))

Saturate(x) == IF x \in 0 .. MaxU128 THEN x ELSE MaxU128

\* mutant: a step without failure actions has no retries to allow for
StepBudgetsOwnOnly(wf, steps) ==
  [i \in DOMAIN wf.steps |->
     IF i \in steps THEN 1 + RetryBudget(wf.steps[i].onFailure) ELSE 0]

\* The attempt at each step that is run, and its retries.
StepBudgets(wf, steps) ==
  [i \in DOMAIN wf.steps |->
     IF i \in steps THEN 1 + RetryBudget(FailureActions(wf, i)) ELSE 0]

\* compute_max_iterations: twice every step's attempt and retries, and at
\* least ten iterations a step.  steps is the set of step numbers to run.
IterationLimit(wf, steps) ==
  LET budget == Total(StepBudgets(wf, steps))
      floor  == 10 * Cardinality(steps)
  IN  Saturate(IF 2 * budget >= floor THEN 2 * budget ELSE floor)

MaxIterations(wf) == IterationLimit(wf, DOMAIN wf.steps)

(***************************************************************************)
(* Performing the selected action (execute_action).  An HTTP response may  *)
(* carry an integer Retry-After header, which overrides the action's own   *)
(* delay.                                                                  *)
(***************************************************************************)
EffectiveDelays(a, responded) ==
  {a.delay} \union (IF responded THEN {"zero", "some"} ELSE {})

PerformEnd(failed, result) == IF failed THEN Fail(result) ELSE Done

PerformGoto(a, wf) ==
  CASE a.step \in DOMAIN wf.steps -> GoOn(a.step)
    [] a.step # 0 /\ a.step \notin DOMAIN wf.steps -> Fail("GotoTargetNotFound")
    [] a.step = 0 /\ a.workflow # NoWorkflow -> Leave(a.workflow)
    [] OTHER -> Fail("GotoTargetMissing")

PerformRetry(a, site, delay) ==
  IF delay = "unrepresentable" THEN Fail("InputValidation")
  ELSE Retry(a, site, delay = "some")

\* Every decision action j of list, selected for the step i, may come to.
Perform(wf, i, list, j, result, responded) ==
  CASE list[j].type = "end"  -> {PerformEnd(result # "ok", result)}
    [] list[j].type = "goto" -> {PerformGoto(list[j], wf)}
    [] OTHER -> {PerformRetry(list[j], <<i, j>>, delay) :
                   delay \in EffectiveDelays(list[j], responded)}

(***************************************************************************)
(* Selecting it (handle_step_result).  matching is the set of actions      *)
(* whose criteria hold for this attempt.                                   *)
(***************************************************************************)
Matchings(list) ==
  {m \in SUBSET DOMAIN list : \A j \in DOMAIN list : list[j].guarded \/ j \in m}

First(indices) == {j \in indices : \A k \in indices : j <= k}

\* The first matching success action; without one, the next step.
SuccessRoutes(wf, i, matching, responded) ==
  IF matching = {} THEN {GoOn(i + 1)}
  ELSE UNION {Perform(wf, i, SuccessActions(wf, i), j, "ok", responded) :
                j \in First(matching)}

\* A retry whose budget is spent yields to the matching actions after it;
\* when nothing is left, the step fails with its own error, or with
\* RetryLimitExceeded if a spent retry is what was skipped.
FailureRoutes(wf, i, matching, counts, result, responded) ==
  LET list == FailureActions(wf, i)
      live == {j \in matching : ~Exhausted(list[j], counts, <<i, j>>)}
  IN  CASE live # {} -> UNION {Perform(wf, i, list, j, result, responded) :
                                 j \in First(live)}
        [] live = {} /\ matching # {} -> {Fail("RetryLimitExceeded")}
        [] OTHER -> {Fail(result)}

\* Every decision the attempt's result may be routed to.
Routes(wf, i, counts, result, responded) ==
  IF result = "ok"
  THEN UNION {SuccessRoutes(wf, i, m, responded) :
                m \in Matchings(SuccessActions(wf, i))}
  ELSE UNION {FailureRoutes(wf, i, m, counts, result, responded) :
                m \in Matchings(FailureActions(wf, i))}

(***************************************************************************)
(* What routing decides, for every workflow, attempt and retry count: the  *)
(* lemmas that the proofs about the schedulers rest on.                    *)
(***************************************************************************)
\* The lists of actions that apply to a step are sequences of actions whose
\* positions are retry sites, and a success list holds no retry.
LEMMA ListsTyped ==
  ASSUME NEW wf, Regular(wf), NEW i \in DOMAIN wf.steps
  PROVE  /\ i \in 1 .. MaxSteps /\ wf.steps[i] \in Step
         /\ SuccessActions(wf, i) \in Seq(Action)
         /\ FailureActions(wf, i) \in Seq(Action)
         /\ \A j \in DOMAIN SuccessActions(wf, i) :
              SuccessActions(wf, i)[j].type # "retry"
         /\ \A j \in DOMAIN FailureActions(wf, i) : <<i, j>> \in Sites
<1>1. wf.steps \in Seq(Step) /\ Len(wf.steps) <= MaxSteps
  BY DEF Regular, Workflow
<1>2. wf.steps[i] \in Step /\ i \in 1 .. MaxSteps
  BY <1>1, BoundsAssumption
<1>3. /\ wf.onSuccess \in Seq(Action) /\ wf.onFailure \in Seq(Action)
      /\ Len(wf.onFailure) <= MaxActions
  BY DEF Regular, Workflow, Fits
<1>4. /\ wf.steps[i].onSuccess \in Seq(Action)
      /\ wf.steps[i].onFailure \in Seq(Action)
      /\ Len(wf.steps[i].onFailure) <= MaxActions
  BY <1>2 DEF Regular, Step, Fits
<1>5. \A j \in DOMAIN SuccessActions(wf, i) :
        SuccessActions(wf, i)[j].type # "retry"
  BY DEF SuccessActions, ApplicableActions, Regular
<1>6. /\ FailureActions(wf, i) \in Seq(Action)
      /\ Len(FailureActions(wf, i)) <= MaxActions
      /\ SuccessActions(wf, i) \in Seq(Action)
  BY <1>3, <1>4 DEF FailureActions, SuccessActions, ApplicableActions
<1>7. \A j \in DOMAIN FailureActions(wf, i) : j \in 1 .. MaxActions
  BY <1>6, BoundsAssumption
<1>8. QED
  BY <1>2, <1>5, <1>6, <1>7 DEF Sites

LEMMA NoDecisionTyped == NoDecision \in Decision
BY DEF NoDecision, Decision, Targets, Results, NoSite

\* A retry that routing may decide on is one of the step's failure actions,
\* after a failure, and its budget is not spent.
RetryAllowed(wf, i, counts, dec) ==
  dec.kind = "retry" =>
    \E j \in DOMAIN FailureActions(wf, i) :
      /\ dec.site = <<i, j>>
      /\ FailureActions(wf, i)[j].type = "retry"
      /\ counts[<<i, j>>] < EffectiveLimit(FailureActions(wf, i)[j])

\* A decision that performing the action list[j] of step i may come to.
DecidedBy(i, list, j, dec) ==
  /\ dec \in Decision
  /\ dec.kind = "retry" => dec.site = <<i, j>> /\ list[j].type = "retry"

LEMMA PerformTyped ==
  ASSUME NEW wf, NEW i, NEW list \in Seq(Action), NEW j \in DOMAIN list,
         NEW result \in Results, NEW responded, NEW dec,
         dec \in Perform(wf, i, list, j, result, responded),
         <<i, j>> \in Sites \/ list[j].type # "retry"
  PROVE  DecidedBy(i, list, j, dec)
<1>1. list[j] \in Action
  OBVIOUS
<1>2. CASE list[j].type = "end"
  BY <1>2, NoDecisionTyped
  DEF Perform, PerformEnd, Fail, Done, NoDecision, Decision, DecidedBy
<1>3. CASE list[j].type = "goto"
  <2>1. dec = PerformGoto(list[j], wf)
    BY <1>3 DEF Perform
  <2>2. /\ list[j].step \in Nat /\ list[j].workflow \in Targets
    BY <1>1 DEF Action
  <2>3. \/ dec = GoOn(list[j].step) \/ dec = Leave(list[j].workflow)
        \/ dec = Fail("GotoTargetNotFound") \/ dec = Fail("GotoTargetMissing")
    BY <2>1, <2>2 DEF PerformGoto
  <2>4. {"GotoTargetNotFound", "GotoTargetMissing"} \subseteq Results
    BY DEF Results, Errors
  <2>5. QED
    BY <2>2, <2>3, <2>4, NoDecisionTyped, ZenonT(40)
    DEF GoOn, Leave, Fail, NoDecision, Decision, DecidedBy
<1>4. CASE list[j].type \notin {"end", "goto"}
  <2>1. list[j].type = "retry"
    BY <1>1, <1>4 DEF Action
  <2>2. PICK delay : dec = PerformRetry(list[j], <<i, j>>, delay)
    BY <1>4 DEF Perform
  <2>3. /\ list[j].step \in Nat /\ list[j].workflow \in Targets
    BY <1>1 DEF Action
  <2>4. "InputValidation" \in Results
    BY DEF Results, Errors
  <2>5. QED
    BY <2>1, <2>2, <2>3, <2>4, NoDecisionTyped
    DEF PerformRetry, Retry, Fail, NoDecision, Decision, DecidedBy
<1>5. QED
  BY <1>2, <1>3, <1>4

\* Whatever the routing of an attempt decides is well-typed, and a retry is
\* within its budget.
LEMMA RoutesSound ==
  ASSUME NEW wf, Regular(wf), NEW i \in DOMAIN wf.steps,
         NEW counts \in Counts, NEW result \in Results, NEW responded,
         NEW dec \in Routes(wf, i, counts, result, responded)
  PROVE  dec \in Decision /\ RetryAllowed(wf, i, counts, dec)
<1> DEFINE success == SuccessActions(wf, i)
           failure == FailureActions(wf, i)
<1>1. /\ success \in Seq(Action) /\ failure \in Seq(Action)
      /\ \A j \in DOMAIN success : success[j].type # "retry"
      /\ \A j \in DOMAIN failure : <<i, j>> \in Sites
  BY ListsTyped
<1> HIDE DEF success, failure
<1>2. CASE result = "ok"
  <2>1. PICK m \in Matchings(success) : dec \in SuccessRoutes(wf, i, m, responded)
    BY <1>2 DEF Routes, success
  <2>2. CASE dec = GoOn(i + 1)
    <3>1. i + 1 \in Nat
      BY ListsTyped
    <3>2. dec \in Decision
      BY <2>2, <3>1, NoDecisionTyped DEF GoOn, Decision
    <3>3. dec.kind = "next"
      BY <2>2 DEF GoOn, NoDecision
    <3>4. QED
      BY <3>2, <3>3 DEF RetryAllowed
  <2>3. CASE \E j \in First(m) : dec \in Perform(wf, i, success, j, "ok", responded)
    <3>1. PICK j \in First(m) : dec \in Perform(wf, i, success, j, "ok", responded)
      BY <2>3
    <3>2. j \in DOMAIN success
      BY <2>1, <3>1 DEF First, Matchings
    <3>3. "ok" \in Results
      BY DEF Results
    <3>4. success \in Seq(Action) /\ success[j].type # "retry"
      BY <1>1, <3>2
    <3>5. DecidedBy(i, success, j, dec)
      BY <3>1, <3>2, <3>3, <3>4, PerformTyped, Zenon
    <3>6. QED
      BY <3>4, <3>5 DEF DecidedBy, RetryAllowed
  <2>4. QED
    BY <2>1, <2>2, <2>3 DEF SuccessRoutes, success
<1>3. CASE result # "ok"
  <2>1. PICK m \in Matchings(failure) :
          dec \in FailureRoutes(wf, i, m, counts, result, responded)
    BY <1>3 DEF Routes, failure
  <2> DEFINE live == {j \in m : ~Exhausted(failure[j], counts, <<i, j>>)}
  <2>2. CASE dec \in {Fail("RetryLimitExceeded"), Fail(result)}
    <3>1. "RetryLimitExceeded" \in Results
      BY DEF Results, Errors
    <3>2. QED
      BY <2>2, <3>1, NoDecisionTyped DEF Fail, NoDecision, Decision, RetryAllowed
  <2>3. CASE \E j \in First(live) :
               dec \in Perform(wf, i, failure, j, result, responded)
    <3>1. PICK j \in First(live) :
            dec \in Perform(wf, i, failure, j, result, responded)
      BY <2>3
    <3>2. j \in DOMAIN failure /\ ~Exhausted(failure[j], counts, <<i, j>>)
      BY <2>1, <3>1 DEF First, Matchings
    <3>3. DecidedBy(i, failure, j, dec)
      <4>1. failure \in Seq(Action) /\ <<i, j>> \in Sites
        BY <1>1, <3>2
      <4>2. j \in DOMAIN failure
        BY <3>2
      <4>3. QED
        BY <3>1, <4>1, <4>2, PerformTyped, Zenon
    <3>4. /\ failure[j] \in Action /\ counts[<<i, j>>] \in Nat
      BY <1>1, <3>2 DEF Counts
    <3>5. EffectiveLimit(failure[j]) \in Nat
      BY <3>4 DEF EffectiveLimit, Action, Unset
    <3>6. failure[j].type = "retry" =>
            counts[<<i, j>>] < EffectiveLimit(failure[j])
      BY <3>2, <3>4, <3>5 DEF Exhausted
    <3>7. QED
      BY <3>2, <3>3, <3>6 DEF DecidedBy, RetryAllowed, failure
  <2>4. \/ dec \in {Fail("RetryLimitExceeded"), Fail(result)}
        \/ \E j \in First(live) :
             dec \in Perform(wf, i, failure, j, result, responded)
    BY <2>1 DEF FailureRoutes, failure
  <2>5. QED
    BY <2>2, <2>3, <2>4
<1>4. QED
  BY <1>2, <1>3

\* What ends a workflow in an error names it.
NamesError(dec) == dec.kind = "error" => dec.error # "none"

LEMMA PerformNamed ==
  ASSUME NEW wf, NEW i, NEW list, NEW j, NEW result, result # "none",
         NEW responded, NEW dec \in Perform(wf, i, list, j, result, responded)
  PROVE  NamesError(dec)
<1>1. CASE list[j].type = "end"
  BY <1>1 DEF Perform, PerformEnd, Fail, Done, NoDecision, NamesError
<1>2. CASE list[j].type = "goto"
  <2>1. dec = PerformGoto(list[j], wf)
    BY <1>2 DEF Perform
  <2>2. \/ dec = GoOn(list[j].step) \/ dec = Leave(list[j].workflow)
        \/ dec = Fail("GotoTargetNotFound") \/ dec = Fail("GotoTargetMissing")
    BY <2>1 DEF PerformGoto
  <2>3. QED
    BY <2>2 DEF GoOn, Leave, Fail, NoDecision, NamesError
<1>3. CASE list[j].type \notin {"end", "goto"}
  BY <1>3 DEF Perform, PerformRetry, Retry, Fail, NoDecision, NamesError
<1>4. QED
  BY <1>1, <1>2, <1>3

LEMMA RoutesNamed ==
  ASSUME NEW wf, NEW i, NEW counts, NEW result, result # "none", NEW responded,
         NEW dec \in Routes(wf, i, counts, result, responded)
  PROVE  NamesError(dec)
<1>1. CASE result = "ok"
  <2>1. PICK m \in Matchings(SuccessActions(wf, i)) :
          dec \in SuccessRoutes(wf, i, m, responded)
    BY <1>1 DEF Routes
  <2>2. CASE dec = GoOn(i + 1)
    BY <2>2 DEF GoOn, NoDecision, NamesError
  <2>3. CASE \E j \in First(m) :
               dec \in Perform(wf, i, SuccessActions(wf, i), j, "ok", responded)
    BY <2>3, PerformNamed
  <2>4. QED
    BY <2>1, <2>2, <2>3 DEF SuccessRoutes
<1>2. CASE result # "ok"
  <2>1. PICK m \in Matchings(FailureActions(wf, i)) :
          dec \in FailureRoutes(wf, i, m, counts, result, responded)
    BY <1>2 DEF Routes
  <2> DEFINE live == {j \in m : ~Exhausted(FailureActions(wf, i)[j], counts, <<i, j>>)}
  <2>2. CASE dec \in {Fail("RetryLimitExceeded"), Fail(result)}
    BY <2>2 DEF Fail, NoDecision, NamesError
  <2>3. CASE \E j \in First(live) :
               dec \in Perform(wf, i, FailureActions(wf, i), j, result, responded)
    BY <2>3, PerformNamed
  <2>4. \/ dec \in {Fail("RetryLimitExceeded"), Fail(result)}
        \/ \E j \in First(live) :
             dec \in Perform(wf, i, FailureActions(wf, i), j, result, responded)
    BY <2>1 DEF FailureRoutes
  <2>5. QED
    BY <2>2, <2>3, <2>4
<1>3. QED
  BY <1>1, <1>2

\* The iteration limit is a number: it saturates.
LEMMA LimitTyped == \A wf : MaxIterations(wf) \in Nat
<1>1. \A x : Saturate(x) \in Nat
  BY BoundsAssumption DEF Saturate
<1>2. QED
  BY <1>1 DEF MaxIterations, IterationLimit
=============================================================================
