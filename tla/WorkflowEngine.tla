---------------------------- MODULE WorkflowEngine ----------------------------
(***************************************************************************)
(* The sequential scheduler of the runtime: one invocation of a workflow   *)
(* and every workflow it calls (Engine::execute_inner and what it awaits), *)
(* with the cancellation token and the timeout watchdog that may fire      *)
(* between any two of its awaits.                                          *)
(*                                                                         *)
(* A frame is one activation of execute_inner; the frames of the workflows *)
(* being called form a stack, of which only the last one runs.  A frame's  *)
(* pc names the await it is suspended at, so that each action is the code  *)
(* that runs between two awaits.                                           *)
(***************************************************************************)
EXTENDS StepRouting

CONSTANTS
  Documents,     (* the documents the engine may be built from             *)
  Root,          (* the workflow the caller executes                       *)
  Evidence,      (* the sets of completed workflows it may vouch for       *)
  MaxCallDepth   (* MAX_CALL_DEPTH                                         *)

ASSUME DocumentsAssumption == \A doc \in Documents : WellFormed(doc)
ASSUME CallerAssumption ==
  Root \in Workflows \union {Unknown} /\ Evidence \subseteq SUBSET Workflows
ASSUME MaxCallDepthAssumption == MaxCallDepth \in Nat \ {0}
\* Limits are of 64 bits, so that no document's sum of them saturates 128.
ASSUME WidthAssumption ==
  \A doc \in Documents : \A w \in Workflows : MaxIterations(doc[w]) < MaxU128

VARIABLES
  doc,             (* the document; it never changes                       *)
  provided,        (* completion evidence the caller passed in             *)
  frame,           (* the activations of execute_inner, by call depth      *)
  depth,           (* call depth of the one that is running                *)
  completed,       (* ExecutionContext.completed_workflows                 *)
  cancelled,       (* the cancellation token                               *)
  timedOut,        (* the is_timeout flag                                  *)
  watchdog,        (* the task execute_with_timeout spawns                 *)
  cancelRequested, (* the holder of the handle cancelled (or dropped) it   *)
  outcome          (* what the result channel carries; "none" until then   *)

vars == <<doc, provided, frame, depth, completed, cancelled, timedOut,
          watchdog, cancelRequested, outcome>>

context == <<doc, provided>>
signals == <<cancelled, timedOut, watchdog, cancelRequested>>

Depths == 0 .. MaxCallDepth

Locations ==
  {"idle",         \* no activation at this depth
   "enter",        \* about to be admitted
   "loop",         \* at the head of the iteration loop
   "begun",        \* an attempt is announced (begin_attempt)
   "request",      \* awaiting the step's response or message
   "subcall",      \* awaiting the step's sub-workflow
   "settled",      \* the attempt has a result
   "delay",        \* sleeping out a retry's delay
   "act",          \* acting on the routing decision
   "refrequest",   \* awaiting a retry's recovery step
   "refsubcall",   \* awaiting the sub-workflow of a recovery step
   "refcall",      \* awaiting a retry's recovery workflow
   "scheduled",    \* a retry is counted and reported
   "gotocall",     \* awaiting the workflow it went to
   "finish",       \* past its last step
   "return"}       \* returned; result is what it returned

Frame == [wf : Targets, pc : Locations, step : Nat, left : Nat,
          counts : Counts, result : Results, decision : Decision,
          admitted : BOOLEAN, reported : BOOLEAN]

\* admitted: the dependency guard was passed.  reported: WorkflowCompleted
\* was emitted for this activation.
Idle == [wf |-> NoWorkflow, pc |-> "idle", step |-> 0, left |-> 0,
         counts |-> [s \in Sites |-> 0], result |-> "none",
         decision |-> NoDecision, admitted |-> FALSE, reported |-> FALSE]

Activation(w) == [Idle EXCEPT !.wf = w, !.pc = "enter", !.step = 1]

top == frame[depth]
workflow == doc[top.wf]

TypeOK ==
  /\ doc \in Documents
  /\ provided \in Evidence
  /\ depth \in Depths
  /\ frame \in [Depths -> Frame]
  /\ completed \subseteq Workflows
  /\ cancelled \in BOOLEAN /\ timedOut \in BOOLEAN /\ cancelRequested \in BOOLEAN
  /\ watchdog \in {"armed", "flagged", "fired"}
  /\ outcome \in Results

Init ==
  /\ doc \in Documents
  /\ provided \in Evidence
  /\ frame = [d \in Depths |-> IF d = 0 THEN Activation(Root) ELSE Idle]
  /\ depth = 0
  /\ completed = provided
  /\ cancelled = FALSE /\ timedOut = FALSE /\ cancelRequested = FALSE
  /\ watchdog = "armed"
  /\ outcome = "none"

-----------------------------------------------------------------------------
(***************************************************************************)
(* Stack operations.                                                       *)
(***************************************************************************)
At(location) == outcome = "none" /\ top.pc = location

Set(f) == frame' = [frame EXCEPT ![depth] = f]

Ended(f, e) == [f EXCEPT !.pc = "return", !.result = e]

\* Ends with WorkflowCompleted emitted and the workflow recorded.
Reported(f, e) == [Ended(f, e) EXCEPT !.reported = TRUE]

Record == completed' = completed \union {top.wf}

Call(w, location) ==
  /\ frame' = [frame EXCEPT ![depth].pc = location, ![depth + 1] = Activation(w)]
  /\ depth' = depth + 1
  /\ UNCHANGED <<context, completed, signals, outcome>>

Local == UNCHANGED <<context, depth, signals, outcome>>

\* cancellation_error: the flag, not the token, tells a timeout.
CancelError == IF timedOut THEN "ExecutionTimeout" ELSE "ExecutionCancelled"

-----------------------------------------------------------------------------
(***************************************************************************)
(* execute_inner: admission.                                               *)
(***************************************************************************)
\* mutant: a dependency that is still running counts
AdmissibleWhileRunning(w) ==
  doc[w].dependsOn \subseteq completed \union {frame[d].wf : d \in 0 .. depth}

Admissible(w) == doc[w].dependsOn \subseteq completed

Refusal ==
  CASE depth >= MaxCallDepth -> {"MaxCallDepthExceeded"}
    [] depth < MaxCallDepth /\ top.wf \notin Workflows -> {"WorkflowNotFound"}
    [] depth < MaxCallDepth /\ top.wf \in Workflows /\ ~Admissible(top.wf) ->
         {"WorkflowDependencyUnsatisfied"}
    [] OTHER -> {}

Refuse ==
  /\ At("enter") /\ ~cancelled
  /\ \E e \in Refusal : Set(Ended(top, e))
  /\ Local /\ UNCHANGED completed

Admit(f) == [f EXCEPT !.admitted = TRUE]

\* Strict input validation fails, or a receive step's topic cannot be armed.
EntryFailures ==
  {"InputValidation"} \union (IF workflow.receives THEN {"MessageTransport"} ELSE {})

FailEntry ==
  /\ At("enter") /\ ~cancelled /\ Refusal = {}
  /\ \E e \in EntryFailures : Set(Ended(Admit(top), e))
  /\ Local /\ UNCHANGED completed

Enter ==
  /\ At("enter") /\ ~cancelled /\ Refusal = {}
  /\ Set([Admit(top) EXCEPT !.pc = "loop", !.left = MaxIterations(workflow)])
  /\ Local /\ UNCHANGED completed

(***************************************************************************)
(* execute_inner: the iteration loop.                                      *)
(***************************************************************************)
RunOutOfIterations ==
  /\ At("loop") /\ top.left = 0
  /\ Set(Ended(top, "IterationLimitExceeded"))
  /\ Record
  /\ Local

PastLastStep ==
  /\ At("loop") /\ top.left > 0 /\ ~cancelled
  /\ top.step \notin DOMAIN workflow.steps
  /\ Set([top EXCEPT !.pc = "finish", !.left = @ - 1])
  /\ Local /\ UNCHANGED completed

\* mutant: the loop is not bounded
BeginAttemptUnbounded ==
  /\ At("loop") /\ ~cancelled
  /\ top.step \in DOMAIN workflow.steps
  /\ Set([top EXCEPT !.pc = "begun", !.left = @ - 1, !.result = "none",
                     !.decision = NoDecision])
  /\ Local /\ UNCHANGED completed

\* mutant: iterations are not counted
BeginAttemptUncounted ==
  /\ At("loop") /\ top.left > 0 /\ ~cancelled
  /\ top.step \in DOMAIN workflow.steps
  /\ Set([top EXCEPT !.pc = "begun", !.result = "none", !.decision = NoDecision])
  /\ Local /\ UNCHANGED completed

BeginAttempt ==
  /\ At("loop") /\ top.left > 0 /\ ~cancelled
  /\ top.step \in DOMAIN workflow.steps
  /\ Set([top EXCEPT !.pc = "begun", !.left = @ - 1, !.result = "none",
                     !.decision = NoDecision])
  /\ Local /\ UNCHANGED completed

\* mutant: the token is not looked at after the attempt is announced
StartRequestUnchecked ==
  /\ At("begun")
  /\ workflow.steps[top.step].target = NoWorkflow
  /\ Set([top EXCEPT !.pc = "request"])
  /\ Local /\ UNCHANGED completed

StartRequest ==
  /\ At("begun") /\ ~cancelled
  /\ workflow.steps[top.step].target = NoWorkflow
  /\ Set([top EXCEPT !.pc = "request"])
  /\ Local /\ UNCHANGED completed

StartSubWorkflow ==
  /\ At("begun") /\ ~cancelled
  /\ workflow.steps[top.step].target # NoWorkflow
  /\ Call(workflow.steps[top.step].target, "subcall")

\* An answer is held against the criteria in order, up to the first that is not met; with
\* all of them met the step has succeeded, and its outputs are read.
Judged == {"ok", "SuccessCriteriaFailed"}

\* The answer, from outside the program, or none.
Replied ==
  /\ At("request") /\ ~cancelled
  /\ \E r \in Judged \union {"HttpRequest"} :
       Set([top EXCEPT !.pc = "settled", !.result = r])
  /\ Local /\ UNCHANGED completed

\* mutant: a transport wait that does not select the token
RequestCancelledNever == FALSE /\ UNCHANGED vars

\* Every transport wait selects the token first.
RequestCancelled ==
  /\ At("request") /\ cancelled
  /\ Set([top EXCEPT !.pc = "settled", !.result = CancelError])
  /\ Local /\ UNCHANGED completed

-----------------------------------------------------------------------------
(***************************************************************************)
(* finish_attempt: the attempt is completed, then routed.  Routing sleeps  *)
(* out a retry's delay; a cancellation overrides whatever it decided.      *)
(***************************************************************************)
Responded == workflow.steps[top.step].target = NoWorkflow
             /\ top.result \in {"ok", "SuccessCriteriaFailed"}

Route ==
  /\ At("settled") /\ ~cancelled
  /\ \E dec \in Routes(workflow, top.step, top.counts, top.result, Responded) :
       Set([top EXCEPT !.decision = dec,
                       !.pc = IF dec.waits THEN "delay" ELSE "act"])
  /\ Local /\ UNCHANGED completed

DelayElapsed ==
  /\ At("delay") /\ ~cancelled
  /\ Set([top EXCEPT !.pc = "act"])
  /\ Local /\ UNCHANGED completed

RoutingCancelled ==
  /\ top.pc \in {"settled", "delay"} /\ outcome = "none" /\ cancelled
  /\ Set([top EXCEPT !.decision = Fail(CancelError), !.pc = "act"])
  /\ Local /\ UNCHANGED completed

(***************************************************************************)
(* execute_inner: acting on the decision.                                  *)
(***************************************************************************)
Decided(kind) == At("act") /\ ~cancelled /\ top.decision.kind = kind

ActDone ==
  /\ Decided("done")
  /\ Set([top EXCEPT !.pc = "finish"])
  /\ Local /\ UNCHANGED completed

ActNext ==
  /\ Decided("next")
  /\ Set([top EXCEPT !.pc = "loop", !.step = top.decision.step])
  /\ Local /\ UNCHANGED completed

ActError ==
  /\ Decided("error")
  /\ Set(Reported(top, top.decision.error))
  /\ Record
  /\ Local

ActGotoWorkflow ==
  /\ Decided("gotoWorkflow")
  /\ Call(top.decision.workflow, "gotocall")

\* count_retry, then RetryScheduled.
Scheduled(f) == [f EXCEPT !.pc = "scheduled",
                          !.counts = CountRetry(@, f.decision.site)]

PlainRetry(dec) == dec.step = 0 /\ dec.workflow = NoWorkflow

ActPlainRetry ==
  /\ Decided("retry") /\ PlainRetry(top.decision)
  /\ Set(Scheduled(top))
  /\ Local /\ UNCHANGED completed

(***************************************************************************)
(* execute_retry_reference: call and return, before the step is retried.   *)
(***************************************************************************)
FailReference(e) ==
  /\ Set(Reported(top, e))
  /\ Record
  /\ Local

ActReferenceWorkflow ==
  /\ Decided("retry") /\ top.decision.step = 0 /\ top.decision.workflow # NoWorkflow
  /\ Call(top.decision.workflow, "refcall")

ActReferenceMissing ==
  /\ Decided("retry") /\ top.decision.step # 0
  /\ top.decision.step \notin DOMAIN workflow.steps
  /\ FailReference("RetryReferenceFailed")

ReferenceTarget == workflow.steps[top.decision.step].target

ActReferenceStep ==
  /\ Decided("retry") /\ top.decision.step \in DOMAIN workflow.steps
  /\ ReferenceTarget = NoWorkflow
  /\ Set([top EXCEPT !.pc = "refrequest"])
  /\ Local /\ UNCHANGED completed

ActReferenceSubWorkflow ==
  /\ Decided("retry") /\ top.decision.step \in DOMAIN workflow.steps
  /\ ReferenceTarget # NoWorkflow
  /\ Call(ReferenceTarget, "refsubcall")

ReferenceReplied ==
  /\ At("refrequest") /\ ~cancelled
  /\ \/ Set(Scheduled(top)) /\ Local /\ UNCHANGED completed
     \/ FailReference("RetryReferenceFailed")

RetryStep ==
  /\ At("scheduled") /\ ~cancelled
  /\ Set([top EXCEPT !.pc = "loop"])
  /\ Local /\ UNCHANGED completed

(***************************************************************************)
(* execute_inner: outputs are built, WorkflowCompleted is emitted, and the *)
(* workflow is recorded.                                                   *)
(***************************************************************************)
Finish ==
  /\ At("finish") /\ ~cancelled
  /\ Set(Reported(top, "ok"))
  /\ Record
  /\ Local

\* check_cancelled()?, where it ends the activation.  The head of the loop
\* tests the iteration budget first.
Checkpoints == {"enter", "loop", "begun", "act", "refrequest", "scheduled", "finish"}

ObserveCancel ==
  /\ outcome = "none" /\ cancelled
  /\ top.pc \in Checkpoints
  /\ top.pc = "loop" => top.left > 0
  /\ Set(Ended(top, CancelError))
  /\ Local /\ UNCHANGED completed

-----------------------------------------------------------------------------
(***************************************************************************)
(* Returning to the caller's await.                                        *)
(***************************************************************************)
Caller == frame[depth - 1]

Returning(location) == At("return") /\ depth > 0 /\ Caller.pc = location

ResumeWith(f) ==
  /\ frame' = [frame EXCEPT ![depth] = Idle, ![depth - 1] = f]
  /\ depth' = depth - 1
  /\ UNCHANGED <<context, signals, outcome>>

\* A refused dependency keeps its kind; any other failure is wrapped.
Wrapped(e, kind) ==
  IF e = "WorkflowDependencyUnsatisfied" THEN e ELSE kind

\* What a step that called a sub-workflow settles to.  Its success criteria
\* are evaluated on the outputs the sub-workflow returned.
SubWorkflowResults(e) ==
  CASE cancelled -> {CancelError}
    [] ~cancelled /\ e = "ok" -> {"ok", "SuccessCriteriaFailed"}
    [] OTHER -> {Wrapped(e, "SubWorkflowFailed")}

SubWorkflowReturned ==
  /\ Returning("subcall")
  /\ \E r \in SubWorkflowResults(top.result) :
       ResumeWith([Caller EXCEPT !.pc = "settled", !.result = r])
  /\ UNCHANGED completed

\* The caller is recorded unless its target was cancelled.
GotoReturned ==
  /\ Returning("gotocall")
  /\ ResumeWith(Ended(Caller, top.result))
  /\ completed' = IF top.result \in Cancellations THEN completed
                  ELSE completed \union {Caller.wf}

\* What a recovery reference that called a workflow comes to.
ReferenceResults(e) ==
  CASE e = "ok" /\ Caller.pc = "refcall" -> {"ok"}
    [] e = "ok" /\ Caller.pc = "refsubcall" -> {"ok", "RetryReferenceFailed"}
    [] e # "ok" /\ Caller.pc = "refcall" -> {Wrapped(e, "RetryReferenceFailed")}
    [] OTHER -> {"RetryReferenceFailed"}

ReferenceReturned ==
  /\ Returning("refcall") \/ Returning("refsubcall")
  /\ \/ /\ cancelled
        /\ ResumeWith(Ended(Caller, CancelError))
        /\ UNCHANGED completed
     \/ /\ ~cancelled
        /\ \E r \in ReferenceResults(top.result) :
             IF r = "ok"
             THEN ResumeWith(Scheduled(Caller)) /\ UNCHANGED completed
             ELSE /\ ResumeWith(Reported(Caller, r))
                  /\ completed' = completed \union {Caller.wf}

\* The task drops the context and sends the result.
SendResult ==
  /\ At("return") /\ depth = 0
  /\ outcome' = top.result
  /\ UNCHANGED <<context, frame, depth, completed, signals>>

-----------------------------------------------------------------------------
(***************************************************************************)
(* The other tasks: whoever holds the handle, and the watchdog, which sets *)
(* the flag before it fires the token.  Both may act at any time, or never *)
(* (a run without a timeout is one whose watchdog does not act).           *)
(***************************************************************************)
CancelHandle ==
  /\ ~cancelRequested
  /\ cancelled' = TRUE /\ cancelRequested' = TRUE
  /\ UNCHANGED <<context, frame, depth, completed, timedOut, watchdog, outcome>>

\* mutant: the token is fired before the flag is set
WatchdogFlagsLate ==
  /\ watchdog = "armed"
  /\ watchdog' = "flagged" /\ cancelled' = TRUE
  /\ UNCHANGED <<context, frame, depth, completed, timedOut, cancelRequested, outcome>>

WatchdogFlags ==
  /\ watchdog = "armed"
  /\ watchdog' = "flagged" /\ timedOut' = TRUE
  /\ UNCHANGED <<context, frame, depth, completed, cancelled, cancelRequested, outcome>>

WatchdogCancels ==
  /\ watchdog = "flagged"
  /\ watchdog' = "fired" /\ cancelled' = TRUE
  /\ UNCHANGED <<context, frame, depth, completed, timedOut, cancelRequested, outcome>>

\* The steps the engine's task takes by itself.
EngineStep ==
  \/ Refuse \/ FailEntry \/ Enter
  \/ RunOutOfIterations \/ PastLastStep \/ BeginAttempt
  \/ StartRequest \/ StartSubWorkflow \/ RequestCancelled
  \/ Route \/ DelayElapsed \/ RoutingCancelled
  \/ ActDone \/ ActNext \/ ActError \/ ActGotoWorkflow \/ ActPlainRetry
  \/ ActReferenceWorkflow \/ ActReferenceMissing \/ ActReferenceStep
  \/ ActReferenceSubWorkflow \/ RetryStep \/ Finish \/ ObserveCancel
  \/ SubWorkflowReturned \/ GotoReturned \/ ReferenceReturned \/ SendResult

ReplyStep == Replied \/ ReferenceReplied

Next == EngineStep \/ ReplyStep \/ CancelHandle \/ WatchdogFlags \/ WatchdogCancels

Spec == Init /\ [][Next]_vars

\* The runtime polls the engine's task; nobody need answer a request.
FairSpec == Spec /\ WF_vars(EngineStep)

\* Every request is answered too (or its own timeout fires).
AnsweredSpec == FairSpec /\ WF_vars(ReplyStep)

(***************************************************************************)
(* Completion evidence.                                                    *)
(***************************************************************************)
\* A workflow this run recorded as completed had every workflow it depends
\* on recorded before: the guard of require_workflow_dependencies reaches
\* through retries, gotos and sub-workflow calls alike, whatever evidence
\* the caller provided.
DependenciesFirst ==
  \A w \in completed \ provided : doc[w].dependsOn \subseteq completed

\* An admitted activation that got past its entry and did not end in a
\* cancellation is completion evidence, even when it failed or handed over
\* to another workflow.
EndedIsRecorded ==
  \A d \in Depths :
    (frame[d].pc = "return" /\ frame[d].admitted /\ frame[d].result
       \notin Cancellations \union {"InputValidation", "MessageTransport"})
    => frame[d].wf \in completed

\* Completion evidence is neither premature nor missing.
CompletionEvidence == DependenciesFirst /\ EndedIsRecorded

\* A cancelled invocation did not complete: no step records a workflow while
\* the activation it records returns a cancellation, and none records a
\* workflow that is not being run.
CancelledNotRecorded ==
  [][\A w \in completed' \ completed :
       \E d \in Depths : /\ frame'[d].wf = w /\ frame'[d].pc = "return"
                         /\ frame'[d].admitted
                         /\ frame'[d].result \notin Cancellations]_vars

(***************************************************************************)
(* Retry budgets and the iteration limit.                                  *)
(***************************************************************************)
\* No failure action is retried more often than its effective limit within
\* one activation, however often gotos return to its step.
RetriesWithinLimit ==
  \A d \in 0 .. depth :
    \A i \in 1 .. MaxSteps : \A j \in 1 .. MaxActions :
      frame[d].counts[<<i, j>>] > 0 =>
        /\ i \in DOMAIN doc[frame[d].wf].steps
        /\ LET list == FailureActions(doc[frame[d].wf], i) IN
             /\ j \in DOMAIN list /\ list[j].type = "retry"
             /\ frame[d].counts[<<i, j>>] <= EffectiveLimit(list[j])

\* A workflow with steps whose gotos never lead back cannot run out of
\* iterations: the budgets compute_max_iterations adds up cover every retry
\* that routing may choose, inherited ones included.
GoesForward(wf) ==
  \A i \in DOMAIN wf.steps :
    \A list \in {SuccessActions(wf, i), FailureActions(wf, i)} :
      \A j \in DOMAIN list :
        list[j].type = "goto" /\ list[j].step # 0 => list[j].step > i

OutOfIterations(f) == f.pc = "loop" /\ f.left = 0

LimitOnlyStopsLoops ==
  \A d \in 0 .. depth :
    OutOfIterations(frame[d]) =>
      doc[frame[d].wf].steps = <<>> \/ ~GoesForward(doc[frame[d].wf])

(***************************************************************************)
(* Cancellation and timeout.                                               *)
(***************************************************************************)
\* The watchdog sets the flag before it fires the token, so a run only its
\* watchdog stopped is never reported as cancelled by its caller.
TimeoutNotCalledCancel ==
  outcome = "ExecutionCancelled" => cancelRequested

\* Once the token has fired no step is begun, no request is sent and no retry
\* is reported, at any depth of the stack.
Working == {"request", "refrequest", "scheduled"}
NoWorkAfterCancel ==
  [][cancelled => \A d \in Depths :
       frame'[d].pc \in Working \union {"begun"} => frame'[d].pc = frame[d].pc]_vars

\* A cancelled run is never reported as a success or a failure of the
\* workflow unless it had already got that far: once the token has fired,
\* whatever returns in a later step returns a cancellation, or what an
\* activation below it had returned before.
CancelledStaysCancelled ==
  [][cancelled =>
       \A d \in Depths :
         (frame'[d].pc = "return" /\ frame[d].pc # "return") =>
            \/ frame'[d].result \in Cancellations
            \/ frame[d].pc = "loop" /\ frame[d].left = 0
            \/ d < depth /\ frame'[d].result = frame[d + 1].result]_vars

\* Nothing of a run gets past a fired token: no work, no other outcome, and no
\* workflow recorded as completed that was cut short.
TokenPrevails == CancelledNotRecorded /\ NoWorkAfterCancel /\ CancelledStaysCancelled

\* A fired token ends the run, although the request it is waiting for is
\* never answered.
CancelSettles == cancelled ~> outcome # "none"

\* Every run ends: gotos and retries are bounded by the iteration budget and
\* recursion by the call depth.
Terminates == <>(outcome # "none")

(***************************************************************************)
(* What the source says and the code does not do.                          *)
(***************************************************************************)
\* RetryScheduled: "A retry will execute. Emitted ... immediately before the
\* retried step is scheduled" (events.rs).
ScheduledRetryRuns == At("scheduled") => top.left > 0

\* WorkflowCompleted: "Workflow execution finished." (events.rs).
FinishedIsReported ==
  \A d \in Depths :
    (frame[d].pc = "return" /\ frame[d].admitted /\ frame[d].result
       \notin Cancellations \union {"InputValidation", "MessageTransport"})
    => frame[d].reported
=============================================================================
